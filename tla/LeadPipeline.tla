---------------------------- MODULE LeadPipeline ----------------------------
(***************************************************************************)
(* From a search query to a lead: the pages of a Google Places search       *)
(* become companies (SourcingJobService), their websites are crawled for    *)
(* addresses, and Hunter looks for a person (EnrichmentJobService), at a    *)
(* price.  Every part runs in the cron tick, all at once, and by hand       *)
(* beside it, on rows that the others change in the meantime.               *)
(***************************************************************************)
EXTENDS Integers, Sequences, FiniteSets

CONSTANTS
  Companies,    \* companies with a website that no blocklist names
  Nobody,       \* no company, and no address
  Address,      \* mail addresses
  Emails,       \* those that Hunter or the website may give, by company
  Owner,        \* the companies of the contacts there are already, by address
  Pages,        \* pages of the query's result
  Found,        \* the companies that each page shows
  Runners,      \* runs of the query at the same time
  Crawlers,     \* runs of processCrawlBatch at the same time
  Batches,      \* runs of enrichBatch or of the user's bulk action
  MaxAttempts,  \* maxAttempts of the enrichment's settings
  CreditLimit,  \* dailyCreditLimit
  MaxClicks,    \* bound: things the user does, and runs of a query
  MaxMishaps    \* bound: crashes, and exceptions outside the enrichment

ASSUME PipelineAssumption ==
  /\ Nobody \notin Companies /\ Emails \in [Companies -> SUBSET Address]
  /\ Owner \in [Address -> Companies \cup {Nobody}]
  /\ \A a \in Address : Owner[a] # Nobody => a \in Emails[Owner[a]]
  /\ Pages \in Nat \ {0} /\ Found \in [1 .. Pages -> SUBSET Companies]
  /\ IsFiniteSet(Batches) /\ Batches # {}
  /\ MaxAttempts \in Nat \ {0} /\ CreditLimit \in Nat \ {0}
  /\ MaxClicks \in Nat /\ MaxMishaps \in Nat

VARIABLES
  query,      \* the SearchQuery: its status, and how many pages its token is past
  patch,      \* what a request that activates the query has read as its token
  runner,     \* the runs of the query
  crawl,      \* Company.crawlStatus, "none" before there is a row
  mail,       \* the companies with a CompanyEmail
  crawler,    \* the runs of the crawler
  status,     \* Company.enrichmentStatus
  attempts,   \* Company.enrichmentAttempts
  contact,    \* Contact.companyId, by address
  opps,       \* the primary contacts of the OPEN opportunities, oldest first,
              \* by company (the sales staff, who close and edit them, are left out)
  batch,      \* the runs of the enrichment
  units,      \* Hunter units in the ApiUsageLog of the day
  billed,     \* history: searches for a company since it was last reset
  moved,      \* history: addresses whose contact went from one company to another
  disturbed,  \* history: companies that two batches had at the same time, that
              \* the user had enriched, or skipped or reset during a batch
  clicks, mishaps

places == <<query, patch, runner>>
crawls == <<mail, crawler>>
leads  == <<status, attempts, contact, opps, batch, units, billed, moved,
            disturbed>>
counts == <<clicks, mishaps>>
vars   == <<places, crawl, crawls, leads, counts>>

Tokens   == 0 .. Pages - 1
Finished == {"ENRICHED", "NO_CONTACT", "SKIPPED"}
CrawlOk  == {"DONE", "BLOCKED"}
Billing  == {"search", "person", "generic"}   \* a call of Hunter is ahead
Trying   == Billing \cup {"contact", "lead", "create", "write"}

NoRun   == [at |-> "idle", token |-> 0, left |-> {}]
NoCrawl == [at |-> "idle", co |-> Nobody, left |-> {}]
NoBatch == [at |-> "idle", co |-> Nobody, left |-> {}, attempts |-> 0,
            mail |-> FALSE, contact |-> Nobody]

TypeOK ==
  /\ query \in [status : {"ACTIVE", "PAUSED", "DONE"}, token : Tokens]
  /\ patch \in Tokens \cup {-1}
  /\ runner \in [Runners -> [at : {"idle", "search", "store"}, token : Tokens,
                             left : SUBSET Companies]]
  /\ crawl \in [Companies -> {"none", "PENDING", "FAILED"} \cup CrawlOk]
  /\ mail \subseteq Companies /\ contact \in [Address -> Companies \cup {Nobody}]
  /\ crawler \in [Crawlers -> [at : {"idle", "next", "fetch", "mail"},
                               co : Companies \cup {Nobody}, left : SUBSET Companies]]
  /\ status \in [Companies -> {"PENDING", "FAILED"} \cup Finished]
  /\ attempts \in [Companies -> Nat] /\ opps \in [Companies -> Seq(Address)]
  /\ batch \in [Batches -> [at : {"idle", "next"} \cup Trying,
                            co : Companies \cup {Nobody}, left : SUBSET Companies,
                            attempts : Nat, mail : BOOLEAN,
                            contact : Address \cup {Nobody}]]
  /\ units \in Nat /\ billed \in [Companies -> Nat]
  /\ moved \subseteq Address /\ disturbed \subseteq Companies
  /\ clicks \in 0 .. MaxClicks /\ mishaps \in 0 .. MaxMishaps

(* the companies that were enriched on earlier days have a contact          *)
Known == {c \in Companies : \E a \in Address : Owner[a] = c}

Init ==
  /\ query = [status |-> "ACTIVE", token |-> 0] /\ patch = -1
  /\ runner = [r \in Runners |-> NoRun]
  /\ crawl = [c \in Companies |-> IF c \in Known THEN "DONE" ELSE "none"] /\ mail = Known
  /\ crawler = [k \in Crawlers |-> NoCrawl]
  /\ status = [c \in Companies |-> IF c \in Known THEN "ENRICHED" ELSE "PENDING"]
  /\ attempts = [c \in Companies |-> IF c \in Known THEN 1 ELSE 0] /\ billed = attempts
  /\ contact = Owner
  /\ opps = [c \in Companies |->
               IF c \in Known THEN <<CHOOSE a \in Address : Owner[a] = c>> ELSE <<>>]
  /\ batch = [b \in Batches |-> NoBatch]
  /\ units = 0 /\ moved = {} /\ disturbed = {} /\ clicks = 0 /\ mishaps = 0

Click  == clicks < MaxClicks /\ clicks' = clicks + 1 /\ UNCHANGED mishaps
Mishap == mishaps < MaxMishaps /\ mishaps' = mishaps + 1 /\ UNCHANGED clicks

-----------------------------------------------------------------------------
(* runOneQuery, for the tick or for a user: the query as it is now; only a  *)
(* paused one is refused                                                    *)
StartRun(r) ==
  /\ runner[r].at = "idle" /\ query.status # "PAUSED" /\ Click
  /\ runner' = [runner EXCEPT ![r] =
                  [at |-> "search", token |-> query.token, left |-> {}]]
  /\ UNCHANGED <<query, patch, crawl, crawls, leads>>

TextSearch(r) ==
  /\ runner[r].at = "search"
  /\ runner' = [runner EXCEPT ![r] = [at |-> "store", token |-> runner[r].token,
                                      left |-> Found[runner[r].token + 1]]]
  /\ UNCHANGED <<query, patch, crawl, crawls, leads, counts>>

(* upsertPlaceCompany: a new company waits for the crawler                  *)
UpsertPlace(r, c) ==
  /\ runner[r].at = "store" /\ c \in runner[r].left
  /\ crawl' = [crawl EXCEPT ![c] = IF @ = "none" THEN "PENDING" ELSE @]
  /\ runner' = [runner EXCEPT ![r] = [at |-> "store", token |-> runner[r].token,
                                      left |-> runner[r].left \ {c}]]
  /\ UNCHANGED <<query, patch, crawls, leads, counts>>

NextToken(t) == IF t + 1 = Pages THEN 0 ELSE t + 1

(* as if the token were saved before the page's companies are               *)
AdvanceEarly(r) ==
  /\ runner[r].at = "store"
  /\ query' = [status |-> IF runner[r].token + 1 = Pages THEN "DONE" ELSE "ACTIVE",
               token |-> NextToken(runner[r].token)]
  /\ runner' = [runner EXCEPT ![r] = NoRun]
  /\ UNCHANGED <<patch, crawl, crawls, leads, counts>>

(* the update that ends a run does not look at the row again: the token may *)
(* go back, a pause or the end of the query is overwritten                  *)
Advance(r) ==
  /\ runner[r].at = "store" /\ runner[r].left = {}
  /\ query' = [status |-> IF runner[r].token + 1 = Pages THEN "DONE" ELSE "ACTIVE",
               token |-> NextToken(runner[r].token)]
  /\ runner' = [runner EXCEPT ![r] = NoRun]
  /\ UNCHANGED <<patch, crawl, crawls, leads, counts>>

(* the search or an upsert throws (two runs that create one company), or    *)
(* the process dies: the token stays                                        *)
RunFails(r) ==
  /\ runner[r].at # "idle" /\ Mishap
  /\ runner' = [runner EXCEPT ![r] = NoRun]
  /\ UNCHANGED <<query, patch, crawl, crawls, leads>>

PauseQuery ==
  /\ query.status # "PAUSED" /\ Click
  /\ query' = [query EXCEPT !.status = "PAUSED"]
  /\ UNCHANGED <<patch, runner, crawl, crawls, leads>>

(* SearchQueryService.update writes the token back that it has read         *)
ReadToActivate ==
  /\ patch = -1 /\ Click
  /\ patch' = query.token
  /\ UNCHANGED <<query, runner, crawl, crawls, leads>>

Activate ==
  /\ patch # -1
  /\ query' = [status |-> "ACTIVE", token |-> patch] /\ patch' = -1
  /\ UNCHANGED <<runner, crawl, crawls, leads, counts>>

-----------------------------------------------------------------------------
(* processCrawlBatch: the tick takes those that wait, a user any he likes   *)
ListCrawls(k) ==
  /\ crawler[k].at = "idle"
  /\ \E S \in SUBSET {c \in Companies : crawl[c] # "none"} :
       /\ S # {}
       /\ \/ S = {c \in Companies : crawl[c] = "PENDING"} /\ UNCHANGED counts
          \/ Click
       /\ crawler' = [crawler EXCEPT ![k] = [at |-> "next", co |-> Nobody, left |-> S]]
  /\ UNCHANGED <<places, crawl, mail, leads>>

TurnCrawl(k) ==
  IF crawler[k].left = {} THEN NoCrawl
  ELSE [at |-> "next", co |-> Nobody, left |-> crawler[k].left]

Fetch(k, c) ==
  /\ crawler[k].at = "next" /\ c \in crawler[k].left
  /\ crawler' = [crawler EXCEPT ![k] =
                   [at |-> "fetch", co |-> c, left |-> crawler[k].left \ {c}]]
  /\ UNCHANGED <<places, crawl, mail, leads, counts>>

(* the outcome is written first, the addresses after it                     *)
WriteCrawl(k) ==
  /\ crawler[k].at = "fetch"
  /\ \E s \in CrawlOk \cup {"FAILED"} :
       /\ crawl' = [crawl EXCEPT ![crawler[k].co] = s]
       /\ \/ crawler' = [crawler EXCEPT ![k] = TurnCrawl(k)]
          \/ /\ s # "FAILED"
             /\ crawler' = [crawler EXCEPT ![k] =
                  [at |-> "mail", co |-> crawler[k].co, left |-> crawler[k].left]]
  /\ UNCHANGED <<places, mail, leads, counts>>

WriteMail(k) ==
  /\ crawler[k].at = "mail"
  /\ mail' = mail \cup {crawler[k].co}
  /\ crawler' = [crawler EXCEPT ![k] = TurnCrawl(k)]
  /\ UNCHANGED <<places, crawl, leads, counts>>

(* an exception fails the company, whatever was written; a crash leaves it  *)
CrawlFails(k) ==
  /\ crawler[k].at \in {"fetch", "mail"} /\ Mishap
  /\ crawl' = [crawl EXCEPT ![crawler[k].co] = "FAILED"]
  /\ crawler' = [crawler EXCEPT ![k] = TurnCrawl(k)]
  /\ UNCHANGED <<places, mail, leads>>

CrawlerDies(k) ==
  /\ crawler[k].at # "idle" /\ Mishap
  /\ crawler' = [crawler EXCEPT ![k] = NoCrawl]
  /\ UNCHANGED <<places, crawl, mail, leads>>

-----------------------------------------------------------------------------
(* as if a failed company were tried for ever                               *)
EligibleForever(c) ==
  /\ crawl[c] \in CrawlOk
  /\ status[c] \in {"PENDING", "FAILED"}

(* as if a company without a contact were tried again                       *)
EligibleUnfound(c) ==
  /\ crawl[c] \in CrawlOk
  /\ \/ status[c] \in {"PENDING", "NO_CONTACT"}
     \/ status[c] = "FAILED" /\ attempts[c] < MaxAttempts

(* pendingEnrichmentWhere                                                   *)
Eligible(c) ==
  /\ crawl[c] \in CrawlOk
  /\ \/ status[c] = "PENDING"
     \/ status[c] = "FAILED" /\ attempts[c] < MaxAttempts

Having(b) == batch[b].left \cup ({batch[b].co} \ {Nobody})
InHand    == UNION {Having(b) : b \in Batches}

(* a batch that is between two companies                                    *)
Listed(S) == [at |-> "next", co |-> Nobody, left |-> S, attempts |-> 0,
              mail |-> FALSE, contact |-> Nobody]

(* enrichBatch lists its companies once                                     *)
ListBatch(b) ==
  LET S == {c \in Companies : Eligible(c)} IN
  /\ batch[b].at = "idle" /\ units < CreditLimit /\ S # {}
  /\ batch' = [batch EXCEPT ![b] = Listed(S)]
  /\ disturbed' = disturbed \cup (S \cap InHand)
  /\ UNCHANGED <<places, crawl, crawls, status, attempts, contact, opps, units,
                 billed, moved, counts>>

(* the user has a company enriched, whatever its status                     *)
ChooseBatch(b, c) ==
  /\ batch[b].at = "idle" /\ crawl[c] # "none" /\ Click
  /\ batch' = [batch EXCEPT ![b] = Listed({c})]
  /\ disturbed' = disturbed \cup {c}
  /\ UNCHANGED <<places, crawl, crawls, status, attempts, contact, opps, units,
                 billed, moved>>

TurnBatch(b) ==
  IF batch[b].left = {} THEN NoBatch ELSE Listed(batch[b].left)

At(b, place, a) ==
  [at |-> place, co |-> batch[b].co, left |-> batch[b].left,
   attempts |-> batch[b].attempts, mail |-> batch[b].mail, contact |-> a]

Goes(b, place) == batch' = [batch EXCEPT ![b] = At(b, place, batch[b].contact)]
Turns(b)       == batch' = [batch EXCEPT ![b] = TurnBatch(b)]

(* as if the credits were looked at once for a batch                        *)
BeginUnlimited(b, c) ==
  /\ batch[b].at = "next" /\ c \in batch[b].left
  /\ batch' = [batch EXCEPT ![b] =
       [at |-> "search", co |-> c, left |-> batch[b].left \ {c},
        attempts |-> attempts[c], mail |-> c \in mail, contact |-> Nobody]]
  /\ UNCHANGED <<places, crawl, crawls, status, attempts, contact, opps, units,
                 billed, moved, disturbed, counts>>

(* enrichOneCompany reads the company and the day's units: a company that   *)
(* is not crawled is passed over, a limit reached ends the batch; the       *)
(* status is not looked at again                                            *)
Begin(b, c) ==
  /\ batch[b].at = "next" /\ c \in batch[b].left
  /\ LET rest == batch[b].left \ {c} IN
     batch' = [batch EXCEPT ![b] =
       IF crawl[c] \in CrawlOk /\ units < CreditLimit
       THEN [at |-> "search", co |-> c, left |-> rest,
             attempts |-> attempts[c], mail |-> c \in mail, contact |-> Nobody]
       ELSE IF crawl[c] \in CrawlOk \/ rest = {} THEN NoBatch
       ELSE Listed(rest)]
  /\ UNCHANGED <<places, crawl, crawls, status, attempts, contact, opps, units,
                 billed, moved, disturbed, counts>>

(* the domain search: a person, or nobody (or the limit of Hunter's plan)   *)
DomainSearch(b) ==
  /\ batch[b].at = "search"
  /\ Goes(b, "person") \/ Goes(b, "generic")
  /\ units' = units + 1
  /\ billed' = [billed EXCEPT ![batch[b].co] = @ + 1]
  /\ UNCHANGED <<places, crawl, crawls, status, attempts, contact, opps, moved,
                 disturbed, counts>>

(* the person's address is verified: it will do, or else there is the website's *)
VerifyPerson(b) ==
  /\ batch[b].at = "person"
  /\ Goes(b, "contact") \/ Goes(b, "generic")
  /\ units' = units + 1
  /\ UNCHANGED <<places, crawl, crawls, status, attempts, contact, opps, billed, moved,
                 disturbed, counts>>

VerifyGeneric(b) ==
  /\ batch[b].at = "generic" /\ batch[b].mail
  /\ Goes(b, "contact")
  /\ units' = units + 1
  /\ UNCHANGED <<places, crawl, crawls, status, attempts, contact, opps, billed, moved,
                 disturbed, counts>>

NoContact(b) ==
  LET c == batch[b].co IN
  /\ batch[b].at = "generic" /\ ~batch[b].mail
  /\ status' = [status EXCEPT ![c] = "NO_CONTACT"]
  /\ attempts' = [attempts EXCEPT ![c] = @ + 1]
  /\ Turns(b)
  /\ UNCHANGED <<places, crawl, crawls, contact, opps, units, billed, moved,
                 disturbed, counts>>

(* as if a contact that is found kept its company                           *)
UpsertContactKept(b) ==
  /\ batch[b].at = "contact"
  /\ \E a \in Emails[batch[b].co] :
       /\ contact' = [contact EXCEPT ![a] = IF @ = Nobody THEN batch[b].co ELSE @]
       /\ batch' = [batch EXCEPT ![b] = At(b, "lead", a)]
  /\ UNCHANGED <<places, crawl, crawls, status, attempts, opps, units, billed, moved,
                 disturbed, counts>>

(* upsertContactByEmail: the contact is the organisation's by its address,  *)
(* and goes to the company it was last found for                            *)
UpsertContact(b) ==
  /\ batch[b].at = "contact"
  /\ \E a \in Emails[batch[b].co] :
       /\ contact' = [contact EXCEPT ![a] = batch[b].co]
       /\ moved' = IF contact[a] \in {Nobody, batch[b].co} THEN moved ELSE moved \cup {a}
       /\ batch' = [batch EXCEPT ![b] = At(b, "lead", a)]
  /\ UNCHANGED <<places, crawl, crawls, status, attempts, opps, units, billed, disturbed,
                 counts>>

(* as if every enrichment opened an opportunity                             *)
LookForLeadInVain(b) ==
  /\ batch[b].at = "lead"
  /\ Goes(b, "create")
  /\ UNCHANGED <<places, crawl, crawls, status, attempts, contact, opps, units,
                 billed, moved, disturbed, counts>>

(* ensureSourcedOpportunity: the oldest one takes the contact               *)
LookForLead(b) ==
  LET c == batch[b].co IN
  /\ batch[b].at = "lead"
  /\ \/ opps[c] = <<>> /\ Goes(b, "create") /\ UNCHANGED opps
     \/ /\ opps[c] # <<>> /\ Goes(b, "write")
        /\ opps' = [opps EXCEPT ![c] = <<batch[b].contact>> \o Tail(@)]
  /\ UNCHANGED <<places, crawl, crawls, status, attempts, contact, units,
                 billed, moved, disturbed, counts>>

CreateLead(b) ==
  /\ batch[b].at = "create"
  /\ opps' = [opps EXCEPT ![batch[b].co] = Append(@, batch[b].contact)]
  /\ Goes(b, "write")
  /\ UNCHANGED <<places, crawl, crawls, status, attempts, contact, units, billed,
                 moved, disturbed, counts>>

Enriched(b) ==
  LET c == batch[b].co IN
  /\ batch[b].at = "write"
  /\ status' = [status EXCEPT ![c] = "ENRICHED"]
  /\ attempts' = [attempts EXCEPT ![c] = @ + 1]
  /\ Turns(b)
  /\ UNCHANGED <<places, crawl, crawls, contact, opps, units, billed, moved,
                 disturbed, counts>>

(* whatever was thrown, by Hunter or by a write, is a failed attempt: one   *)
(* more than were read at the start, or all there are for a plan's limit;   *)
(* a search that fails is logged like one that does not                     *)
(* (from "write" and "generic" also for an exception of the timeline right  *)
(* after the last write, which the failure then overwrites)                 *)
EnrichFails(b) ==
  LET c == batch[b].co IN
  /\ batch[b].at \in Trying
  /\ status' = [status EXCEPT ![c] = "FAILED"]
  /\ \E n \in {batch[b].attempts + 1, MaxAttempts} :
       attempts' = [attempts EXCEPT ![c] = n]
  /\ IF batch[b].at = "search"
     THEN units' = units + 1 /\ billed' = [billed EXCEPT ![c] = @ + 1]
     ELSE UNCHANGED <<units, billed>>
  /\ Turns(b)
  /\ UNCHANGED <<places, crawl, crawls, contact, opps, moved, disturbed, counts>>

BatchDies(b) ==
  /\ batch[b].at # "idle" /\ Mishap
  /\ batch' = [batch EXCEPT ![b] = NoBatch]
  /\ UNCHANGED <<places, crawl, crawls, status, attempts, contact, opps, units,
                 billed, moved, disturbed>>

-----------------------------------------------------------------------------
(* bulkAction: "skip" and "unskip"                                          *)
Skip(c) ==
  /\ crawl[c] # "none" /\ status[c] # "SKIPPED" /\ Click
  /\ status' = [status EXCEPT ![c] = "SKIPPED"]
  /\ disturbed' = disturbed \cup ({c} \cap InHand)
  /\ UNCHANGED <<places, crawl, crawls, attempts, contact, opps, batch, units,
                 billed, moved>>

Unskip(c) ==
  /\ crawl[c] # "none" /\ Click
  /\ status' = [status EXCEPT ![c] = "PENDING"]
  /\ attempts' = [attempts EXCEPT ![c] = 0]
  /\ billed' = [billed EXCEPT ![c] = 0]
  /\ disturbed' = disturbed \cup ({c} \cap InHand)
  /\ UNCHANGED <<places, crawl, crawls, contact, opps, batch, units, moved>>

Searching ==
  \/ \E r \in Runners :
       \/ StartRun(r) \/ TextSearch(r) \/ Advance(r) \/ RunFails(r)
       \/ \E c \in Companies : UpsertPlace(r, c)
  \/ PauseQuery \/ ReadToActivate \/ Activate

Crawling ==
  \E k \in Crawlers :
    \/ ListCrawls(k) \/ WriteCrawl(k) \/ WriteMail(k) \/ CrawlFails(k) \/ CrawlerDies(k)
    \/ \E c \in Companies : Fetch(k, c)

Enriching ==
  \E b \in Batches :
    \/ ListBatch(b) \/ DomainSearch(b) \/ VerifyPerson(b) \/ VerifyGeneric(b)
    \/ NoContact(b) \/ UpsertContact(b) \/ LookForLead(b) \/ CreateLead(b)
    \/ Enriched(b) \/ EnrichFails(b) \/ BatchDies(b)
    \/ \E c \in Companies : ChooseBatch(b, c) \/ Begin(b, c)

Next ==
  \/ Searching \/ Crawling \/ Enriching
  \/ \E c \in Companies : Skip(c) \/ Unskip(c)

Spec == Init /\ [][Next]_vars

-----------------------------------------------------------------------------
(* A query is DONE when every page was seen: each of their companies has a  *)
(* row.  Runs that overlap, a pause in between, a token written back by the *)
(* user's request or a run that died may repeat pages, never lose one.      *)
DoneMeansFound ==
  query.status = "DONE" =>
    \A p \in 1 .. Pages : \A c \in Found[p] : crawl[c] # "none"

(* The units of a day go past dailyCreditLimit by what the companies under  *)
(* way may still need, three calls each, and one company per batch.         *)
CreditOvershootBounded == units <= CreditLimit - 1 + 3 * Cardinality(Batches)

(* A company is not searched for more often than maxAttempts allows, deaths *)
(* of the process aside, unless two batches had it or the user intervened.  *)
BilledWithinAttempts ==
  \A c \in Companies \ disturbed : billed[c] <= MaxAttempts + mishaps

(* ENRICHED is only said of a company with an opportunity to work on, whose *)
(* contact is the company's own, unless the contact went to another company *)
(* with the same address, whose enrichment takes it.                        *)
EnrichedHasLead ==
  \A c \in Companies : status[c] = "ENRICHED" =>
    /\ opps[c] # <<>>
    /\ \A i \in 1 .. Len(opps[c]) : contact[opps[c][i]] = c \/ opps[c][i] \in moved

(* However often a company is enriched, it has one open opportunity, or one *)
(* for each batch where two had it and neither saw the other's.             *)
LeadsBounded ==
  \A c \in Companies :
    Len(opps[c]) <= IF c \in disturbed THEN Cardinality(Batches) ELSE 1

(* A company that was finished is not searched for again, unless two        *)
(* batches had it at the same time or the user intervened.                  *)
RebilledNeedsCause ==
  [][\A c \in Companies :
       billed'[c] > billed[c] /\ status[c] \in Finished => c \in disturbed]_vars

(* Belt-and-suspenders: never re-bill Hunter for finished companies.        *)
(* (Violated: the status was read when the batch was listed.)               *)
NeverRebilled ==
  [][\A c \in Companies : billed'[c] > billed[c] => status[c] \notin Finished]_vars
=============================================================================
