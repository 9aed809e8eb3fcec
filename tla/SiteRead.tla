-------------------------------- MODULE SiteRead --------------------------------
(***************************************************************************)
(* How one store's site is read into its knowledge base: the crawl and the *)
(* extract worker of apps/worker (index.ts, jobs/crawlSite.ts,             *)
(* jobs/extractSiteGraph.ts), enqueueSiteCrawl of packages/jobs and the    *)
(* dashboard's exclusions route.                                           *)
(*                                                                         *)
(* A crawl fetches the pages; an extract job reads the fetched pages into  *)
(* site_pages, replaces what hangs on them and prunes the rest; an         *)
(* apply-exclusions job drops what the owner skips.  Extract and apply     *)
(* jobs of a store take turns under a lock in Redis.  Workers stop, and    *)
(* the queue hands their jobs out again.                                   *)
(*                                                                         *)
(* What hangs on a page (its FAQs, media and links) goes with its page and *)
(* is not kept apart; the products a read puts into the catalog, which     *)
(* stay when their page is only gone, are left out, and so is              *)
(* site_graph_version, which nothing decides on.  A page is written in the *)
(* step that looks whether a newer crawl began.                            *)
(***************************************************************************)
EXTENDS Naturals, Sequences, FiniteSets

CONSTANTS
  Pages,
  Posts,        \* pages that are blog posts: read last
  LastCrawl,    \* bound on the crawls of the store
  Applies,      \* apply-exclusions jobs: one for each POST of the exclusions route
  Attempts,     \* attempts of an extract-queue job
  MaxStalls,    \* how often the queue hands out a stalled job again
  CheckEvery,   \* pages between two looks for a newer crawl
  MaxFaults,    \* bound on what goes wrong: failures, stops and lock timeouts
  NoLock, Orphan

Crawls == 1..LastCrawl
Jobs   == Crawls \cup Applies     \* an extract job is named by its crawl

ASSUME SiteReadAssumption ==
  /\ Posts \subseteq Pages
  /\ LastCrawl \in Nat
  /\ Applies \cap Nat = {}
  /\ NoLock # Orphan /\ NoLock \notin Jobs /\ Orphan \notin Jobs
  /\ Attempts \in Nat \ {0} /\ CheckEvery \in Nat \ {0}
  /\ MaxStalls \in Nat /\ MaxFaults \in Nat

VARIABLES
  excluded,  \* merchants.kb_excluded_paths
  crawlJob,  \* the job crawl-<merchant> of the crawl queue
  crawls,    \* site_crawls with their crawl_artifacts, in the order of startedAt
  kb,        \* site_pages: last_seen_crawl_id of each page, 0 for no row
  summary,   \* projection_cache: the site_pages it was made of
  lock,      \* sm:site-graph:lock:<merchant>: who set it; Orphan if they are gone
  job,       \* the jobs of the extract queue
  post,      \* the requests to the exclusions route
  faults     \* what went wrong so far

vars == <<excluded, crawlJob, crawls, kb, summary, lock, job, post, faults>>

Labels == {"absent", "waiting", "locked", "begun", "reading", "rechecked", "pruned", "dropping",
           "dropped", "closing", "throwing", "releasing", "done", "failed"}
Statuses == {"running", "extracting", "ok", "failed", "superseded"}

\* A job between two attempts keeps only how often it was tried.
Job == [pc : Labels, tries : 0..Attempts, stalls : 0..(MaxStalls + 1),
        todo : SUBSET Pages,     \* artifacts still to read; pages to drop
        skip : SUBSET Pages,     \* kbExcludedPaths when the read began
        keep : SUBSET Pages,     \* keepUrls
        got  : BOOLEAN,          \* extracted > 0
        early : BOOLEAN,         \* earlySummaryDone
        since : 0..(CheckEvery - 1)]   \* sinceCheck
Fresh == [pc |-> "absent", tries |-> Attempts, stalls |-> 0, todo |-> {}, skip |-> {},
          keep |-> {}, got |-> FALSE, early |-> FALSE, since |-> 0]

Init ==
  /\ excluded \in SUBSET Pages
  /\ crawlJob = "none"
  /\ crawls = <<>>
  /\ kb = [p \in Pages |-> 0]
  /\ summary = kb
  /\ lock = NoLock
  /\ job = [j \in Jobs |-> Fresh]
  /\ post = [a \in Applies |-> [pc |-> "new", reincluded |-> FALSE]]
  /\ faults = 0

Becomes(j, new) == job' = [job EXCEPT ![j] = new]
Goto(j, label)  == Becomes(j, [job[j] EXCEPT !.pc = label])

Fault == faults < MaxFaults /\ faults' = faults + 1

-------------------------------------------------------------------------------
(* Crawls *)

\* A crawl that is queued or running absorbs the new request.
Enqueued == IF crawlJob = "none" THEN "waiting" ELSE crawlJob

\* The refresh button, onboarding, the nightly drift check and Shopify's webhooks.
\* All but the button ask whatever state the last crawl is in.
RequestCrawl ==
  /\ crawlJob = "none"
  /\ crawlJob' = Enqueued
  /\ UNCHANGED <<excluded, crawls, kb, summary, lock, job, post, faults>>

\* runCrawlSite reads what to skip and inserts its row.
CrawlStarts ==
  /\ crawlJob = "waiting"
  /\ Len(crawls) < LastCrawl
  /\ crawls' = Append(crawls, [status |-> "running", pages |-> Pages \ excluded])
  /\ crawlJob' = "active"
  /\ UNCHANGED <<excluded, kb, summary, lock, job, post, faults>>

Newest == crawls[Len(crawls)]
SetNewest(row) == crawls' = [crawls EXCEPT ![Len(crawls)] = row]

\* The pages that could be fetched are stored.
CrawlFetched ==
  /\ crawlJob = "active"
  /\ Newest.status = "running"
  /\ \E fetched \in SUBSET Newest.pages :
       SetNewest([status |-> "extracting", pages |-> fetched])
  /\ UNCHANGED <<excluded, crawlJob, kb, summary, lock, job, post, faults>>

\* The sitemap, the storage or the database fails.
CrawlFails ==
  /\ crawlJob = "active"
  /\ Newest.status = "running"
  /\ SetNewest([status |-> "failed", pages |-> {}])
  /\ crawlJob' = "none"
  /\ Fault
  /\ UNCHANGED <<excluded, kb, summary, lock, job, post>>

\* The extract of the crawl is queued; the crawl job is over.
QueueExtract ==
  /\ crawlJob = "active"
  /\ Newest.status = "extracting"
  /\ Goto(Len(crawls), "waiting")
  /\ crawlJob' = "none"
  /\ UNCHANGED <<excluded, crawls, kb, summary, lock, post, faults>>

\* The worker stops: the job runs again, as a new crawl, or is given up.
CrawlStops ==
  /\ crawlJob = "active"
  /\ crawlJob' \in {"waiting", "none"}
  /\ Fault
  /\ UNCHANGED <<excluded, crawls, kb, summary, lock, job, post>>

-------------------------------------------------------------------------------
(* The exclusions route *)

\* The owner's list is saved ...
SaveExclusions(a) ==
  /\ post[a].pc = "new"
  /\ \E next \in SUBSET Pages :
       /\ excluded' = next
       /\ post' = [post EXCEPT ![a] = [pc |-> "saved", reincluded |-> excluded \ next # {}]]
  /\ UNCHANGED <<crawlJob, crawls, kb, summary, lock, job, faults>>

\* ... the job that drops what is skipped is queued ...
QueueApply(a) ==
  /\ post[a].pc = "saved"
  /\ Goto(a, "waiting")
  /\ post' = [post EXCEPT ![a].pc = "queued"]
  /\ UNCHANGED <<excluded, crawlJob, crawls, kb, summary, lock, faults>>

\* ... and pages turned on again need a crawl, unless one of the last 6 h is under way.
InProgress == crawls # <<>> /\ Newest.status \in {"running", "extracting"}
PostEnds(a) ==
  /\ post[a].pc = "queued"
  /\ \/ crawlJob' = IF post[a].reincluded /\ ~InProgress THEN Enqueued ELSE crawlJob
     \/ InProgress /\ post[a].reincluded /\ crawlJob' = Enqueued
  /\ post' = [post EXCEPT ![a].pc = "done"]
  /\ UNCHANGED <<excluded, crawls, kb, summary, lock, job, faults>>

\* The queue cannot be reached after the list was saved.
PostThrows(a) ==
  /\ post[a].pc = "saved"
  /\ post' = [post EXCEPT ![a].pc = "thrown"]
  /\ Fault
  /\ UNCHANGED <<excluded, crawlJob, crawls, kb, summary, lock, job>>

-------------------------------------------------------------------------------
(* withMerchantLock *)

\* What is left of a job when an attempt is over; and when it ended in failure.
Anew(label, tries, stalls) ==
  [Fresh EXCEPT !.pc = label, !.tries = tries, !.stalls = stalls]
Retried(j) ==
  Anew(IF job[j].tries > 1 THEN "waiting" ELSE "failed", job[j].tries - 1, job[j].stalls)

\* SET NX: nobody holds the lock.
Acquire(j) ==
  /\ job[j].pc = "waiting"
  /\ lock = NoLock
  /\ lock' = j
  /\ Goto(j, "locked")
  /\ UNCHANGED <<excluded, crawlJob, crawls, kb, summary, post, faults>>

\* 45 minutes have passed.  A read fails this attempt and leaves its crawl as it is; an
\* apply-exclusions job queues another like it, with all its attempts.
TimeoutForgets(j) ==                   \* mutant: nothing is queued in its place
  /\ job[j].pc = "waiting"
  /\ lock # NoLock
  /\ Becomes(j, IF j \in Crawls THEN Retried(j) ELSE Anew("done", Attempts, 0))
  /\ Fault
  /\ UNCHANGED <<excluded, crawlJob, crawls, kb, summary, lock, post>>
LockTimeout(j) ==
  /\ job[j].pc = "waiting"
  /\ lock # NoLock
  /\ Becomes(j, IF j \in Crawls THEN Retried(j) ELSE Anew("waiting", Attempts, 0))
  /\ Fault
  /\ UNCHANGED <<excluded, crawlJob, crawls, kb, summary, lock, post>>

\* The finally block: the lock is given back if it still is this job's.
ReleasedBy(j) == lock' = IF lock = j THEN NoLock ELSE lock
Release(j) ==
  /\ job[j].pc \in {"releasing", "throwing"}
  /\ ReleasedBy(j)
  /\ Becomes(j, IF job[j].pc = "throwing" THEN Retried(j) ELSE Anew("done", Attempts, 0))
  /\ UNCHANGED <<excluded, crawlJob, crawls, kb, summary, post, faults>>

Holding(j) == job[j].pc \notin {"absent", "waiting", "done", "failed"}

\* The worker stops, at work or while it polls for the lock: a lock it has is nobody's until
\* it expires, and the queue hands the stalled job out again, a limited number of times.
WorkerStops(j) ==
  /\ Holding(j) \/ job[j].pc = "waiting"
  /\ lock' = IF lock = j THEN Orphan ELSE lock
  /\ Becomes(j, Anew(IF job[j].stalls < MaxStalls THEN "waiting" ELSE "failed",
                     job[j].tries, job[j].stalls + 1))
  /\ Fault
  /\ UNCHANGED <<excluded, crawlJob, crawls, kb, summary, post>>

\* 180 s pass without a heartbeat; a holder that lives beats every 60 s.
ExpiresUnbeaten ==                              \* mutant: no heartbeat
  /\ lock # NoLock
  /\ lock' = NoLock
  /\ UNCHANGED <<excluded, crawlJob, crawls, kb, summary, job, post, faults>>
LockExpires ==
  /\ lock = Orphan
  /\ lock' = NoLock
  /\ UNCHANGED <<excluded, crawlJob, crawls, kb, summary, job, post, faults>>

-------------------------------------------------------------------------------
(* The extract job of crawl k: runExtractSiteGraph *)

NeverSuperseded(k) == FALSE /\ k \in Crawls                          \* mutant
IsSuperseded(k)    == k # Len(crawls)

GiveUp(k) ==
  /\ crawls' = [crawls EXCEPT ![k].status = "superseded"]
  /\ Goto(k, "releasing")

\* A read superseded while it waited gives up.
CheckNewest(k) ==
  /\ job[k].pc = "locked"
  /\ \/ IsSuperseded(k) /\ GiveUp(k)
     \/ ~IsSuperseded(k) /\ Goto(k, "begun") /\ UNCHANGED crawls
  /\ UNCHANGED <<excluded, crawlJob, kb, summary, lock, post, faults>>

\* What to skip is read once, and the artifacts.
BeginRead(k) ==
  /\ job[k].pc = "begun"
  /\ Becomes(k, [job[k] EXCEPT !.pc = "reading", !.todo = crawls[k].pages, !.skip = excluded])
  /\ UNCHANGED <<excluded, crawlJob, crawls, kb, summary, lock, post, faults>>

\* Posts come last, and the summary is made once before them.
NextPages(k) == IF job[k].todo \subseteq Posts THEN job[k].todo ELSE job[k].todo \ Posts
SummaryDue(k) ==
  /\ job[k].todo # {}
  /\ job[k].todo \subseteq Posts
  /\ job[k].got
  /\ ~job[k].early
CheckDue(k) == job[k].since + 1 >= CheckEvery

EarlySummary(k) ==
  /\ job[k].pc = "reading"
  /\ SummaryDue(k)
  /\ summary' \in {kb, summary}      \* a failure is ignored
  /\ Becomes(k, [job[k] EXCEPT !.early = TRUE])
  /\ UNCHANGED <<excluded, crawlJob, crawls, kb, lock, post, faults>>

\* A newer crawl is there: the rest is left to it, nothing is pruned.
StopReading(k) ==
  /\ job[k].pc = "reading"
  /\ job[k].todo # {}
  /\ ~SummaryDue(k)
  /\ CheckDue(k) /\ IsSuperseded(k)
  /\ GiveUp(k)
  /\ UNCHANGED <<excluded, crawlJob, kb, summary, lock, post, faults>>

\* One page: skipped, or read, or failed before or after its row was written.
ReadPage(k) ==
  /\ job[k].pc = "reading"
  /\ ~SummaryDue(k)
  /\ ~(CheckDue(k) /\ IsSuperseded(k))
  /\ \E p \in NextPages(k), ok, written \in BOOLEAN :
       /\ kb' = IF p \notin job[k].skip /\ written THEN [kb EXCEPT ![p] = k] ELSE kb
       /\ ok => written
       /\ p \in job[k].skip => ~ok /\ ~written
       /\ Becomes(k, [job[k] EXCEPT
            !.todo = @ \ {p}, !.got = @ \/ ok, !.keep = @ \cup ({p} \ job[k].skip),
            !.since = IF CheckDue(k) THEN 0 ELSE @ + 1])
  /\ UNCHANGED <<excluded, crawlJob, crawls, summary, lock, post, faults>>

\* All pages are through: what the owner skips by now is not kept.
NoneRead(k) == ~job[k].got /\ crawls[k].pages \ job[k].skip # {}
Recheck(k) ==
  /\ job[k].pc = "reading"
  /\ job[k].todo = {}
  /\ ~NoneRead(k)
  /\ Becomes(k, [job[k] EXCEPT !.pc = "rechecked", !.keep = @ \ excluded])
  /\ UNCHANGED <<excluded, crawlJob, crawls, kb, summary, lock, post, faults>>

\* Whatever is not kept is pruned, unless that is everything.
Prune(k) ==
  /\ job[k].pc = "rechecked"
  /\ kb' = [p \in Pages |-> IF job[k].keep = {} \/ p \in job[k].keep THEN kb[p] ELSE 0]
  /\ Goto(k, "pruned")
  /\ UNCHANGED <<excluded, crawlJob, crawls, summary, lock, post, faults>>

SummariseRead(k) ==
  /\ job[k].pc = "pruned"
  /\ summary' = kb
  /\ Goto(k, "closing")
  /\ UNCHANGED <<excluded, crawlJob, crawls, kb, lock, post, faults>>

CloseRead(k) ==
  /\ job[k].pc = "closing"
  /\ crawls' = [crawls EXCEPT ![k].status = "ok"]
  /\ Goto(k, "releasing")
  /\ UNCHANGED <<excluded, crawlJob, kb, summary, lock, post, faults>>

\* No page could be read: the knowledge base stays as it is.
NothingRead(k) ==
  /\ job[k].pc = "reading"
  /\ job[k].todo = {}
  /\ NoneRead(k)
  /\ crawls' = [crawls EXCEPT ![k].status = "failed"]
  /\ Goto(k, "throwing")
  /\ UNCHANGED <<excluded, crawlJob, kb, summary, lock, post, faults>>

\* A query fails.  Before the pages are gone through, nobody records it.
ReadThrows(k) ==
  /\ job[k].pc \in {"locked", "begun", "reading", "rechecked", "pruned", "closing"}
  /\ crawls' = IF job[k].pc \in {"locked", "begun"} THEN crawls
               ELSE [crawls EXCEPT ![k].status = "failed"]
  /\ Goto(k, "throwing")
  /\ Fault
  /\ UNCHANGED <<excluded, crawlJob, kb, summary, lock, post>>

-------------------------------------------------------------------------------
(* The apply-exclusions job: applyKbExclusions *)

\* The pages that are skipped are looked up ...
LookUpOrLeave(a) ==                    \* mutant: nothing to drop, nothing to do
  /\ job[a].pc = "locked"
  /\ LET drop == {p \in excluded : kb[p] # 0} IN
     Becomes(a, [job[a] EXCEPT !.pc = IF drop = {} THEN "releasing" ELSE "dropping",
                               !.todo = drop])
  /\ UNCHANGED <<excluded, crawlJob, crawls, kb, summary, lock, post, faults>>
LookUp(a) ==
  /\ job[a].pc = "locked"
  /\ Becomes(a, [job[a] EXCEPT !.pc = "dropping", !.todo = {p \in excluded : kb[p] # 0}])
  /\ UNCHANGED <<excluded, crawlJob, crawls, kb, summary, lock, post, faults>>

\* ... deleted ...
Drop(a) ==
  /\ job[a].pc = "dropping"
  /\ kb' = [p \in Pages |-> IF p \in job[a].todo THEN 0 ELSE kb[p]]
  /\ Goto(a, "dropped")
  /\ UNCHANGED <<excluded, crawlJob, crawls, summary, lock, post, faults>>

\* ... and the summary is made again.
SummariseApply(a) ==
  /\ job[a].pc = "dropped"
  /\ summary' = kb
  /\ Goto(a, "releasing")
  /\ UNCHANGED <<excluded, crawlJob, crawls, kb, lock, post, faults>>

ApplyThrows(a) ==
  /\ job[a].pc \in {"locked", "dropping", "dropped"}
  /\ Goto(a, "throwing")
  /\ Fault
  /\ UNCHANGED <<excluded, crawlJob, crawls, kb, summary, lock, post>>

-------------------------------------------------------------------------------
ReadStep(k) ==
  \/ CheckNewest(k) \/ BeginRead(k) \/ EarlySummary(k) \/ StopReading(k) \/ ReadPage(k) \/ Recheck(k)
  \/ Prune(k) \/ SummariseRead(k) \/ CloseRead(k) \/ NothingRead(k)
  \/ ReadThrows(k)
ApplyStep(a) == LookUp(a) \/ Drop(a) \/ SummariseApply(a) \/ ApplyThrows(a)

Next ==
  \/ RequestCrawl \/ CrawlStarts \/ CrawlFetched \/ CrawlFails \/ QueueExtract \/ CrawlStops
  \/ \E a \in Applies : SaveExclusions(a) \/ QueueApply(a) \/ PostEnds(a) \/ PostThrows(a)
  \/ \E j \in Jobs : Acquire(j) \/ LockTimeout(j) \/ Release(j) \/ WorkerStops(j)
  \/ LockExpires
  \/ \E k \in Crawls : ReadStep(k)
  \/ \E a \in Applies : ApplyStep(a)

Spec == Init /\ [][Next]_vars

-------------------------------------------------------------------------------
(* Properties *)

\* Every variable has its type (the tables, the queue jobs and the lock's key).
TypeOK ==
  /\ excluded \in SUBSET Pages
  /\ crawlJob \in {"none", "waiting", "active"}
  /\ crawls \in Seq([status : Statuses, pages : SUBSET Pages]) /\ Len(crawls) <= LastCrawl
  /\ kb \in [Pages -> 0..LastCrawl]
  /\ summary \in [Pages -> 0..LastCrawl]
  /\ lock \in Jobs \cup {NoLock, Orphan}
  /\ job \in [Jobs -> Job]
  /\ faults \in 0..MaxFaults
  /\ post \in [Applies -> [pc : {"new", "saved", "queued", "done", "thrown"},
                           reincluded : BOOLEAN]]

\* index.ts:68 "Reads of the SAME store never overlap": however workers stop and jobs are
\* handed out again, one job at most works on the store and has the lock; and a lock that
\* is set is that of a job at work, or of a worker that is gone, and will expire.
ReadsNeverOverlap ==
  /\ \A i, j \in Jobs : Holding(i) /\ Holding(j) => i = j
  /\ \A j \in Jobs : Holding(j) <=> lock = j

\* The knowledge base never goes back to an older crawl: what a read writes is at least
\* as new as all that is there, in whatever order waiting reads get the lock.
NeverBackToOlder ==
  [][\A p, q \in Pages : kb'[p] # kb[p] /\ kb'[p] # 0 => kb[q] <= kb'[p]]_vars

Quiet ==
  /\ \A k \in Crawls : job[k].pc \in {"absent", "done", "failed"}
  /\ \A a \in Applies : <<post[a].pc, job[a].pc>> \in {<<"new", "absent">>, <<"done", "done">>}
  /\ crawlJob = "none"

\* Once all jobs are through, no page the owner skips is in the knowledge base, whenever
\* during a read it was skipped and however the read ended.
SkippedForgotten == Quiet => \A p \in excluded : kb[p] = 0

\* Once all jobs are through and that of the newest crawl was not given up, the
\* assistant's summary is that of the knowledge base, though jobs stopped or failed
\* between changing the two.
SummaryCurrent ==
  Quiet /\ crawls # <<>> /\ job[Len(crawls)].pc = "done" => summary = kb
===============================================================================
