------------------------------ MODULE Onboarding ------------------------------
(***************************************************************************)
(* How a store gets ready: the ping of every page that has the widget      *)
(* (apps/api/src/routes/install.ts), the other routes that write the same  *)
(* row, the onboarding queue and its handler                               *)
(* (apps/worker/src/handlers/onboarding.ts).                               *)
(*                                                                         *)
(* One store.  Every action is one statement on its row, or what lies      *)
(* between two of them; jobs run side by side (the worker takes four at a  *)
(* time) and are tried again from the start.  lastInstallAt is kept as     *)
(* whether a day has passed since.  Names, prices, metrics and the brand   *)
(* profile are left out; of the crawls that finished jobs and others queue *)
(* only what their reads do to the products is kept.                       *)
(***************************************************************************)
EXTENDS Naturals, FiniteSets

CONSTANTS
  Pings,       \* page loads that may be under way at once
  Operator,    \* the retry-onboarding command
  App,         \* the Shopify app that provisions a store
  Casts,       \* which of them take part, to bound the model
  MaxJobs,     \* bound on the jobs ever queued
  MaxEvents,   \* bound on what others do to the store and the days that pass
  Attempts     \* attempts of the onboarding queue

Callers == Pings \cup {Operator, App}
Jobs == 1..MaxJobs

ASSUME OnboardingAssumption ==
  /\ IsFiniteSet(Pings) /\ Operator \notin Pings /\ App \notin Pings /\ Operator # App
  /\ Casts \subseteq SUBSET Callers
  /\ MaxJobs \in Nat /\ MaxEvents \in Nat /\ Attempts \in Nat \ {0}

VARIABLES
  store,       \* the row of merchants, and what the products table holds for it
  caller,      \* the requests and commands under way
  job,         \* the jobs, in the order they were queued
  events,      \* what others have done to the store, and the days that passed
  orphaned,    \* the store says "onboarding" for a reason that brings no job (history)
  starts,      \* jobs started for a new store (history)
  cleared,     \* the last safety check found nothing (history)
  overlapped,  \* the row was written by jobs that ran side by side (history)
  parted       \* adapterConfig and the catalog are not of one job (history)

history == <<orphaned, starts, cleared, overlapped, parted>>
vars == <<store, caller, job, events, orphaned, starts, cleared, overlapped, parted>>

Statuses == {"absent", "pending", "onboarding", "live", "degraded", "failed", "rejected"}
Kinds == {"shopify", "api", "dom"}         \* Shopify, another shop's API, neither
Sources == {"storefront", "crawl"}         \* a catalog with variant ids, or without
Goods == Sources \cup {"read"}              \* or what a read of the site found

Rows == [status : Statuses, shopify : BOOLEAN, transactionalDisabled : BOOLEAN,
         lastInstall : {"never", "today", "old"}, goods : SUBSET Goods]
Places == {"away", "idle", "flip", "touch", "adding"}
Labels == {"none", "waiting", "checking", "fingerprinting", "syncing", "storing", "extracting",
           "finishing", "smoking", "closing", "over"}
Progress == [pc : Labels, attempt : 0..Attempts, alone : BOOLEAN,
             kind : Kinds \cup {"none"}, source : Sources \cup {"none"}]

\* Every variable has its type (the row of merchants and the payload of a job).
TypeOK ==
  /\ store \in Rows
  /\ caller \in [Callers -> [pc : Places, seen : Statuses]]
  /\ job \in [Jobs -> Progress]
  /\ events \in 0..MaxEvents /\ starts \in Nat
  /\ {orphaned, cleared, overlapped, parted} \subseteq BOOLEAN

NoJob == [pc |-> "none", attempt |-> 0, alone |-> FALSE, kind |-> "none", source |-> "none"]

Init ==
  /\ store = [status |-> "absent", shopify |-> FALSE, transactionalDisabled |-> FALSE,
              lastInstall |-> "never", goods |-> {}]
  /\ \E cast \in Casts :
       caller = [c \in Callers |-> [pc |-> IF c \in cast THEN "idle" ELSE "away", seen |-> "absent"]]
  /\ job = [j \in Jobs |-> NoJob]
  /\ events = 0
  /\ orphaned = FALSE /\ starts = 0 /\ cleared = FALSE
  /\ overlapped = FALSE /\ parted = FALSE

Alive == {j \in Jobs : job[j].pc \notin {"none", "over"}}
Running == {j \in Alive : job[j].pc # "waiting"}
Adding == {c \in Callers : caller[c].pc = "adding"}
Queued == Cardinality({j \in Jobs : job[j].pc # "none"})

\* Bound: whoever would queue a job beyond MaxJobs does not come.
HasRoom == Queued + Cardinality({c \in Callers : caller[c].pc \in {"flip", "adding"}}) < MaxJobs

\* The row becomes row; lost says that this step brings nobody who decides about it.
Becomes(row, lost) ==
  /\ store' = row
  /\ orphaned' = (row.status = "onboarding" /\ (orphaned \/ lost))

Ask(c, pc, seen) == caller' = [caller EXCEPT ![c] = [pc |-> pc, seen |-> seen]]
Return(c) == Ask(c, "idle", "absent")

\* Bound: neither the others nor time goes on for ever.
Event == events < MaxEvents /\ events' = events + 1

-------------------------------------------------------------------------------
(* The install ping *)

nextInstallAction ==
  \/ store.status \in {"pending", "failed"}
  \/ store.status = "onboarding" /\ store.lastInstall = "old"

\* The row is read, and what to do with it decided.
Look(p) ==
  /\ caller[p].pc = "idle" /\ store.status # "absent"
  /\ nextInstallAction => HasRoom
  /\ IF nextInstallAction THEN Ask(p, "flip", store.status) ELSE Ask(p, "touch", "absent")
  /\ UNCHANGED <<store, job, events, history>>

\* UPDATE ... WHERE the status is still what was read.
AnyStatus(p) == TRUE                                                    \* mutant
StatusUnchanged(p) == store.status = caller[p].seen

Flip(p) ==
  /\ caller[p].pc = "flip"
  /\ \/ /\ StatusUnchanged(p)
        /\ Becomes([store EXCEPT !.status = "onboarding", !.lastInstall = "today"], FALSE)
        /\ starts' = IF caller[p].seen = "pending" THEN starts + 1 ELSE starts
        /\ Ask(p, "adding", "absent")
     \/ /\ ~StatusUnchanged(p)
        /\ Return(p)
        /\ UNCHANGED <<store, orphaned, starts>>
  /\ UNCHANGED <<job, events, cleared, overlapped, parted>>

\* Nothing to do: the time of the ping is noted all the same.
Touch(p) ==
  /\ caller[p].pc = "touch"
  /\ store' = [store EXCEPT !.lastInstall = "today"]
  /\ Return(p)
  /\ UNCHANGED <<job, events, history>>

DayPasses ==
  /\ store.lastInstall = "today" /\ Event
  /\ store' = [store EXCEPT !.lastInstall = "old"]
  /\ UNCHANGED <<caller, job, history>>

-------------------------------------------------------------------------------
(* The others who write the row *)

\* The provision command and the billing webhook make a store that waits for its first ping.
Provision ==
  /\ store.status = "absent"
  /\ Becomes([store EXCEPT !.status = "pending"], FALSE)
  /\ UNCHANGED <<caller, job, events, starts, cleared, overlapped, parted>>

provisionShopifyMerchant ==
  /\ store.status = "absent" /\ caller[App].pc = "idle" /\ HasRoom
  /\ Becomes([store EXCEPT !.status = "onboarding", !.shopify = TRUE], FALSE)
  /\ Ask(App, "adding", "absent")
  /\ UNCHANGED <<job, events, starts, cleared, overlapped, parted>>

\* retry-onboarding looks at the row ...
RetryLook ==
  /\ caller[Operator].pc = "idle" /\ store.status \notin {"absent", "rejected"} /\ HasRoom
  /\ Ask(Operator, "flip", "absent")
  /\ UNCHANGED <<store, job, events, history>>

\* ... and sends it back to "onboarding", whatever it has become.
retryOnboarding ==
  /\ caller[Operator].pc = "flip"
  /\ Becomes([store EXCEPT !.status = "onboarding", !.lastInstall = "today"], FALSE)
  /\ Ask(Operator, "adding", "absent")
  /\ UNCHANGED <<job, events, starts, cleared, overlapped, parted>>

\* "Re-sync now" changes the status and queues nothing.
Resync ==
  /\ store.status # "absent" /\ Event
  /\ Becomes([store EXCEPT !.status = "onboarding"], TRUE)
  /\ UNCHANGED <<caller, job, starts, cleared, overlapped, parted>>

\* So does a store account connected through Composio.
ConnectionActivated ==
  /\ store.status # "absent" /\ Event
  /\ Becomes([store EXCEPT !.status = "onboarding", !.transactionalDisabled = FALSE], TRUE)
  /\ parted' = TRUE
  /\ UNCHANGED <<caller, job, starts, cleared, overlapped>>

\* The owner enters the store's address; the status is left alone.
StartUrl ==
  /\ store.status # "absent" /\ Event
  /\ store' = [store EXCEPT !.transactionalDisabled = FALSE]
  /\ parted' = TRUE
  /\ UNCHANGED <<caller, job, orphaned, starts, cleared, overlapped>>

\* A read of the site puts products without variants beside the catalog; a row with the sku
\* of one it finds keeps its variants and becomes the read's own, to be removed when its
\* page sells nothing any more or is skipped.
extractSiteGraph ==
  /\ store.status # "absent" /\ Event
  /\ \E gone \in SUBSET store.goods, found \in SUBSET {"read"} :
       store' = [store EXCEPT !.goods = (@ \ gone) \cup found]
  /\ UNCHANGED <<caller, job, history>>

\* Shopify's product webhooks put a product with its variants there, or remove one.
ProductWebhook ==
  /\ store.status # "absent" /\ Event
  /\ \E gone \in SUBSET store.goods, told \in SUBSET {"storefront"} :
       store' = [store EXCEPT !.goods = (@ \ gone) \cup told]
  /\ UNCHANGED <<caller, job, history>>

\* onboardingQueue.add, of the ping, the command or the app.
Add(c) ==
  /\ caller[c].pc = "adding"
  /\ job' = [job EXCEPT ![Queued + 1] = [NoJob EXCEPT !.pc = "waiting", !.attempt = 1]]
  /\ Return(c)
  /\ UNCHANGED <<store, events, history>>

\* A statement or the queue fails, or the process stops.
Breaks(c) ==
  /\ caller[c].pc \notin {"away", "idle"}
  /\ Return(c)
  /\ Becomes(store, caller[c].pc = "adding")
  /\ UNCHANGED <<job, events, starts, cleared, overlapped, parted>>

-------------------------------------------------------------------------------
(* The handler of a job *)

To(j, pc) == job' = [job EXCEPT ![j].pc = pc]
End(j) == job' = [job EXCEPT ![j] = [NoJob EXCEPT !.pc = "over"]]

\* The row is as it will be; a metric is left to write, and perhaps the crawl to queue.
Finish(j) == job' = [job EXCEPT ![j] = [NoJob EXCEPT !.pc = "closing", !.attempt = job[j].attempt]]

AfterLastAttempt(j) == job[j].attempt > Attempts                        \* mutant
LastAttempt(j) == job[j].attempt >= Attempts

AttemptsLeft(j) == job[j].attempt < Attempts

\* The handler throws: the queue tries again later, from the start.
Throw(j) ==
  \/ /\ AttemptsLeft(j)
     /\ job' = [job EXCEPT ![j] = [NoJob EXCEPT !.pc = "waiting", !.attempt = job[j].attempt + 1]]
  \/ ~AttemptsLeft(j) /\ End(j)

\* A statement outside the steps that catch it fails, the safety check has no answer, or
\* the worker is stopped (counted as an attempt): nobody writes the row.
JobBreaks(j) ==
  /\ Throw(j)
  /\ Becomes(store, ~AttemptsLeft(j))
  /\ UNCHANGED <<caller, events, starts, cleared, overlapped, parted>>

fail(row) == Becomes([row EXCEPT !.status = "failed"], FALSE)

Start(j) ==
  /\ job[j].pc = "waiting"
  /\ job' = [k \in Jobs |-> IF k = j THEN [job[j] EXCEPT !.pc = "checking", !.alone = Running = {}]
                            ELSE [job[k] EXCEPT !.alone = FALSE]]
  /\ overlapped' = (overlapped \/ Running # {})
  /\ UNCHANGED <<store, caller, events, orphaned, starts, cleared, parted>>

GoesOn == BOOLEAN                                                       \* mutant: no return
Passes == {TRUE}

safetyCheck(j) ==
  /\ job[j].pc = "checking"
  /\ cleared' \in BOOLEAN
  /\ IF cleared' \in Passes THEN To(j, "fingerprinting") ELSE Finish(j)
  /\ IF cleared' THEN UNCHANGED <<store, orphaned>>
     ELSE Becomes([store EXCEPT !.status = "rejected"], FALSE)
  /\ UNCHANGED <<caller, events, starts, overlapped, parted>>

\* What the front page says of the platform, and so which adapter the store gets.
fingerprint(j) ==
  /\ job[j].pc = "fingerprinting"
  /\ \/ \E kind \in Kinds :
          /\ job' = [job EXCEPT ![j].pc = "syncing", ![j].kind = kind, ![j].alone = FALSE]
          /\ Becomes([store EXCEPT !.status = "onboarding", !.shopify = (kind = "shopify"),
                                   !.transactionalDisabled = FALSE], FALSE)
          /\ overlapped' = (overlapped /\ ~job[j].alone)
          /\ parted' = FALSE
     \/ \* The site blocks the reader: live all the same.
        /\ Becomes([store EXCEPT !.status = "live", !.shopify = FALSE,
                                 !.transactionalDisabled = TRUE], FALSE)
        /\ End(j)
        /\ UNCHANGED <<overlapped, parted>>
     \/ /\ Throw(j)
        /\ IF LastAttempt(j) THEN fail(store) ELSE UNCHANGED <<store, orphaned>>
        /\ UNCHANGED <<overlapped, parted>>
  /\ UNCHANGED <<caller, events, starts, cleared>>

\* A site without a catalog: live, without a cart.
finishServiceSite(j) ==
  /\ Becomes([store EXCEPT !.status = "live", !.transactionalDisabled = TRUE], FALSE)
  /\ Finish(j)

\* The catalog is stored, and the brand profile made.
Synced(j, source) ==
  job' = [job EXCEPT ![j] = [NoJob EXCEPT
            !.pc = CASE job[j].kind = "shopify" -> "finishing"
                     [] job[j].kind = "dom" -> "extracting"
                     [] OTHER -> "smoking",
            !.attempt = job[j].attempt,
            !.source = IF job[j].kind = "shopify" THEN source ELSE "none"]]

\* The catalog is fetched and all products deleted, unless it has none to put there.
\* Without one, a site that is no shop is done (a shop with an API may be taken for one),
\* and any other has failed, with the queue's retries to come if the step threw.
catalogSync(j) ==
  /\ job[j].pc = "syncing"
  /\ \/ \E source \in IF job[j].kind = "shopify" THEN Sources ELSE {"crawl"} :
          \/ /\ job' = [job EXCEPT ![j].pc = "storing", ![j].source = source]
             /\ store' = [store EXCEPT !.goods = {}]
             /\ UNCHANGED <<orphaned, parted>>
          \/ /\ Synced(j, source)
             /\ parted' = (parted \/ "crawl" \in store.goods)
             /\ UNCHANGED <<store, orphaned>>
     \/ /\ \/ job[j].kind # "shopify" /\ finishServiceSite(j)
           \/ fail(store) /\ (Finish(j) \/ Throw(j))
        /\ UNCHANGED parted
  /\ UNCHANGED <<caller, events, starts, cleared, overlapped>>

\* The new products are inserted beside whatever others have put there since.
writeProducts(j) ==
  /\ job[j].pc = "storing"
  /\ LET stored == [store EXCEPT !.goods = @ \cup {job[j].source}]
     IN  \/ store' = stored /\ Synced(j, job[j].source) /\ UNCHANGED orphaned
         \/ \E row \in {store, stored} : fail(row) /\ Throw(j)
  /\ UNCHANGED <<caller, events, starts, cleared, overlapped, parted>>

LeftAsItWas(row) == row                                                 \* mutant
Degraded(row) == [row EXCEPT !.status = "degraded"]

\* The selectors of a site without an API go into the job's own copy of adapterConfig.
selectorExtract(j) ==
  /\ job[j].pc = "extracting"
  /\ \/ store.goods = {} /\ finishServiceSite(j)
     \/ /\ store.goods # {}
        /\ \/ /\ store' = [store EXCEPT !.transactionalDisabled = FALSE]
              /\ To(j, "smoking")
              /\ UNCHANGED orphaned
           \/ Becomes(Degraded(store), FALSE) /\ End(j)
           \/ fail(store) /\ Throw(j)
  /\ UNCHANGED <<caller, events, starts, cleared, overlapped, parted>>

\* Without variant ids the cart cannot be filled: it is switched off.
AlwaysLive(source) == <<"live", FALSE>>                                 \* mutant
shopifyFinalizeOutcome(source) ==
  IF source = "storefront" THEN <<"live", FALSE>> ELSE <<"degraded", TRUE>>

FinishShopify(j) ==
  /\ job[j].pc = "finishing"
  /\ LET outcome == shopifyFinalizeOutcome(job[j].source)
     IN  Becomes([store EXCEPT !.status = outcome[1], !.transactionalDisabled = outcome[2]], FALSE)
  /\ Finish(j)
  /\ UNCHANGED <<caller, events, starts, cleared, overlapped, parted>>

\* One product is put into a cart and taken out.
smokeTest(j) ==
  /\ job[j].pc = "smoking"
  /\ \E row \in {[store EXCEPT !.status = "live"], Degraded(store)} : Becomes(row, FALSE)
  /\ Finish(j)
  /\ UNCHANGED <<caller, events, starts, cleared, overlapped, parted>>

Close(j) ==
  /\ job[j].pc = "closing"
  /\ End(j)
  /\ UNCHANGED <<store, caller, events, history>>

-------------------------------------------------------------------------------
JobStep(j) ==
  \/ Start(j) \/ safetyCheck(j) \/ fingerprint(j) \/ catalogSync(j) \/ writeProducts(j)
  \/ selectorExtract(j) \/ smokeTest(j) \/ FinishShopify(j) \/ Close(j)
  \/ j \in Running /\ JobBreaks(j)

Next ==
  \/ \E p \in Pings : Look(p) \/ Flip(p) \/ Touch(p)
  \/ \E c \in Callers : Add(c) \/ Breaks(c)
  \/ \E j \in Jobs : JobStep(j)
  \/ Provision \/ provisionShopifyMerchant \/ RetryLook \/ retryOnboarding
  \/ Resync \/ ConnectionActivated \/ StartUrl \/ DayPasses
  \/ extractSiteGraph \/ ProductWebhook

\* A request ends and the worker does not stand still; nobody has to load a page, enter an
\* address or run a command.
Fairness ==
  /\ \A c \in Callers : WF_vars(Add(c) \/ Breaks(c))
  /\ WF_vars(\E j \in Jobs : JobStep(j))

Spec == Init /\ [][Next]_vars /\ Fairness

-------------------------------------------------------------------------------
(* Properties *)

Settled == store.status \in {"live", "degraded"}

\* A store that says "onboarding" has a job or somebody about to queue one, as
\* nextInstallAction takes for granted when it does nothing; or it was lost in one of the
\* four ways there are: re-sync, a Composio connection, a request that stopped before the
\* queue, and a last attempt that broke outside the steps that write the row.
OnboardingIsWorkedOn ==
  store.status = "onboarding" => Alive # {} \/ Adding # {} \/ orphaned

\* However many pages load the widget at once, a new store is started once (the status
\* is compared and swapped; a restart after a day is not so protected).
PendingStartsOnce == starts <= 1

\* When a Shopify store in service has its cart on, onboarding has not filled its catalog
\* from a crawl of its pages, whose products have no variant ids to put into a cart, as long
\* as its jobs ran one at a time and the last of them wrote both the configuration and the
\* catalog: the owner's forms replace the first, and a catalog that comes back empty leaves
\* the second (writeProducts returns at once).  Whatever lacks variant ids in such a store
\* was put there by a read of the site, which never looks at the cart.
CatalogFitsCart ==
  Settled /\ store.shopify /\ ~store.transactionalDisabled /\ ~overlapped /\ ~parted
    => "crawl" \notin store.goods

\* A store in service passed the last safety check whose verdict was written, as long as
\* its jobs ran one at a time (an address entered later is not checked again, and a verdict
\* the database did not take is asked for anew).
ServedStoreIsSafe == Settled /\ ~overlapped => cleared

\* Whatever fails and however often, a store that is being onboarded comes out of it
\* (live, degraded, failed or rejected), or is lost in one of the ways named above.
StoreIsDecided == store.status = "onboarding" ~> store.status # "onboarding" \/ orphaned
===============================================================================
