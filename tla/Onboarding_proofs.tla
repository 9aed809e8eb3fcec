---------------------------- MODULE Onboarding_proofs ----------------------------
(***************************************************************************)
(* Proofs about Onboarding, for any number of pings, jobs and attempts:    *)
(* its types, and each of its safety properties.                           *)
(*                                                                         *)
(* The steps fall into four kinds (WhoSteps): those of requests, which     *)
(* leave the jobs alone or queue one; a job that starts; its safety check; *)
(* and its later steps, of which Common says all that most invariants need.*)
(* Only CartInv looks at them one by one.                                  *)
(***************************************************************************)
EXTENDS Onboarding, FiniteSetTheorems, TLAPS

-------------------------------------------------------------------------------
(* What the handler does with the record of a job *)

Moved(j) == job' \in [Jobs -> Progress] /\ \A k \in Jobs \ {j} : job'[k] = job[k]

LEMMA Put ==
  ASSUME TypeOK, NEW j \in Jobs, NEW x \in Progress, job' = [job EXCEPT ![j] = x]
  PROVE  Moved(j) /\ job'[j] = x
  BY DEF TypeOK, Moved

LEMMA NoJobType == NoJob \in Progress
  BY OnboardingAssumption DEF OnboardingAssumption, NoJob, Progress, Labels

LEMMA ToAt ==
  ASSUME TypeOK, NEW j \in Jobs, NEW pc \in Labels, To(j, pc)
  PROVE  /\ Moved(j) /\ job'[j].pc = pc /\ job'[j].alone = job[j].alone
         /\ job'[j].kind = job[j].kind /\ job'[j].source = job[j].source
  <1>1. job[j] \in Progress  BY DEF TypeOK
  <1> DEFINE x == [job[j] EXCEPT !.pc = pc]
  <1>2. /\ x \in Progress /\ x.pc = pc /\ x.alone = job[j].alone
        /\ x.kind = job[j].kind /\ x.source = job[j].source
    BY <1>1 DEF Progress
  <1>3. job' = [job EXCEPT ![j] = x]  BY DEF To, TypeOK
  <1> HIDE DEF x
  <1>4. Moved(j) /\ job'[j] = x  BY <1>2, <1>3, Put
  <1> QED  BY <1>2, <1>4

LEMMA EndAt ==
  ASSUME TypeOK, NEW j \in Jobs, End(j)
  PROVE  Moved(j) /\ job'[j].pc = "over" /\ ~job'[j].alone
  <1> DEFINE x == [NoJob EXCEPT !.pc = "over"]
  <1>1. x \in Progress /\ x.pc = "over" /\ ~x.alone
    BY NoJobType DEF Progress, NoJob, Labels
  <1> HIDE DEF x
  <1>2. job' = [job EXCEPT ![j] = x]  BY DEF End, x
  <1> QED  BY <1>1, <1>2, Put

LEMMA FinishAt ==
  ASSUME TypeOK, NEW j \in Jobs, Finish(j)
  PROVE  Moved(j) /\ job'[j].pc = "closing" /\ ~job'[j].alone
  <1> DEFINE x == [NoJob EXCEPT !.pc = "closing", !.attempt = job[j].attempt]
  <1>1. job[j].attempt \in 0..Attempts  BY DEF TypeOK, Progress
  <1>2. x \in Progress /\ x.pc = "closing" /\ ~x.alone
    BY <1>1, NoJobType DEF Progress, NoJob, Labels
  <1> HIDE DEF x
  <1>3. job' = [job EXCEPT ![j] = x]  BY DEF Finish, x
  <1> QED  BY <1>2, <1>3, Put

LEMMA ThrowAt ==
  ASSUME TypeOK, NEW j \in Jobs, Throw(j)
  PROVE  /\ Moved(j) /\ ~job'[j].alone
         /\ job'[j].pc = IF AttemptsLeft(j) THEN "waiting" ELSE "over"
  <1>1. CASE AttemptsLeft(j)
    <2> DEFINE x == [NoJob EXCEPT !.pc = "waiting", !.attempt = job[j].attempt + 1]
    <2>1. job[j].attempt \in 0..Attempts /\ Attempts \in Nat
      BY OnboardingAssumption DEF TypeOK, Progress, OnboardingAssumption
    <2>2. job[j].attempt + 1 \in 0..Attempts  BY <1>1, <2>1 DEF AttemptsLeft
    <2>3. x \in Progress /\ x.pc = "waiting" /\ ~x.alone
      BY <2>2, NoJobType DEF Progress, NoJob, Labels
    <2>4. job' = [job EXCEPT ![j] = x]  BY <1>1 DEF Throw
    <2> HIDE DEF x
    <2> QED  BY <1>1, <2>3, <2>4, Put
  <1>2. CASE ~AttemptsLeft(j)
    BY <1>2, EndAt DEF Throw
  <1> QED  BY <1>1, <1>2

LEMMA SyncedAt ==
  ASSUME TypeOK, NEW j \in Jobs, NEW source \in Sources, Synced(j, source)
  PROVE  /\ Moved(j) /\ ~job'[j].alone
         /\ job'[j].pc \in {"finishing", "extracting", "smoking"}
         /\ (job'[j].pc = "finishing") <=> (job[j].kind = "shopify")
         /\ job[j].kind = "shopify" => job'[j].source = source
  <1> DEFINE x == [NoJob EXCEPT
            !.pc = CASE job[j].kind = "shopify" -> "finishing"
                     [] job[j].kind = "dom" -> "extracting"
                     [] OTHER -> "smoking",
            !.attempt = job[j].attempt,
            !.source = IF job[j].kind = "shopify" THEN source ELSE "none"]
  <1>1. job[j].attempt \in 0..Attempts  BY DEF TypeOK, Progress
  <1>2. job' = [job EXCEPT ![j] = x]  BY DEF Synced
  <1>3. CASE job[j].kind = "shopify"
    <2>1. x \in Progress /\ x.pc = "finishing" /\ ~x.alone /\ x.source = source
      BY <1>1, <1>3, NoJobType DEF Progress, NoJob, Labels
    <2> HIDE DEF x
    <2> QED  BY <1>2, <1>3, <2>1, Put
  <1>4. CASE job[j].kind # "shopify"
    <2>1. x \in Progress /\ x.pc \in {"extracting", "smoking"} /\ ~x.alone
      BY <1>1, <1>4, NoJobType DEF Progress, NoJob, Labels
    <2> HIDE DEF x
    <2>2. Moved(j) /\ job'[j] = x  BY <1>2, <2>1, Put
    <2> QED  BY <1>4, <2>1, <2>2
  <1> QED  BY <1>3, <1>4

LEMMA AddAt ==
  ASSUME TypeOK, NEW c \in Callers, Add(c)
  PROVE  /\ job' \in [Jobs -> Progress]
         /\ \A k \in Jobs : k # Queued + 1 => job'[k] = job[k]
         /\ Queued + 1 \in Jobs =>
              job'[Queued + 1].pc = "waiting" /\ ~job'[Queued + 1].alone
  <1> DEFINE x == [NoJob EXCEPT !.pc = "waiting", !.attempt = 1]
  <1>0. 1 \in 0..Attempts  BY OnboardingAssumption DEF OnboardingAssumption
  <1>1. x \in Progress /\ x.pc = "waiting" /\ ~x.alone
    BY <1>0, NoJobType DEF Progress, NoJob, Labels
  <1>2. job' = [job EXCEPT ![Queued + 1] = x]  BY DEF Add
  <1> HIDE DEF x
  <1> QED  BY <1>1, <1>2 DEF TypeOK

-------------------------------------------------------------------------------
(* Types *)

\* What is stored and what a store is finished by comes from a known catalog.
SourceKnown == \A j \in Jobs : job[j].pc \in {"storing", "finishing"} => job[j].source \in Sources

LEMMA BecomesType ==
  ASSUME TypeOK, NEW row \in Rows, NEW lost, Becomes(row, lost)
  PROVE  store' \in Rows /\ orphaned' \in BOOLEAN
  BY DEF Becomes

LEMMA CallerType ==
  ASSUME TypeOK, NEW c \in Callers, NEW pc \in Places, NEW seen \in Statuses, Ask(c, pc, seen)
  PROVE  caller' \in [Callers -> [pc : Places, seen : Statuses]]
  BY DEF Ask, TypeOK

LEMMA ReturnType ==
  ASSUME TypeOK, NEW c \in Callers, Return(c)
  PROVE  caller' \in [Callers -> [pc : Places, seen : Statuses]]
  <1>1. "idle" \in Places /\ "absent" \in Statuses  BY DEF Places, Statuses
  <1> QED  BY <1>1, CallerType DEF Return

LEMMA RowTypes ==
  ASSUME TypeOK
  PROVE  /\ store \in Rows /\ store.status \in Statuses
         /\ \A status \in Statuses : [store EXCEPT !.status = status] \in Rows
         /\ \A status \in Statuses, off \in BOOLEAN :
              [store EXCEPT !.status = status, !.transactionalDisabled = off] \in Rows
         /\ \A status \in Statuses, shop \in BOOLEAN :
              [store EXCEPT !.status = status, !.shopify = shop] \in Rows
         /\ \A status \in Statuses, shop, off \in BOOLEAN :
              [store EXCEPT !.status = status, !.shopify = shop, !.transactionalDisabled = off] \in Rows
         /\ \A status \in Statuses, time \in {"never", "today", "old"} :
              [store EXCEPT !.status = status, !.lastInstall = time] \in Rows
         /\ \A time \in {"never", "today", "old"} : [store EXCEPT !.lastInstall = time] \in Rows
         /\ \A off \in BOOLEAN : [store EXCEPT !.transactionalDisabled = off] \in Rows
         /\ \A goods \in SUBSET Goods :
              /\ [store EXCEPT !.goods = goods] \in Rows
              /\ [[store EXCEPT !.goods = goods] EXCEPT !.status = "failed"] \in Rows
  BY DEF TypeOK, Rows, Statuses

LEMMA EventType == ASSUME TypeOK, Event PROVE events' \in 0..MaxEvents
  BY OnboardingAssumption DEF TypeOK, Event, OnboardingAssumption

LEMMA FlipCounts ==
  ASSUME TypeOK, NEW p \in Pings, Flip(p)
  PROVE  starts' \in Nat
  <1>1. starts \in Nat  BY DEF TypeOK
  <1>2. starts' = starts \/ starts' = starts + 1  BY DEF Flip
  <1> QED  BY <1>1, <1>2

\* The steps of requests, of the owner and of time.
RequestStep ==
  \/ \E p \in Pings : Look(p) \/ Flip(p) \/ Touch(p)
  \/ \E c \in Callers : Add(c) \/ Breaks(c)
  \/ Provision \/ provisionShopifyMerchant \/ RetryLook \/ retryOnboarding
  \/ Resync \/ ConnectionActivated \/ StartUrl \/ DayPasses
  \/ extractSiteGraph \/ ProductWebhook

\* The other writers of the products table bring no catalog without variant ids.
LEMMA Restocked ==
  ASSUME TypeOK, extractSiteGraph \/ ProductWebhook
  PROVE  /\ Event /\ UNCHANGED <<caller, job, history>>
         /\ \E goods \in SUBSET Goods :
              /\ store' = [store EXCEPT !.goods = goods]
              /\ "crawl" \in goods => "crawl" \in store.goods
  <1>1. store.goods \subseteq Goods  BY DEF TypeOK, Rows
  <1>2. {"read"} \subseteq Goods /\ {"storefront"} \subseteq Goods  BY DEF Goods, Sources
  <1>3. ASSUME NEW gone \in SUBSET store.goods, NEW new \in SUBSET Goods, "crawl" \notin new,
               store' = [store EXCEPT !.goods = (@ \ gone) \cup new]
        PROVE  \E goods \in SUBSET Goods :
                 /\ store' = [store EXCEPT !.goods = goods]
                 /\ "crawl" \in goods => "crawl" \in store.goods
    <2> DEFINE goods == (store.goods \ gone) \cup new
    <2>1. goods \in SUBSET Goods  BY <1>1
    <2>2. store' = [store EXCEPT !.goods = goods] /\ ("crawl" \in goods => "crawl" \in store.goods)
      BY <1>3
    <2> QED  BY <2>1, <2>2
  <1>4. CASE extractSiteGraph
    <2>1. PICK gone \in SUBSET store.goods, found \in SUBSET {"read"} :
            store' = [store EXCEPT !.goods = (@ \ gone) \cup found]
      BY <1>4 DEF extractSiteGraph
    <2>2. found \in SUBSET Goods /\ "crawl" \notin found  BY <1>2
    <2>3. Event /\ UNCHANGED <<caller, job, history>>  BY <1>4 DEF extractSiteGraph
    <2> QED  BY <1>3, <2>1, <2>2, <2>3
  <1>5. CASE ProductWebhook
    <2>1. PICK gone \in SUBSET store.goods, told \in SUBSET {"storefront"} :
            store' = [store EXCEPT !.goods = (@ \ gone) \cup told]
      BY <1>5 DEF ProductWebhook
    <2>2. told \in SUBSET Goods /\ "crawl" \notin told  BY <1>2
    <2>3. Event /\ UNCHANGED <<caller, job, history>>  BY <1>5 DEF ProductWebhook
    <2> QED  BY <1>3, <2>1, <2>2, <2>3
  <1> QED  BY <1>4, <1>5

LEMMA RequestTypes ==
  ASSUME TypeOK, RequestStep
  PROVE  TypeOK'
  <1>0. /\ Pings \subseteq Callers /\ Operator \in Callers /\ App \in Callers
        /\ {"idle", "flip", "touch", "adding"} \subseteq Places
        /\ {"absent", "pending", "onboarding", "failed"} \subseteq Statuses
    BY DEF Callers, Places, Statuses
  <1> USE <1>0, RowTypes, BecomesType, CallerType, ReturnType, EventType
  <1>1. ASSUME NEW p \in Pings, Look(p) PROVE TypeOK'
    BY <1>1 DEF Look, TypeOK, history
  <1>2. ASSUME NEW p \in Pings, Flip(p) PROVE TypeOK'
    <2>0. \/ Becomes([store EXCEPT !.status = "onboarding", !.lastInstall = "today"], FALSE)
          \/ store' = store /\ orphaned' = orphaned
      BY <1>2 DEF Flip
    <2>1. store' \in Rows /\ orphaned' \in BOOLEAN
      BY <2>0 DEF TypeOK
    <2>2. caller' \in [Callers -> [pc : Places, seen : Statuses]]  BY <1>2 DEF Flip
    <2> QED  BY <1>2, <2>1, <2>2, FlipCounts DEF Flip, TypeOK
  <1>3. ASSUME NEW p \in Pings, Touch(p) PROVE TypeOK'
    BY <1>3 DEF Touch, TypeOK, history
  <1>4. ASSUME NEW c \in Callers, Add(c) PROVE TypeOK'
    <2>1. job' \in [Jobs -> Progress]  BY <1>4, AddAt
    <2> QED  BY <1>4, <2>1 DEF Add, TypeOK, history
  <1>5. ASSUME NEW c \in Callers, Breaks(c) PROVE TypeOK'
    BY <1>5 DEF Breaks, TypeOK
  <1>6. CASE Provision                 BY <1>6 DEF Provision, TypeOK
  <1>7. CASE provisionShopifyMerchant  BY <1>7 DEF provisionShopifyMerchant, TypeOK
  <1>8. CASE RetryLook                 BY <1>8 DEF RetryLook, TypeOK, history
  <1>9. CASE retryOnboarding           BY <1>9 DEF retryOnboarding, TypeOK
  <1>10. CASE Resync                   BY <1>10 DEF Resync, TypeOK
  <1>11. CASE ConnectionActivated      BY <1>11 DEF ConnectionActivated, TypeOK
  <1>12. CASE StartUrl                 BY <1>12 DEF StartUrl, TypeOK
  <1>13. CASE DayPasses                BY <1>13 DEF DayPasses, TypeOK, history
  <1>14. CASE extractSiteGraph \/ ProductWebhook
    <2>1. Event /\ UNCHANGED <<caller, job, history>> /\ store' \in Rows  BY <1>14, Restocked
    <2> QED  BY <2>1 DEF TypeOK, history
  <1> QED
    BY <1>1, <1>2, <1>3, <1>4, <1>5, <1>6, <1>7, <1>8, <1>9, <1>10, <1>11, <1>12, <1>13, <1>14
    DEF RequestStep

LEMMA MovedKnown ==
  ASSUME TypeOK, SourceKnown, NEW j \in Jobs, Moved(j),
         job'[j].pc \in {"storing", "finishing"} => job'[j].source \in Sources
  PROVE  SourceKnown'
  BY DEF SourceKnown, Moved

LEMMA StartAt ==
  ASSUME TypeOK, NEW j \in Jobs, Start(j)
  PROVE  /\ job' \in [Jobs -> Progress]
         /\ job'[j].pc = "checking" /\ (job'[j].alone <=> Running = {})
         /\ \A k \in Jobs \ {j} :
              /\ job'[k].pc = job[k].pc /\ job'[k].kind = job[k].kind
              /\ job'[k].source = job[k].source /\ ~job'[k].alone
  <1>1. \A k \in Jobs : job[k] \in Progress  BY DEF TypeOK
  <1>2. \A r \in Progress, b \in BOOLEAN : [r EXCEPT !.pc = "checking", !.alone = b] \in Progress
    BY DEF Progress, Labels
  <1>3. \A r \in Progress : [r EXCEPT !.alone = FALSE] \in Progress
    BY DEF Progress
  <1>4. (Running = {}) \in BOOLEAN  OBVIOUS
  <1>5. job' = [k \in Jobs |-> IF k = j THEN [job[j] EXCEPT !.pc = "checking", !.alone = Running = {}]
                              ELSE [job[k] EXCEPT !.alone = FALSE]]
    BY DEF Start
  <1>6. job' \in [Jobs -> Progress]  BY <1>1, <1>2, <1>3, <1>4, <1>5
  <1>7. job'[j].pc = "checking" /\ (job'[j].alone <=> Running = {})
    BY <1>1, <1>5 DEF Progress
  <1>8. \A k \in Jobs \ {j} :
              /\ job'[k].pc = job[k].pc /\ job'[k].kind = job[k].kind
              /\ job'[k].source = job[k].source /\ ~job'[k].alone
    BY <1>1, <1>5 DEF Progress
  <1> QED  BY <1>6, <1>7, <1>8

\* fingerprint goes on to the catalog.
LEMMA KindAt ==
  ASSUME TypeOK, NEW j \in Jobs, NEW kind \in Kinds,
         job' = [job EXCEPT ![j].pc = "syncing", ![j].kind = kind, ![j].alone = FALSE]
  PROVE  Moved(j) /\ job'[j].pc = "syncing" /\ job'[j].kind = kind /\ ~job'[j].alone
  <1> DEFINE x == [job[j] EXCEPT !.pc = "syncing", !.kind = kind, !.alone = FALSE]
  <1>1. job[j] \in Progress  BY DEF TypeOK
  <1>2. x \in Progress /\ x.pc = "syncing" /\ x.kind = kind /\ ~x.alone
    BY <1>1 DEF Progress, Labels
  <1>3. job' = [job EXCEPT ![j] = x]  BY DEF TypeOK
  <1> HIDE DEF x
  <1>4. Moved(j) /\ job'[j] = x  BY <1>2, <1>3, Put
  <1> QED  BY <1>2, <1>4

\* catalogSync goes on to write the products.
LEMMA SourceAt ==
  ASSUME TypeOK, NEW j \in Jobs, NEW source \in Sources,
         job' = [job EXCEPT ![j].pc = "storing", ![j].source = source]
  PROVE  /\ Moved(j) /\ job'[j].pc = "storing" /\ job'[j].source = source
         /\ job'[j].kind = job[j].kind /\ job'[j].alone = job[j].alone
  <1> DEFINE x == [job[j] EXCEPT !.pc = "storing", !.source = source]
  <1>1. job[j] \in Progress  BY DEF TypeOK
  <1>2. /\ x \in Progress /\ x.pc = "storing" /\ x.source = source
        /\ x.kind = job[j].kind /\ x.alone = job[j].alone
    BY <1>1 DEF Progress, Labels
  <1>3. job' = [job EXCEPT ![j] = x]  BY DEF TypeOK
  <1> HIDE DEF x
  <1>4. Moved(j) /\ job'[j] = x  BY <1>2, <1>3, Put
  <1> QED  BY <1>2, <1>4

-------------------------------------------------------------------------------
(* What every step does, as far as the invariants tell it apart *)

Undecided == {j \in Jobs : job[j].pc \notin {"none", "over", "closing"}}

\* A job is alone only if it runs alone, and then it has not chosen an adapter yet.
AloneMeans ==
  \A j \in Jobs : job[j].alone => Running = {j} /\ job[j].pc \in {"checking", "fingerprinting"}

\* The steps of a job that runs, its safety check aside.
LaterStep(j) ==
  \/ fingerprint(j) \/ catalogSync(j) \/ writeProducts(j) \/ selectorExtract(j)
  \/ smokeTest(j) \/ FinishShopify(j) \/ Close(j) \/ (j \in Running /\ JobBreaks(j))

\* What they have in common: the job goes on or ends, what has ended does not write the row,
\* and whoever leaves "onboarding" behind goes on or has lost the store.
Common(j) ==
  /\ TypeOK' /\ SourceKnown'
  /\ j \in Running /\ Moved(j) /\ ~job'[j].alone /\ caller' = caller
  /\ starts' = starts /\ cleared' = cleared
  /\ (overlapped' => overlapped) /\ (overlapped /\ ~overlapped' => job[j].alone)
  /\ job[j].pc \in {"checking", "closing"} =>
       job'[j].pc \in {"waiting", "over"} /\ store' = store /\ overlapped' = overlapped
  /\ job'[j].pc \notin {"none", "checking", "fingerprinting"}
  /\ store'.status \in {"absent", "pending"} => store'.status = store.status
  /\ store'.status = "onboarding" =>
       /\ orphaned => orphaned'
       /\ j \in Undecided' \/ j \notin Undecided \/ orphaned'
       /\ store.status = "onboarding" \/ j \in Undecided'

LEMMA RunningAt ==
  ASSUME NEW j \in Jobs
  PROVE  /\ j \in Running <=> job[j].pc \notin {"none", "over", "waiting"}
         /\ j \in Undecided <=> job[j].pc \notin {"none", "over", "closing"}
  BY DEF Running, Alive, Undecided

LEMMA FailAt ==
  ASSUME TypeOK, NEW row \in Rows, fail(row)
  PROVE  store' \in Rows /\ store'.status = "failed" /\ orphaned' \in BOOLEAN
  BY DEF fail, Becomes, Rows, Statuses

LEMMA JobBreaksCommon ==
  ASSUME TypeOK, SourceKnown, AloneMeans, NEW j \in Jobs, j \in Running, JobBreaks(j)
  PROVE  Common(j)
  <1>1. /\ Moved(j) /\ ~job'[j].alone
        /\ job'[j].pc = IF AttemptsLeft(j) THEN "waiting" ELSE "over"
    BY ThrowAt DEF JobBreaks
  <1>2. /\ store' = store /\ caller' = caller /\ starts' = starts /\ cleared' = cleared
        /\ overlapped' = overlapped /\ parted' = parted /\ events' = events
        /\ orphaned' = (store.status = "onboarding" /\ (orphaned \/ ~AttemptsLeft(j)))
    BY DEF JobBreaks, Becomes
  <1>3. TypeOK'  BY <1>1, <1>2 DEF TypeOK, Moved
  <1>4. SourceKnown'  BY <1>1, MovedKnown
  <1>5. job'[j].pc = "waiting" => j \in Undecided'
    BY DEF Undecided
  <1> QED  BY <1>1, <1>2, <1>3, <1>4, <1>5 DEF Common

LEMMA CloseCommon ==
  ASSUME TypeOK, SourceKnown, AloneMeans, NEW j \in Jobs, Close(j)
  PROVE  Common(j)
  <1>1. Moved(j) /\ ~job'[j].alone /\ job'[j].pc = "over"  BY EndAt DEF Close
  <1>2. store' = store /\ caller' = caller /\ events' = events /\ history' = history
    BY DEF Close
  <1>3. TypeOK'  BY <1>1, <1>2 DEF TypeOK, Moved, history
  <1>4. SourceKnown'  BY <1>1, MovedKnown
  <1>5. job[j].pc = "closing" /\ j \in Running /\ j \notin Undecided
    BY RunningAt DEF Close
  <1> QED  BY <1>1, <1>2, <1>3, <1>4, <1>5 DEF Common, history

\* A step that moves the job to a place of its own and the row to one that is decided or
\* still says "onboarding" because the job goes on.
LEMMA DecidedCommon ==
  ASSUME TypeOK, SourceKnown, AloneMeans, NEW j \in Jobs, Moved(j), ~job'[j].alone,
         job[j].pc \notin {"none", "over", "waiting", "checking", "closing"},
         job'[j].pc \notin {"none", "checking", "fingerprinting"},
         job'[j].pc \in {"storing", "finishing"} => job'[j].source \in Sources,
         store' \in Rows, orphaned' \in BOOLEAN,
         \/ store'.status \in {"live", "degraded", "failed", "rejected"}
         \/ /\ store'.status \in {store.status, "onboarding"}
            /\ (orphaned => orphaned') /\ job'[j].pc \notin {"over", "closing"},
         caller' = caller, starts' = starts, cleared' = cleared, events' = events,
         parted' \in BOOLEAN, overlapped' \in BOOLEAN,
         overlapped' => overlapped, overlapped /\ ~overlapped' => job[j].alone
  PROVE  Common(j)
  <1>1. TypeOK'  BY DEF TypeOK, Moved
  <1>2. SourceKnown'  BY MovedKnown
  <1>3. j \in Running  BY RunningAt
  <1>4. job'[j].pc \notin {"over", "closing"} => j \in Undecided'  BY DEF Undecided
  <1> QED  BY <1>1, <1>2, <1>3, <1>4 DEF Common

LEMMA FingerprintCommon ==
  ASSUME TypeOK, SourceKnown, AloneMeans, NEW j \in Jobs, fingerprint(j)
  PROVE  Common(j)
  <1>0. /\ job[j].pc = "fingerprinting" /\ job[j].alone \in BOOLEAN
        /\ caller' = caller /\ starts' = starts /\ cleared' = cleared /\ events' = events
        /\ overlapped \in BOOLEAN /\ parted \in BOOLEAN /\ orphaned \in BOOLEAN
    BY DEF fingerprint, TypeOK, Progress
  <1>1. ASSUME NEW kind \in Kinds,
               job' = [job EXCEPT ![j].pc = "syncing", ![j].kind = kind, ![j].alone = FALSE],
               Becomes([store EXCEPT !.status = "onboarding", !.shopify = (kind = "shopify"),
                                     !.transactionalDisabled = FALSE], FALSE),
               overlapped' = (overlapped /\ ~job[j].alone), parted' = FALSE
        PROVE  Common(j)
    <2>1. Moved(j) /\ job'[j].pc = "syncing" /\ ~job'[j].alone  BY <1>1, KindAt
    <2> DEFINE row == [store EXCEPT !.status = "onboarding", !.shopify = (kind = "shopify"),
                                    !.transactionalDisabled = FALSE]
    <2>2. row \in Rows /\ row.status = "onboarding"  BY DEF TypeOK, Rows, Statuses
    <2>3. store' = row /\ (orphaned => orphaned') /\ orphaned' \in BOOLEAN
      BY <1>1, <2>2 DEF Becomes
    <2> HIDE DEF row
    <2> QED  BY <1>0, <1>1, <2>1, <2>2, <2>3, DecidedCommon
  <1>2. CASE /\ Becomes([store EXCEPT !.status = "live", !.shopify = FALSE,
                                      !.transactionalDisabled = TRUE], FALSE)
             /\ End(j)
             /\ UNCHANGED <<overlapped, parted>>
    <2>1. Moved(j) /\ job'[j].pc = "over" /\ ~job'[j].alone  BY <1>2, EndAt
    <2> DEFINE row == [store EXCEPT !.status = "live", !.shopify = FALSE,
                                    !.transactionalDisabled = TRUE]
    <2>2. row \in Rows /\ row.status = "live"  BY DEF TypeOK, Rows, Statuses
    <2>3. store' = row /\ orphaned' \in BOOLEAN  BY <1>2 DEF Becomes
    <2> HIDE DEF row
    <2> QED  BY <1>0, <1>2, <2>1, <2>2, <2>3, DecidedCommon
  <1>3. CASE /\ Throw(j)
             /\ IF LastAttempt(j) THEN fail(store) ELSE UNCHANGED <<store, orphaned>>
             /\ UNCHANGED <<overlapped, parted>>
    <2>1. /\ Moved(j) /\ ~job'[j].alone
          /\ job'[j].pc = IF AttemptsLeft(j) THEN "waiting" ELSE "over"
      BY <1>3, ThrowAt
    <2>2. store \in Rows  BY DEF TypeOK
    <2>3. CASE LastAttempt(j)
      <3>1. store' \in Rows /\ store'.status = "failed" /\ orphaned' \in BOOLEAN
        BY <1>3, <2>2, <2>3, FailAt
      <3> QED  BY <1>0, <1>3, <2>1, <3>1, DecidedCommon
    <2>4. CASE ~LastAttempt(j)
      <3>1. store' = store /\ orphaned' = orphaned  BY <1>3, <2>4
      <3>2. AttemptsLeft(j)
        BY <2>4, OnboardingAssumption
        DEF LastAttempt, AttemptsLeft, TypeOK, Progress, OnboardingAssumption
      <3> QED  BY <1>0, <1>3, <2>1, <2>2, <3>1, <3>2, DecidedCommon
    <2> QED  BY <2>3, <2>4
  <1> QED  BY <1>1, <1>2, <1>3 DEF fingerprint

\* A site without a catalog.
LEMMA ServiceAt ==
  ASSUME TypeOK, NEW j \in Jobs, finishServiceSite(j)
  PROVE  /\ Moved(j) /\ job'[j].pc = "closing" /\ ~job'[j].alone
         /\ store' \in Rows /\ store'.status = "live" /\ store'.transactionalDisabled
         /\ orphaned' \in BOOLEAN
  <1> DEFINE row == [store EXCEPT !.status = "live", !.transactionalDisabled = TRUE]
  <1>1. row \in Rows /\ row.status = "live" /\ row.transactionalDisabled
    BY DEF TypeOK, Rows, Statuses
  <1>2. store' = row /\ orphaned' \in BOOLEAN  BY DEF finishServiceSite, Becomes
  <1>3. Moved(j) /\ job'[j].pc = "closing" /\ ~job'[j].alone
    BY FinishAt DEF finishServiceSite
  <1> HIDE DEF row
  <1> QED  BY <1>1, <1>2, <1>3

LEMMA CatalogCommon ==
  ASSUME TypeOK, SourceKnown, AloneMeans, NEW j \in Jobs, catalogSync(j)
  PROVE  Common(j)
  <1>0. /\ job[j].pc = "syncing" /\ ~job[j].alone
        /\ caller' = caller /\ starts' = starts /\ cleared' = cleared /\ events' = events
        /\ overlapped' = overlapped
        /\ overlapped \in BOOLEAN /\ parted \in BOOLEAN /\ orphaned \in BOOLEAN
        /\ store \in Rows
    BY DEF catalogSync, TypeOK, AloneMeans
  <1>1. ASSUME NEW source \in Sources,
               job' = [job EXCEPT ![j].pc = "storing", ![j].source = source],
               store' = [store EXCEPT !.goods = {}], UNCHANGED <<orphaned, parted>>
        PROVE  Common(j)
    <2>1. Moved(j) /\ job'[j].pc = "storing" /\ job'[j].source = source /\ ~job'[j].alone
      BY <1>0, <1>1, SourceAt
    <2>2. store' \in Rows /\ store'.status = store.status  BY <1>0, <1>1 DEF Rows
    <2> QED  BY <1>0, <1>1, <2>1, <2>2, DecidedCommon
  <1>2. ASSUME NEW source \in Sources, Synced(j, source),
               parted' = (parted \/ "crawl" \in store.goods), UNCHANGED <<store, orphaned>>
        PROVE  Common(j)
    <2>1. /\ Moved(j) /\ ~job'[j].alone /\ job'[j].pc \in {"finishing", "extracting", "smoking"}
          /\ job'[j].pc = "finishing" => job'[j].source \in Sources
      BY <1>2, SyncedAt
    <2> QED  BY <1>0, <1>2, <2>1, DecidedCommon
  <1>3. ASSUME finishServiceSite(j), parted' = parted
        PROVE  Common(j)
    BY <1>0, <1>3, ServiceAt, DecidedCommon
  <1>4. ASSUME fail(store), Finish(j) \/ Throw(j), parted' = parted
        PROVE  Common(j)
    <2>1. store' \in Rows /\ store'.status = "failed" /\ orphaned' \in BOOLEAN
      BY <1>0, <1>4, FailAt
    <2>2. Moved(j) /\ ~job'[j].alone /\ job'[j].pc \in {"closing", "waiting", "over"}
      BY <1>4, FinishAt, ThrowAt
    <2> QED  BY <1>0, <1>4, <2>1, <2>2, DecidedCommon
  <1>5. (IF job[j].kind = "shopify" THEN Sources ELSE {"crawl"}) \subseteq Sources
    BY DEF Sources
  <1> QED  BY <1>1, <1>2, <1>3, <1>4, <1>5 DEF catalogSync

LEMMA WriteCommon ==
  ASSUME TypeOK, SourceKnown, AloneMeans, NEW j \in Jobs, writeProducts(j)
  PROVE  Common(j)
  <1> DEFINE stored == [store EXCEPT !.goods = @ \cup {job[j].source}]
  <1>0. /\ job[j].pc = "storing" /\ ~job[j].alone /\ job[j].source \in Sources
        /\ caller' = caller /\ starts' = starts /\ cleared' = cleared /\ events' = events
        /\ overlapped' = overlapped /\ parted' = parted
        /\ overlapped \in BOOLEAN /\ parted \in BOOLEAN /\ orphaned \in BOOLEAN
        /\ store \in Rows
    BY DEF writeProducts, TypeOK, AloneMeans, SourceKnown
  <1>1. stored \in Rows /\ stored.status = store.status  BY <1>0 DEF Rows, Goods
  <1>2. \/ store' = stored /\ Synced(j, job[j].source) /\ UNCHANGED orphaned
        \/ \E row \in {store, stored} : fail(row) /\ Throw(j)
    BY DEF writeProducts
  <1> HIDE DEF stored
  <1>3. CASE store' = stored /\ Synced(j, job[j].source) /\ UNCHANGED orphaned
    <2>1. /\ Moved(j) /\ ~job'[j].alone /\ job'[j].pc \in {"finishing", "extracting", "smoking"}
          /\ job'[j].pc = "finishing" => job'[j].source \in Sources
      BY <1>0, <1>3, SyncedAt
    <2> QED  BY <1>0, <1>1, <1>3, <2>1, DecidedCommon
  <1>4. ASSUME NEW row \in {store, stored}, fail(row), Throw(j)
        PROVE  Common(j)
    <2>1. store' \in Rows /\ store'.status = "failed" /\ orphaned' \in BOOLEAN
      BY <1>0, <1>1, <1>4, FailAt
    <2>2. Moved(j) /\ ~job'[j].alone /\ job'[j].pc \in {"waiting", "over"}
      BY <1>4, ThrowAt
    <2> QED  BY <1>0, <2>1, <2>2, DecidedCommon
  <1> QED  BY <1>2, <1>3, <1>4

LEMMA ExtractCommon ==
  ASSUME TypeOK, SourceKnown, AloneMeans, NEW j \in Jobs, selectorExtract(j)
  PROVE  Common(j)
  <1>0. /\ job[j].pc = "extracting" /\ ~job[j].alone
        /\ caller' = caller /\ starts' = starts /\ cleared' = cleared /\ events' = events
        /\ overlapped' = overlapped /\ parted' = parted
        /\ overlapped \in BOOLEAN /\ parted \in BOOLEAN /\ orphaned \in BOOLEAN
        /\ store \in Rows
    BY DEF selectorExtract, TypeOK, AloneMeans
  <1>1. CASE finishServiceSite(j)
    BY <1>0, <1>1, ServiceAt, DecidedCommon
  <1>2. CASE /\ store' = [store EXCEPT !.transactionalDisabled = FALSE]
             /\ To(j, "smoking")
             /\ UNCHANGED orphaned
    <2>1. Moved(j) /\ ~job'[j].alone /\ job'[j].pc = "smoking"
      BY <1>0, <1>2, ToAt DEF Labels
    <2>2. store' \in Rows /\ store'.status = store.status  BY <1>0, <1>2 DEF Rows
    <2> QED  BY <1>0, <1>2, <2>1, <2>2, DecidedCommon
  <1>3. CASE Becomes(Degraded(store), FALSE) /\ End(j)
    <2>1. Degraded(store) \in Rows /\ Degraded(store).status = "degraded"
      BY <1>0 DEF Degraded, Rows, Statuses
    <2>2. store' \in Rows /\ store'.status = "degraded" /\ orphaned' \in BOOLEAN
      BY <1>3, <2>1 DEF Becomes
    <2>3. Moved(j) /\ ~job'[j].alone /\ job'[j].pc = "over"  BY <1>3, EndAt
    <2> QED  BY <1>0, <2>2, <2>3, DecidedCommon
  <1>4. CASE fail(store) /\ Throw(j)
    <2>1. store' \in Rows /\ store'.status = "failed" /\ orphaned' \in BOOLEAN
      BY <1>0, <1>4, FailAt
    <2>2. Moved(j) /\ ~job'[j].alone /\ job'[j].pc \in {"waiting", "over"}
      BY <1>4, ThrowAt
    <2> QED  BY <1>0, <2>1, <2>2, DecidedCommon
  <1> QED  BY <1>1, <1>2, <1>3, <1>4 DEF selectorExtract

LEMMA SmokeCommon ==
  ASSUME TypeOK, SourceKnown, AloneMeans, NEW j \in Jobs, smokeTest(j)
  PROVE  Common(j)
  <1>0. /\ job[j].pc = "smoking" /\ ~job[j].alone
        /\ caller' = caller /\ starts' = starts /\ cleared' = cleared /\ events' = events
        /\ overlapped' = overlapped /\ parted' = parted
        /\ overlapped \in BOOLEAN /\ parted \in BOOLEAN /\ orphaned \in BOOLEAN
        /\ store \in Rows
    BY DEF smokeTest, TypeOK, AloneMeans
  <1>1. PICK row \in {[store EXCEPT !.status = "live"], Degraded(store)} : Becomes(row, FALSE)
    BY DEF smokeTest
  <1>2. row \in Rows /\ row.status \in {"live", "degraded"}
    BY <1>0 DEF Degraded, Rows, Statuses
  <1>3. store' = row /\ orphaned' \in BOOLEAN  BY <1>1 DEF Becomes
  <1>4. Moved(j) /\ ~job'[j].alone /\ job'[j].pc = "closing"  BY FinishAt DEF smokeTest
  <1> QED  BY <1>0, <1>2, <1>3, <1>4, DecidedCommon

LEMMA ShopifyCommon ==
  ASSUME TypeOK, SourceKnown, AloneMeans, NEW j \in Jobs, FinishShopify(j)
  PROVE  Common(j)
  <1>0. /\ job[j].pc = "finishing" /\ ~job[j].alone
        /\ caller' = caller /\ starts' = starts /\ cleared' = cleared /\ events' = events
        /\ overlapped' = overlapped /\ parted' = parted
        /\ overlapped \in BOOLEAN /\ parted \in BOOLEAN /\ orphaned \in BOOLEAN
        /\ store \in Rows
    BY DEF FinishShopify, TypeOK, AloneMeans
  <1>1. PICK status \in {"live", "degraded"}, off \in BOOLEAN :
             Becomes([store EXCEPT !.status = status, !.transactionalDisabled = off], FALSE)
    <2> DEFINE outcome == shopifyFinalizeOutcome(job[j].source)
    <2>1. outcome[1] \in {"live", "degraded"} /\ outcome[2] \in BOOLEAN
      BY DEF shopifyFinalizeOutcome
    <2>2. Becomes([store EXCEPT !.status = outcome[1], !.transactionalDisabled = outcome[2]], FALSE)
      BY DEF FinishShopify
    <2> HIDE DEF outcome
    <2> QED  BY <2>1, <2>2
  <1> DEFINE row == [store EXCEPT !.status = status, !.transactionalDisabled = off]
  <1>2. row \in Rows /\ row.status \in {"live", "degraded"}
    BY <1>0 DEF Rows, Statuses
  <1>3. store' = row /\ orphaned' \in BOOLEAN  BY <1>1 DEF Becomes
  <1> HIDE DEF row
  <1>4. Moved(j) /\ ~job'[j].alone /\ job'[j].pc = "closing"  BY FinishAt DEF FinishShopify
  <1> QED  BY <1>0, <1>2, <1>3, <1>4, DecidedCommon

LEMMA LaterCommon ==
  ASSUME TypeOK, SourceKnown, AloneMeans, NEW j \in Jobs, LaterStep(j)
  PROVE  Common(j)
  BY FingerprintCommon, CatalogCommon, WriteCommon, ExtractCommon, SmokeCommon, ShopifyCommon,
     CloseCommon, JobBreaksCommon DEF LaterStep

\* The steps of requests leave every job as it is or put one in the queue, and of the row
\* only say that it waits or is to be worked on.
LEMMA RequestFacts ==
  ASSUME TypeOK, RequestStep
  PROVE  /\ \A k \in Jobs : job'[k] = job[k] \/ (job'[k].pc = "waiting" /\ ~job'[k].alone)
         /\ cleared' = cleared /\ overlapped' = overlapped
         /\ "crawl" \in store'.goods => "crawl" \in store.goods
         /\ \/ store'.status = store.status
            \/ store'.status = "onboarding"
            \/ store'.status = "pending" /\ store.status = "absent"
         /\ store'.shopify = store.shopify \/ store.status = "absent"
         /\ parted => parted'
         /\ parted' \/ store'.transactionalDisabled = store.transactionalDisabled
  <1> DEFINE NewRow(r) == /\ "crawl" \in r.goods => "crawl" \in store.goods
                          /\ \/ r.status = store.status
                             \/ r.status = "onboarding"
                             \/ r.status = "pending" /\ store.status = "absent"
                          /\ r.shopify = store.shopify \/ store.status = "absent"
             SameOff(r) == r.transactionalDisabled = store.transactionalDisabled
             Rest == (parted => parted') /\ cleared' = cleared /\ overlapped' = overlapped
             Queue == \A k \in Jobs : job'[k] = job[k] \/ (job'[k].pc = "waiting" /\ ~job'[k].alone)
             G == NewRow(store') /\ (parted' \/ SameOff(store')) /\ Rest /\ Queue
  <1>0. /\ NewRow(store) /\ SameOff(store)
        /\ \A time \in {"today", "old"} :
             NewRow([store EXCEPT !.lastInstall = time]) /\ SameOff([store EXCEPT !.lastInstall = time])
        /\ NewRow([store EXCEPT !.status = "onboarding", !.lastInstall = "today"])
        /\ SameOff([store EXCEPT !.status = "onboarding", !.lastInstall = "today"])
        /\ NewRow([store EXCEPT !.status = "onboarding"]) /\ SameOff([store EXCEPT !.status = "onboarding"])
        /\ NewRow([store EXCEPT !.status = "onboarding", !.transactionalDisabled = FALSE])
        /\ NewRow([store EXCEPT !.transactionalDisabled = FALSE])
        /\ store.status = "absent" =>
             /\ NewRow([store EXCEPT !.status = "pending"]) /\ SameOff([store EXCEPT !.status = "pending"])
             /\ NewRow([store EXCEPT !.status = "onboarding", !.shopify = TRUE])
             /\ SameOff([store EXCEPT !.status = "onboarding", !.shopify = TRUE])
        /\ \A goods \in SUBSET Goods : ("crawl" \in goods => "crawl" \in store.goods) =>
             NewRow([store EXCEPT !.goods = goods]) /\ SameOff([store EXCEPT !.goods = goods])
    BY DEF TypeOK, Rows
  <1> HIDE DEF NewRow, SameOff
  <1> SUFFICES G  BY DEF NewRow, SameOff
  <1>1. ASSUME NEW p \in Pings, Look(p) PROVE G   BY <1>0, <1>1 DEF Look, history
  <1>2. ASSUME NEW p \in Pings, Flip(p) PROVE G
    <2>1. Rest /\ Queue /\ parted' = parted  BY <1>2 DEF Flip
    <2>2. NewRow(store') /\ SameOff(store')  BY <1>0, <1>2 DEF Flip, Becomes
    <2> QED  BY <2>1, <2>2
  <1>3. ASSUME NEW p \in Pings, Touch(p) PROVE G  BY <1>0, <1>3 DEF Touch, history
  <1>4. ASSUME NEW c \in Callers, Add(c) PROVE G
    <2>1. Queue  BY <1>4, AddAt
    <2>2. store' = store /\ Rest  BY <1>4 DEF Add, history
    <2> HIDE DEF Queue, Rest
    <2> QED  BY <1>0, <2>1, <2>2
  <1>5. ASSUME NEW c \in Callers, Breaks(c) PROVE G  BY <1>0, <1>5 DEF Breaks, Becomes
  <1>6. CASE Provision                 BY <1>0, <1>6 DEF Provision, Becomes
  <1>7. CASE provisionShopifyMerchant  BY <1>0, <1>7 DEF provisionShopifyMerchant, Becomes
  <1>8. CASE RetryLook                 BY <1>0, <1>8 DEF RetryLook, history
  <1>9. CASE retryOnboarding           BY <1>0, <1>9 DEF retryOnboarding, Becomes
  <1>10. CASE Resync                   BY <1>0, <1>10 DEF Resync, Becomes
  <1>11. CASE ConnectionActivated      BY <1>0, <1>11 DEF ConnectionActivated, Becomes
  <1>12. CASE StartUrl                 BY <1>0, <1>12 DEF StartUrl
  <1>13. CASE DayPasses                BY <1>0, <1>13 DEF DayPasses, history
  <1>14. CASE extractSiteGraph \/ ProductWebhook
    <2>1. NewRow(store') /\ SameOff(store')  BY <1>0, <1>14, Restocked
    <2>2. UNCHANGED <<job, history>>  BY <1>14, Restocked
    <2> QED  BY <2>1, <2>2 DEF history
  <1> HIDE DEF G
  <1> QED
    BY <1>1, <1>2, <1>3, <1>4, <1>5, <1>6, <1>7, <1>8, <1>9, <1>10, <1>11, <1>12, <1>13, <1>14
    DEF RequestStep

\* The safety check: the row is left alone, or rejected and the job over.
LEMMA SafetyFacts ==
  ASSUME TypeOK, SourceKnown, NEW j \in Jobs, safetyCheck(j)
  PROVE  /\ TypeOK' /\ SourceKnown' /\ job[j].pc = "checking" /\ Moved(j)
         /\ caller' = caller /\ starts' = starts /\ overlapped' = overlapped /\ parted' = parted
         /\ \/ /\ cleared' /\ store' = store /\ orphaned' = orphaned
               /\ job'[j].pc = "fingerprinting" /\ job'[j].alone = job[j].alone
            \/ ~cleared' /\ store'.status = "rejected" /\ job'[j].pc = "closing" /\ ~job'[j].alone
  <1>0. /\ job[j].pc = "checking" /\ cleared' \in BOOLEAN /\ store \in Rows
        /\ caller' = caller /\ starts' = starts /\ overlapped' = overlapped /\ parted' = parted
        /\ events' = events
    BY DEF safetyCheck, TypeOK
  <1>1. CASE cleared'
    <2>1. To(j, "fingerprinting") /\ store' = store /\ orphaned' = orphaned
      BY <1>1 DEF safetyCheck, Passes
    <2>2. Moved(j) /\ job'[j].pc = "fingerprinting" /\ job'[j].alone = job[j].alone
      BY <2>1, ToAt DEF Labels
    <2>3. TypeOK'  BY <1>0, <2>1, <2>2 DEF TypeOK, Moved
    <2>4. SourceKnown'  BY <2>2, MovedKnown
    <2> QED  BY <1>0, <1>1, <2>1, <2>2, <2>3, <2>4
  <1>2. CASE ~cleared'
    <2>1. Finish(j) /\ Becomes([store EXCEPT !.status = "rejected"], FALSE)
      BY <1>2 DEF safetyCheck, Passes
    <2>2. Moved(j) /\ job'[j].pc = "closing" /\ ~job'[j].alone  BY <2>1, FinishAt
    <2>3. store' \in Rows /\ store'.status = "rejected" /\ orphaned' \in BOOLEAN
      BY <1>0, <2>1 DEF Becomes, Rows, Statuses
    <2>4. TypeOK'  BY <1>0, <2>2, <2>3 DEF TypeOK, Moved
    <2>5. SourceKnown'  BY <2>2, MovedKnown
    <2> QED  BY <1>0, <1>2, <2>2, <2>3, <2>4, <2>5
  <1> QED  BY <1>1, <1>2

LEMMA StartTypes ==
  ASSUME TypeOK, SourceKnown, NEW j \in Jobs, Start(j)
  PROVE  TypeOK' /\ SourceKnown'
  <1>1. TypeOK'
    <2>1. job' \in [Jobs -> Progress]  BY StartAt
    <2>2. overlapped' \in BOOLEAN /\ UNCHANGED <<store, caller, events, orphaned, starts, cleared, parted>>
      BY DEF Start, TypeOK
    <2> QED  BY <2>1, <2>2 DEF TypeOK
  <1>2. SourceKnown'  BY StartAt DEF SourceKnown
  <1> QED  BY <1>1, <1>2

\* The next-state relation, by who steps.
LEMMA WhoSteps ==
  ASSUME Next
  PROVE  RequestStep \/ \E j \in Jobs : Start(j) \/ safetyCheck(j) \/ LaterStep(j)
  BY DEF Next, RequestStep, JobStep, LaterStep

-------------------------------------------------------------------------------
(* Types, and that a served store was checked *)

OneByOne == ~overlapped => \A j, k \in Running : j = k

\* Whose check is the last one: that of a job which runs alone, or one after another.
CheckedBefore ==
  \A j \in Running :
    (job[j].alone \/ ~overlapped) /\ job[j].pc \notin {"checking", "closing"} => cleared

SoloInv == TypeOK /\ SourceKnown /\ AloneMeans /\ OneByOne /\ CheckedBefore /\ ServedStoreIsSafe

LEMMA SoloInit == Init => SoloInv
  <1> SUFFICES ASSUME Init PROVE SoloInv  OBVIOUS
  <1>1. PICK cast \in Casts :
             caller = [c \in Callers |-> [pc |-> IF c \in cast THEN "idle" ELSE "away", seen |-> "absent"]]
    BY DEF Init
  <1>2. caller \in [Callers -> [pc : Places, seen : Statuses]]
    BY <1>1 DEF Places, Statuses
  <1>3. job \in [Jobs -> Progress] /\ \A j \in Jobs : job[j].pc = "none" /\ ~job[j].alone
    BY NoJobType DEF Init, NoJob
  <1>4. store \in Rows /\ store.status = "absent"  BY DEF Init, Rows, Statuses
  <1>5. TypeOK
    <2>1. events \in 0..MaxEvents /\ starts \in Nat
      BY OnboardingAssumption DEF Init, OnboardingAssumption
    <2>2. {orphaned, cleared, overlapped, parted} \subseteq BOOLEAN  BY DEF Init
    <2> QED  BY <1>2, <1>3, <1>4, <2>1, <2>2 DEF TypeOK
  <1>6. Running = {}  BY <1>3 DEF Running, Alive
  <1> QED
    BY <1>3, <1>4, <1>5, <1>6
    DEF SoloInv, SourceKnown, AloneMeans, OneByOne, CheckedBefore, ServedStoreIsSafe, Settled

LEMMA RequestSolo ==
  ASSUME SoloInv, RequestStep
  PROVE  SoloInv'
  <1> USE DEF SoloInv
  <1>1. TypeOK'  BY RequestTypes
  <1>2. \A k \in Jobs : job'[k] = job[k] \/ (job'[k].pc = "waiting" /\ ~job'[k].alone)
    BY RequestFacts
  <1>3. cleared' = cleared /\ overlapped' = overlapped  BY RequestFacts
  <1>4. Settled' => Settled  BY RequestFacts DEF Settled
  <1>5. SourceKnown'  BY <1>2 DEF SourceKnown
  <1>6. \A k \in Running' : k \in Running /\ job'[k] = job[k]
    BY <1>2 DEF Running, Alive
  <1>7. AloneMeans'
    <2> SUFFICES ASSUME NEW j \in Jobs, job'[j].alone
                 PROVE  Running' = {j} /\ job'[j].pc \in {"checking", "fingerprinting"}
      BY DEF AloneMeans
    <2>1. job'[j] = job[j]  BY <1>2
    <2>2. Running = {j} /\ job[j].pc \in {"checking", "fingerprinting"}  BY <2>1 DEF AloneMeans
    <2>3. j \in Running'  BY <2>1, <2>2 DEF Running, Alive
    <2> QED  BY <1>6, <2>1, <2>2, <2>3
  <1>8. OneByOne'  BY <1>3, <1>6 DEF OneByOne
  <1>9. CheckedBefore'  BY <1>3, <1>6 DEF CheckedBefore
  <1>10. ServedStoreIsSafe'  BY <1>3, <1>4 DEF ServedStoreIsSafe
  <1> QED  BY <1>1, <1>5, <1>7, <1>8, <1>9, <1>10

LEMMA StartSolo ==
  ASSUME SoloInv, NEW j \in Jobs, Start(j)
  PROVE  SoloInv'
  <1> USE DEF SoloInv
  <1>1. TypeOK' /\ SourceKnown'  BY StartTypes
  <1>2. /\ job[j].pc = "waiting" /\ store' = store /\ cleared' = cleared
        /\ overlapped' = (overlapped \/ Running # {})
    BY DEF Start
  <1>3. /\ job'[j].pc = "checking" /\ (job'[j].alone <=> Running = {})
        /\ \A k \in Jobs \ {j} : job'[k].pc = job[k].pc /\ ~job'[k].alone
    BY StartAt
  <1>4. Running' = Running \cup {j}  BY <1>2, <1>3 DEF Running, Alive
  <1>5. AloneMeans'  BY <1>3, <1>4 DEF AloneMeans
  <1>6. OneByOne'  BY <1>2, <1>4 DEF OneByOne
  <1>7. CheckedBefore'
    <2> SUFFICES ASSUME NEW k \in Running', job'[k].alone \/ ~overlapped',
                        job'[k].pc \notin {"checking", "closing"}
                 PROVE  FALSE
      BY DEF CheckedBefore
    <2>1. k # j  BY <1>3
    <2>2. k \in Running /\ k \in Jobs  BY <1>4, <2>1 DEF Running, Alive
    <2> QED  BY <1>2, <1>3, <2>1, <2>2
  <1>8. ServedStoreIsSafe'  BY <1>2 DEF ServedStoreIsSafe, Settled
  <1> QED  BY <1>1, <1>5, <1>6, <1>7, <1>8

LEMMA MovedRunning ==
  ASSUME NEW j \in Jobs, Moved(j)
  PROVE  /\ \A k \in Jobs \ {j} : k \in Running' <=> k \in Running
         /\ Running' \subseteq Jobs
  BY DEF Moved, Running, Alive

LEMMA SafetySolo ==
  ASSUME SoloInv, NEW j \in Jobs, safetyCheck(j)
  PROVE  SoloInv'
  <1> USE DEF SoloInv
  <1>1. TypeOK' /\ SourceKnown' /\ Moved(j) /\ job[j].pc = "checking" /\ overlapped' = overlapped
    BY SafetyFacts
  <1>2. \/ /\ cleared' /\ store' = store
           /\ job'[j].pc = "fingerprinting" /\ job'[j].alone = job[j].alone
        \/ ~cleared' /\ store'.status = "rejected" /\ job'[j].pc = "closing" /\ ~job'[j].alone
    BY SafetyFacts
  <1>3. j \in Running /\ j \in Running'  BY <1>1, <1>2 DEF Running, Alive
  <1>4. Running' = Running  BY <1>1, <1>3, MovedRunning DEF Running, Alive
  <1>5. \A k \in Jobs \ {j} : job'[k] = job[k]  BY <1>1 DEF Moved
  <1>6. AloneMeans'
    <2> SUFFICES ASSUME NEW k \in Jobs, job'[k].alone
                 PROVE  Running' = {k} /\ job'[k].pc \in {"checking", "fingerprinting"}
      BY DEF AloneMeans
    <2>1. CASE k = j  BY <1>2, <1>4, <2>1 DEF AloneMeans
    <2>2. CASE k # j  BY <1>4, <1>5, <2>2 DEF AloneMeans
    <2> QED  BY <2>1, <2>2
  <1>7. OneByOne'  BY <1>1, <1>4 DEF OneByOne
  <1>8. CheckedBefore'
    <2> SUFFICES ASSUME NEW k \in Running', job'[k].alone \/ ~overlapped',
                        job'[k].pc \notin {"checking", "closing"}
                 PROVE  cleared'
      BY DEF CheckedBefore
    <2>1. k \in Running /\ k \in Jobs  BY <1>4 DEF Running, Alive
    <2>2. CASE k = j  BY <1>2, <2>2
    <2>3. CASE k # j
      <3>1. job[k].alone \/ ~overlapped  BY <1>1, <1>5, <2>1, <2>3
      <3> QED  BY <1>3, <2>1, <2>3, <3>1 DEF AloneMeans, OneByOne
    <2> QED  BY <2>2, <2>3
  <1>9. ServedStoreIsSafe'  BY <1>1, <1>2 DEF ServedStoreIsSafe, Settled
  <1> QED  BY <1>1, <1>6, <1>7, <1>8, <1>9

LEMMA LaterSolo ==
  ASSUME SoloInv, NEW j \in Jobs, LaterStep(j)
  PROVE  SoloInv'
  <1> USE DEF SoloInv
  <1>1. Common(j)  BY LaterCommon
  <1>2. /\ TypeOK' /\ SourceKnown' /\ j \in Running /\ Moved(j) /\ ~job'[j].alone
        /\ cleared' = cleared
        /\ (overlapped' => overlapped) /\ (overlapped /\ ~overlapped' => job[j].alone)
        /\ job[j].pc \in {"checking", "closing"} =>
             job'[j].pc \in {"waiting", "over"} /\ store' = store /\ overlapped' = overlapped
    BY <1>1 DEF Common
  <1>3. \A k \in Jobs \ {j} : job'[k] = job[k]  BY <1>2 DEF Moved
  <1>4. \A k \in Running' : k \in Jobs /\ k \in Running  BY <1>2, MovedRunning
  <1>5. ~overlapped' => \A k \in Running : k = j
    BY <1>2 DEF AloneMeans, OneByOne
  <1>6. \A k \in Jobs : ~job'[k].alone
    BY <1>2, <1>3 DEF AloneMeans
  <1>7. AloneMeans'  BY <1>6 DEF AloneMeans
  <1>8. OneByOne'  BY <1>4, <1>5 DEF OneByOne
  <1>9. ~overlapped' /\ job[j].pc \notin {"checking", "closing"} => cleared
    BY <1>2 DEF CheckedBefore
  <1>10. CheckedBefore'
    <2> SUFFICES ASSUME NEW k \in Running', job'[k].alone \/ ~overlapped',
                        job'[k].pc \notin {"checking", "closing"}
                 PROVE  cleared'
      BY DEF CheckedBefore
    <2>1. ~overlapped'  BY <1>4, <1>6
    <2>2. k = j  BY <1>4, <1>5, <2>1
    <2>3. job'[j].pc \notin {"waiting", "over"}  BY <2>2 DEF Running, Alive
    <2> QED  BY <1>2, <1>9, <2>1, <2>3
  <1>11. ServedStoreIsSafe'
    <2> SUFFICES ASSUME Settled', ~overlapped' PROVE cleared'  BY DEF ServedStoreIsSafe
    <2>1. CASE job[j].pc \in {"checking", "closing"}
      <3>1. Settled /\ ~overlapped  BY <1>2, <2>1 DEF Settled
      <3> QED  BY <1>2, <3>1 DEF ServedStoreIsSafe
    <2>2. CASE job[j].pc \notin {"checking", "closing"}  BY <1>2, <1>9, <2>2
    <2> QED  BY <2>1, <2>2
  <1> QED  BY <1>2, <1>7, <1>8, <1>10, <1>11

-------------------------------------------------------------------------------
(* A store is started once *)

StartedOnce == starts \in {0, 1} /\ (store.status \in {"absent", "pending"} => starts = 0)

LEMMA RequestStarts ==
  ASSUME TypeOK, RequestStep
  PROVE  \/ starts' = starts
         \/ starts' = starts + 1 /\ store.status = "pending" /\ store'.status = "onboarding"
  <1>1. ASSUME NEW p \in Pings, Flip(p), starts' # starts
        PROVE  starts' = starts + 1 /\ store.status = "pending" /\ store'.status = "onboarding"
    <2>1. /\ StatusUnchanged(p) /\ caller[p].seen = "pending" /\ starts' = starts + 1
          /\ store' = [store EXCEPT !.status = "onboarding", !.lastInstall = "today"]
      BY <1>1 DEF Flip, Becomes
    <2> QED  BY <2>1 DEF StatusUnchanged, TypeOK, Rows
  <1>2. ASSUME ~ \E p \in Pings : Flip(p)
        PROVE  starts' = starts
    BY <1>2 DEF RequestStep, Look, Touch, Add, Breaks, Provision, provisionShopifyMerchant, RetryLook,
                retryOnboarding, Resync, ConnectionActivated, StartUrl, DayPasses,
                extractSiteGraph, ProductWebhook, history
  <1> QED  BY <1>1, <1>2

LEMMA OnceStep ==
  ASSUME SoloInv, StartedOnce, [Next]_vars
  PROVE  StartedOnce'
  <1> USE DEF SoloInv
  <1>1. CASE RequestStep
    <2>1. \/ store'.status = store.status
          \/ store'.status = "onboarding"
          \/ store'.status = "pending" /\ store.status = "absent"
      BY <1>1, RequestFacts
    <2> QED  BY <1>1, <2>1, RequestStarts DEF StartedOnce
  <1>2. ASSUME NEW j \in Jobs, Start(j) PROVE StartedOnce'
    BY <1>2 DEF Start, StartedOnce
  <1>3. ASSUME NEW j \in Jobs, safetyCheck(j) PROVE StartedOnce'
    <2>1. starts' = starts /\ (store' = store \/ store'.status = "rejected")
      BY <1>3, SafetyFacts
    <2> QED  BY <2>1 DEF StartedOnce
  <1>4. ASSUME NEW j \in Jobs, LaterStep(j) PROVE StartedOnce'
    <2>1. /\ starts' = starts
          /\ store'.status \in {"absent", "pending"} => store'.status = store.status
      BY <1>4, LaterCommon DEF Common
    <2> QED  BY <2>1 DEF StartedOnce
  <1>5. CASE UNCHANGED vars  BY <1>5 DEF vars, StartedOnce
  <1> QED  BY <1>1, <1>2, <1>3, <1>4, <1>5, WhoSteps

-------------------------------------------------------------------------------
(* A store that says "onboarding" is worked on *)

Promised == {c \in Callers : caller[c].pc \in {"flip", "adding"}}
Asked == {j \in Jobs : job[j].pc # "none"}

\* Whoever is about to queue a job finds room for it (the bound of the model).
Room == Queued + Cardinality(Promised) <= MaxJobs

\* Stronger than OnboardingIsWorkedOn: a job that only has a metric left to write is no help.
Awaited == store.status = "onboarding" => Undecided # {} \/ Adding # {} \/ orphaned

LEMMA AskedAndPromised ==
  /\ IsFiniteSet(Asked) /\ IsFiniteSet(Asked') /\ IsFiniteSet(Promised) /\ IsFiniteSet(Promised')
  /\ Queued = Cardinality(Asked) /\ Queued' = Cardinality(Asked') /\ Queued \in Nat /\ Queued' \in Nat
  /\ Cardinality(Promised) \in Nat /\ Cardinality(Promised') \in Nat
  <1>1. IsFiniteSet(Jobs)
    BY FS_Interval, OnboardingAssumption DEF Jobs, OnboardingAssumption
  <1>2. IsFiniteSet(Callers)
    <2>1. IsFiniteSet(Pings)  BY OnboardingAssumption DEF OnboardingAssumption
    <2>2. IsFiniteSet(Pings \cup {Operator})  BY <2>1, FS_AddElement
    <2>3. IsFiniteSet((Pings \cup {Operator}) \cup {App})  BY <2>2, FS_AddElement
    <2>4. Callers = (Pings \cup {Operator}) \cup {App}  BY DEF Callers
    <2> QED  BY <2>3, <2>4
  <1>3. Asked \in SUBSET Jobs /\ Asked' \in SUBSET Jobs  BY DEF Asked
  <1>4. Promised \in SUBSET Callers /\ Promised' \in SUBSET Callers  BY DEF Promised
  <1>5. /\ IsFiniteSet(Asked) /\ IsFiniteSet(Asked')
        /\ IsFiniteSet(Promised) /\ IsFiniteSet(Promised')
    BY <1>1, <1>2, <1>3, <1>4, FS_Subset
  <1>6. Queued = Cardinality(Asked) /\ Queued' = Cardinality(Asked')  BY DEF Queued, Asked
  <1> QED  BY <1>5, <1>6, FS_CardinalityType

LEMMA RoomKept ==
  ASSUME Room, Asked' \subseteq Asked, Promised' \subseteq Promised
  PROVE  Room'
  <1>1. Cardinality(Asked') <= Cardinality(Asked) /\ Cardinality(Promised') <= Cardinality(Promised)
    BY AskedAndPromised, FS_Subset
  <1>2. MaxJobs \in Nat  BY OnboardingAssumption DEF OnboardingAssumption
  <1> QED  BY <1>1, <1>2, AskedAndPromised DEF Room

LEMMA RoomTaken ==
  ASSUME HasRoom, Asked' \subseteq Asked, NEW c \in Callers, Promised' \subseteq Promised \cup {c}
  PROVE  Room'
  <1>1. Queued + Cardinality(Promised) < MaxJobs  BY DEF HasRoom, Promised
  <1>2. Cardinality(Asked') <= Cardinality(Asked)  BY AskedAndPromised, FS_Subset
  <1>3. IsFiniteSet(Promised \cup {c}) /\ Cardinality(Promised \cup {c}) <= Cardinality(Promised) + 1
    <2>1. /\ IsFiniteSet(Promised \cup {c})
          /\ Cardinality(Promised \cup {c}) =
               IF c \in Promised THEN Cardinality(Promised) ELSE Cardinality(Promised) + 1
      BY AskedAndPromised, FS_AddElement
    <2> QED  BY <2>1, AskedAndPromised
  <1>4. Cardinality(Promised') <= Cardinality(Promised \cup {c})  BY <1>3, FS_Subset
  <1>5. Cardinality(Promised \cup {c}) \in Nat  BY <1>3, FS_CardinalityType
  <1>6. MaxJobs \in Nat  BY OnboardingAssumption DEF OnboardingAssumption
  <1> QED  BY <1>1, <1>2, <1>3, <1>4, <1>5, <1>6, AskedAndPromised DEF Room

LEMMA RoomUsed ==
  ASSUME Room, NEW c \in Promised, NEW q \in Nat, Asked' \subseteq Asked \cup {q},
         Promised' \subseteq Promised \ {c}
  PROVE  Queued + 1 \in Jobs /\ Room'
  <1>1. IsFiniteSet(Promised \ {c}) /\ Cardinality(Promised \ {c}) = Cardinality(Promised) - 1
    BY AskedAndPromised, FS_RemoveElement
  <1>2. Cardinality(Promised') <= Cardinality(Promised \ {c})  BY <1>1, FS_Subset
  <1>3. IsFiniteSet(Asked \cup {q}) /\ Cardinality(Asked \cup {q}) <= Cardinality(Asked) + 1
    <2>1. /\ IsFiniteSet(Asked \cup {q})
          /\ Cardinality(Asked \cup {q}) =
               IF q \in Asked THEN Cardinality(Asked) ELSE Cardinality(Asked) + 1
      BY AskedAndPromised, FS_AddElement
    <2> QED  BY <2>1, AskedAndPromised
  <1>4. Cardinality(Asked') <= Cardinality(Asked \cup {q})  BY <1>3, FS_Subset
  <1>5. Cardinality(Asked \cup {q}) \in Nat  BY <1>3, FS_CardinalityType
  <1>6. Cardinality(Promised \ {c}) \in Nat  BY <1>1, FS_CardinalityType
  <1>7. MaxJobs \in Nat  BY OnboardingAssumption DEF OnboardingAssumption
  <1>8. Room'  BY <1>1, <1>2, <1>3, <1>4, <1>5, <1>6, <1>7, AskedAndPromised DEF Room
  <1>9. Queued + 1 \in Jobs  BY <1>1, <1>6, <1>7, AskedAndPromised DEF Room, Jobs
  <1> QED  BY <1>8, <1>9

LEMMA AskAt ==
  ASSUME TypeOK, NEW c \in Callers, NEW pc, NEW seen, Ask(c, pc, seen)
  PROVE  /\ caller'[c].pc = pc
         /\ \A d \in Callers \ {c} : caller'[d] = caller[d]
         /\ Promised' = IF pc \in {"flip", "adding"} THEN Promised \cup {c} ELSE Promised \ {c}
         /\ Adding' = IF pc = "adding" THEN Adding \cup {c} ELSE Adding \ {c}
  <1>1. caller' = [caller EXCEPT ![c] = [pc |-> pc, seen |-> seen]]  BY DEF Ask
  <1>2. caller'[c].pc = pc /\ \A d \in Callers \ {c} : caller'[d] = caller[d]
    BY <1>1 DEF TypeOK
  <1>3. Promised' = IF pc \in {"flip", "adding"} THEN Promised \cup {c} ELSE Promised \ {c}
    BY <1>2 DEF Promised
  <1>4. Adding' = IF pc = "adding" THEN Adding \cup {c} ELSE Adding \ {c}
    BY <1>2 DEF Adding
  <1> QED  BY <1>2, <1>3, <1>4

LEMMA ReturnAt ==
  ASSUME TypeOK, NEW c \in Callers, Return(c)
  PROVE  Promised' = Promised \ {c} /\ Adding' = Adding \ {c}
  BY AskAt DEF Return

LEMMA IdleJobs ==
  ASSUME job' = job
  PROVE  Asked' = Asked /\ Undecided' = Undecided
  BY DEF Asked, Undecided

LEMMA RequestAwaited ==
  ASSUME TypeOK, Room, Awaited, RequestStep
  PROVE  Room' /\ Awaited'
  <1> DEFINE G == Room' /\ Awaited'
  <1> SUFFICES G  OBVIOUS
  <1>0. Pings \subseteq Callers /\ Operator \in Callers /\ App \in Callers  BY DEF Callers
  <1>1. ASSUME NEW p \in Pings, Look(p) PROVE G
    <2>1. store' = store /\ job' = job /\ orphaned' = orphaned /\ caller[p].pc = "idle"
      BY <1>1 DEF Look, history
    <2>2. \/ HasRoom /\ Promised' = Promised \cup {p} /\ Adding' = Adding \ {p}
          \/ Promised' = Promised \ {p} /\ Adding' = Adding \ {p}
      BY <1>0, <1>1, AskAt DEF Look
    <2>3. p \notin Adding  BY <2>1 DEF Adding
    <2>4. Awaited'  BY <2>1, <2>2, <2>3, IdleJobs DEF Awaited
    <2>5. Room'  BY <1>0, <2>1, <2>2, IdleJobs, RoomKept, RoomTaken
    <2> QED  BY <2>4, <2>5
  <1>2. ASSUME NEW p \in Pings, Flip(p) PROVE G
    <2>1. job' = job /\ caller[p].pc = "flip"  BY <1>2 DEF Flip
    <2>2. p \in Promised /\ p \notin Adding  BY <1>0, <2>1 DEF Promised, Adding
    <2>3. \/ Promised' = Promised \cup {p} /\ Adding' = Adding \cup {p}
          \/ /\ Promised' = Promised \ {p} /\ Adding' = Adding \ {p}
             /\ store' = store /\ orphaned' = orphaned
      BY <1>0, <1>2, AskAt, ReturnAt DEF Flip
    <2>4. Awaited'  BY <2>1, <2>2, <2>3, IdleJobs DEF Awaited
    <2>5. Room'  BY <2>1, <2>2, <2>3, IdleJobs, RoomKept
    <2> QED  BY <2>4, <2>5
  <1>3. ASSUME NEW p \in Pings, Touch(p) PROVE G
    <2>1. /\ job' = job /\ orphaned' = orphaned /\ caller[p].pc = "touch"
          /\ store'.status = store.status
      BY <1>3 DEF Touch, history, TypeOK, Rows
    <2>2. Promised' = Promised \ {p} /\ Adding' = Adding \ {p}  BY <1>0, <1>3, ReturnAt DEF Touch
    <2>3. p \notin Adding  BY <2>1 DEF Adding
    <2> QED  BY <2>1, <2>2, <2>3, IdleJobs, RoomKept DEF Awaited
  <1>4. ASSUME NEW c \in Callers, Add(c) PROVE G
    <2>1. store' = store /\ orphaned' = orphaned /\ caller[c].pc = "adding"
      BY <1>4 DEF Add, history
    <2>2. Promised' = Promised \ {c} /\ Adding' = Adding \ {c}  BY <1>4, ReturnAt DEF Add
    <2>3. c \in Promised  BY <2>1 DEF Promised
    <2>4. Asked' \subseteq Asked \cup {Queued + 1}  BY <1>4, AddAt DEF Asked
    <2>5. Queued + 1 \in Nat  BY AskedAndPromised
    <2>6. Queued + 1 \in Jobs /\ Room'  BY <2>2, <2>3, <2>4, <2>5, RoomUsed
    <2>7. job'[Queued + 1].pc = "waiting"  BY <1>4, <2>6, AddAt
    <2>8. Undecided' # {}  BY <2>6, <2>7 DEF Undecided
    <2> QED  BY <2>6, <2>8 DEF Awaited
  <1>5. ASSUME NEW c \in Callers, Breaks(c) PROVE G
    <2>1. /\ job' = job /\ store' = store
          /\ orphaned' = (store.status = "onboarding" /\ (orphaned \/ caller[c].pc = "adding"))
      BY <1>5 DEF Breaks, Becomes
    <2>2. Promised' = Promised \ {c} /\ Adding' = Adding \ {c}  BY <1>5, ReturnAt DEF Breaks
    <2>3. c \in Adding => caller[c].pc = "adding"  BY DEF Adding
    <2>4. Awaited'  BY <2>1, <2>2, <2>3, IdleJobs DEF Awaited
    <2>5. Room'  BY <2>1, <2>2, IdleJobs, RoomKept
    <2> QED  BY <2>4, <2>5
  <1>6. ASSUME UNCHANGED <<caller, job>>, store'.status = "onboarding" => orphaned' PROVE G
    <2>1. Promised' = Promised /\ Adding' = Adding  BY <1>6 DEF Promised, Adding
    <2> QED  BY <1>6, <2>1, IdleJobs, RoomKept DEF Awaited
  <1>7. ASSUME UNCHANGED <<caller, job, orphaned>>, store'.status = store.status PROVE G
    <2>1. Promised' = Promised /\ Adding' = Adding  BY <1>7 DEF Promised, Adding
    <2> QED  BY <1>7, <2>1, IdleJobs, RoomKept DEF Awaited
  <1>8. CASE Provision
    <2>1. UNCHANGED <<caller, job>> /\ store'.status = "pending"
      BY <1>8 DEF Provision, Becomes, TypeOK, Rows
    <2> QED  BY <1>6, <2>1
  <1>9. CASE provisionShopifyMerchant
    <2>1. job' = job /\ HasRoom /\ Ask(App, "adding", "absent")
      BY <1>9 DEF provisionShopifyMerchant
    <2>2. Promised' = Promised \cup {App} /\ App \in Adding'  BY <1>0, <2>1, AskAt
    <2> QED  BY <1>0, <2>1, <2>2, IdleJobs, RoomTaken DEF Awaited
  <1>10. CASE RetryLook
    <2>1. /\ job' = job /\ store' = store /\ orphaned' = orphaned /\ HasRoom
          /\ caller[Operator].pc = "idle" /\ Ask(Operator, "flip", "absent")
      BY <1>10 DEF RetryLook, history
    <2>2. /\ Promised' = Promised \cup {Operator} /\ Adding' = Adding \ {Operator}
          /\ Operator \notin Adding
      BY <1>0, <2>1, AskAt DEF Adding
    <2> QED  BY <1>0, <2>1, <2>2, IdleJobs, RoomTaken DEF Awaited
  <1>11. CASE retryOnboarding
    <2>1. job' = job /\ caller[Operator].pc = "flip" /\ Ask(Operator, "adding", "absent")
      BY <1>11 DEF retryOnboarding
    <2>2. Promised' = Promised \cup {Operator} /\ Operator \in Promised /\ Operator \in Adding'
      BY <1>0, <2>1, AskAt DEF Promised
    <2> QED  BY <2>1, <2>2, IdleJobs, RoomKept DEF Awaited
  <1>12. CASE Resync
    <2>1. UNCHANGED <<caller, job>> /\ (store'.status = "onboarding" => orphaned')
      BY <1>12 DEF Resync, Becomes
    <2> QED  BY <1>6, <2>1
  <1>13. CASE ConnectionActivated
    <2>1. UNCHANGED <<caller, job>> /\ (store'.status = "onboarding" => orphaned')
      BY <1>13 DEF ConnectionActivated, Becomes
    <2> QED  BY <1>6, <2>1
  <1>14. CASE StartUrl
    <2>1. UNCHANGED <<caller, job, orphaned>> /\ store'.status = store.status
      BY <1>14 DEF StartUrl, TypeOK, Rows
    <2> QED  BY <1>7, <2>1
  <1>15. CASE DayPasses
    <2>1. UNCHANGED <<caller, job, orphaned>> /\ store'.status = store.status
      BY <1>15 DEF DayPasses, TypeOK, Rows, history
    <2> QED  BY <1>7, <2>1
  <1>16. CASE extractSiteGraph \/ ProductWebhook
    <2>1. UNCHANGED <<caller, job, orphaned>>  BY <1>16, Restocked DEF history
    <2>2. store'.status = store.status  BY <1>16, Restocked DEF TypeOK, Rows
    <2> QED  BY <1>7, <2>1, <2>2
  <1> HIDE DEF G
  <1> QED
    BY <1>1, <1>2, <1>3, <1>4, <1>5, <1>8, <1>9, <1>10, <1>11, <1>12, <1>13, <1>14, <1>15, <1>16
    DEF RequestStep

LEMMA JobAwaited ==
  ASSUME SoloInv, Room, Awaited, NEW j \in Jobs, Start(j) \/ safetyCheck(j) \/ LaterStep(j)
  PROVE  Room' /\ Awaited'
  <1> USE DEF SoloInv
  <1>1. caller' = caller /\ Asked' \subseteq Asked
    <2>1. CASE Start(j)
      <3>1. caller' = caller /\ job[j].pc = "waiting"  BY <2>1 DEF Start
      <3>2. \A k \in Jobs \ {j} : job'[k].pc = job[k].pc  BY <2>1, StartAt
      <3> QED  BY <3>1, <3>2 DEF Asked
    <2>2. CASE safetyCheck(j)
      <3>1. caller' = caller /\ job[j].pc = "checking" /\ Moved(j)  BY <2>2, SafetyFacts
      <3> QED  BY <3>1 DEF Asked, Moved
    <2>3. CASE LaterStep(j)
      <3>1. caller' = caller /\ j \in Running /\ Moved(j)  BY <2>3, LaterCommon DEF Common
      <3> QED  BY <3>1 DEF Asked, Moved, Running, Alive
    <2> QED  BY <2>1, <2>2, <2>3
  <1>2. Promised' = Promised /\ Adding' = Adding  BY <1>1 DEF Promised, Adding
  <1>3. Room'  BY <1>1, <1>2, RoomKept
  <1>4. Awaited'
    <2>1. CASE Start(j)
      <3>1. j \in Undecided'  BY <2>1, StartAt DEF Undecided
      <3> QED  BY <3>1 DEF Awaited
    <2>2. CASE safetyCheck(j)
      <3>1. job'[j].pc = "fingerprinting" \/ store'.status = "rejected"  BY <2>2, SafetyFacts
      <3> QED  BY <3>1 DEF Awaited, Undecided
    <2>3. CASE LaterStep(j)
      <3>1. Moved(j) /\ (store'.status = "onboarding" =>
               /\ orphaned => orphaned'
               /\ j \in Undecided' \/ j \notin Undecided \/ orphaned'
               /\ store.status = "onboarding" \/ j \in Undecided')
        BY <2>3, LaterCommon DEF Common
      <3>2. \A k \in Undecided : k # j => k \in Undecided'  BY <3>1 DEF Moved, Undecided
      <3> QED  BY <1>2, <3>1, <3>2 DEF Awaited
    <2> QED  BY <2>1, <2>2, <2>3
  <1> QED  BY <1>3, <1>4

-------------------------------------------------------------------------------
(* The cart and the catalog fit *)

\* What the row is while a job that runs by itself fills the catalog.
Filling(j) ==
  /\ job[j].pc \in {"syncing", "storing", "extracting", "finishing", "smoking"} =>
       store.status = "onboarding"
  /\ job[j].pc \in {"syncing", "storing"} => (store.shopify <=> job[j].kind = "shopify")
  /\ job[j].pc \in {"extracting", "smoking"} => ~store.shopify
  /\ ~parted /\ job[j].pc = "storing" => "crawl" \notin store.goods
  /\ ~parted /\ job[j].pc = "finishing" /\ "crawl" \in store.goods => job[j].source = "crawl"

CartInv == CatalogFitsCart /\ (~overlapped => \A j \in Running : Filling(j))

LEMMA RequestCart ==
  ASSUME SoloInv, CartInv, RequestStep
  PROVE  CartInv'
  <1>1. \A k \in Running' : k \in Running /\ job'[k] = job[k]
    BY RequestFacts DEF SoloInv, Running, Alive
  <1>2. /\ overlapped' = overlapped
        /\ "crawl" \in store'.goods => "crawl" \in store.goods
        /\ \/ store'.status = store.status
           \/ store'.status = "onboarding"
           \/ store'.status = "pending" /\ store.status = "absent"
        /\ store'.shopify = store.shopify \/ store.status = "absent"
        /\ parted => parted'
        /\ parted' \/ store'.transactionalDisabled = store.transactionalDisabled
    BY RequestFacts DEF SoloInv
  <1>3. CatalogFitsCart'
    <2> SUFFICES ASSUME Settled', store'.shopify, "crawl" \in store'.goods, ~overlapped', ~parted',
                        ~store'.transactionalDisabled
                 PROVE  FALSE
      BY DEF CatalogFitsCart
    <2>1. Settled /\ store.shopify /\ "crawl" \in store.goods /\ ~overlapped /\ ~parted
      BY <1>2 DEF Settled
    <2>2. store.transactionalDisabled  BY <2>1 DEF CartInv, CatalogFitsCart
    <2> QED  BY <1>2, <2>2
  <1>4. ASSUME ~overlapped', NEW k \in Running' PROVE Filling(k)'
    <2>1. Filling(k)  BY <1>1, <1>2, <1>4 DEF CartInv
    <2>2. job'[k] = job[k]  BY <1>1
    <2> QED  BY <1>2, <2>1, <2>2 DEF Filling
  <1> QED  BY <1>3, <1>4 DEF CartInv

LEMMA SoloJob ==
  ASSUME SoloInv, NEW j \in Jobs, Start(j) \/ safetyCheck(j) \/ LaterStep(j), ~overlapped'
  PROVE  Running' \subseteq {j}
  <1>1. CASE Start(j)
    <2>1. job[j].pc = "waiting" /\ Running = {}  BY <1>1 DEF Start
    <2>2. \A k \in Jobs \ {j} : job'[k].pc = job[k].pc  BY <1>1, StartAt DEF SoloInv
    <2> QED  BY <2>1, <2>2 DEF Running, Alive
  <1>2. CASE safetyCheck(j)
    <2>1. job[j].pc = "checking" /\ Moved(j) /\ ~overlapped  BY <1>2, SafetyFacts DEF SoloInv
    <2>2. j \in Running  BY <2>1 DEF Running, Alive
    <2> QED  BY <2>1, <2>2, MovedRunning DEF SoloInv, OneByOne
  <1>3. CASE LaterStep(j)
    <2>1. j \in Running /\ Moved(j) /\ (overlapped => job[j].alone)
      BY <1>3, LaterCommon DEF SoloInv, Common
    <2>2. \A k \in Running : k = j  BY <2>1 DEF SoloInv, OneByOne, AloneMeans
    <2> QED  BY <2>1, <2>2, MovedRunning
  <1> QED  BY <1>1, <1>2, <1>3

\* The row is left as it was, or is out of service, by a job that is not filling it.
LEMMA IdleCart ==
  ASSUME CartInv, NEW j \in Jobs, ~overlapped' => Running' \subseteq {j},
         overlapped' = overlapped \/ (overlapped' <=> overlapped \/ Running # {}), parted' = parted,
         store' = store \/ store'.status \in {"failed", "rejected"},
         job'[j].pc \in {"checking", "fingerprinting", "closing", "waiting", "over"}
  PROVE  CartInv'
  <1>1. CatalogFitsCart'  BY DEF CartInv, CatalogFitsCart, Settled
  <1>2. ASSUME ~overlapped', NEW k \in Running' PROVE Filling(k)'
    <2>1. k = j  BY <1>2
    <2> QED  BY <2>1 DEF Filling
  <1> QED  BY <1>1, <1>2 DEF CartInv

LEMMA FillCart ==
  ASSUME NEW j \in Jobs, ~overlapped' => Running' \subseteq {j} /\ Filling(j)', CatalogFitsCart'
  PROVE  CartInv'
  BY DEF CartInv

LEMMA FingerprintCart ==
  ASSUME SoloInv, CartInv, NEW j \in Jobs, fingerprint(j)
  PROVE  CartInv'
  <1>0. (~overlapped' => Running' \subseteq {j}) /\ store \in Rows /\ TypeOK
    BY SoloJob DEF LaterStep, SoloInv, TypeOK
  <1>1. ASSUME NEW kind \in Kinds,
               job' = [job EXCEPT ![j].pc = "syncing", ![j].kind = kind, ![j].alone = FALSE],
               store' = [store EXCEPT !.status = "onboarding", !.shopify = (kind = "shopify"),
                                      !.transactionalDisabled = FALSE]
        PROVE  CartInv'
    <2>1. job'[j].pc = "syncing" /\ job'[j].kind = kind  BY <1>0, <1>1, KindAt
    <2>2. store'.status = "onboarding" /\ (store'.shopify <=> kind = "shopify")
      BY <1>0, <1>1 DEF Rows
    <2>3. Filling(j)'  BY <2>1, <2>2 DEF Filling
    <2>4. CatalogFitsCart'  BY <2>2 DEF CatalogFitsCart, Settled
    <2> QED  BY <1>0, <2>3, <2>4, FillCart
  <1>2. ASSUME store' = [store EXCEPT !.status = "live", !.shopify = FALSE,
                                      !.transactionalDisabled = TRUE], End(j)
        PROVE  CartInv'
    <2>1. job'[j].pc = "over"  BY <1>0, <1>2, EndAt
    <2>2. ~store'.shopify  BY <1>0, <1>2 DEF Rows
    <2>3. Filling(j)'  BY <2>1 DEF Filling
    <2>4. CatalogFitsCart'  BY <2>2 DEF CatalogFitsCart
    <2> QED  BY <1>0, <2>3, <2>4, FillCart
  <1>3. ASSUME Throw(j), IF LastAttempt(j) THEN fail(store) ELSE UNCHANGED <<store, orphaned>>,
               UNCHANGED <<overlapped, parted>>
        PROVE  CartInv'
    <2>1. job'[j].pc \in {"waiting", "over"}  BY <1>0, <1>3, ThrowAt
    <2>2. store' = store \/ store'.status = "failed"  BY <1>0, <1>3, FailAt
    <2> QED  BY <1>0, <1>3, <2>1, <2>2, IdleCart
  <1> QED  BY <1>1, <1>2, <1>3 DEF fingerprint, Becomes

LEMMA CatalogCart ==
  ASSUME SoloInv, CartInv, NEW j \in Jobs, catalogSync(j)
  PROVE  CartInv'
  <1>0. /\ ~overlapped' => Running' \subseteq {j} /\ Filling(j) /\ store.status = "onboarding"
        /\ store \in Rows /\ TypeOK /\ job[j].pc = "syncing" /\ overlapped' = overlapped
    <2>1. job[j].pc = "syncing" /\ overlapped' = overlapped /\ j \in Running
      BY DEF catalogSync, Running, Alive
    <2> QED  BY <2>1, SoloJob DEF LaterStep, SoloInv, TypeOK, CartInv, Filling
  <1>1. ASSUME NEW source \in Sources,
               job' = [job EXCEPT ![j].pc = "storing", ![j].source = source],
               store' = [store EXCEPT !.goods = {}]
        PROVE  CartInv'
    <2>1. job'[j].pc = "storing" /\ job'[j].kind = job[j].kind  BY <1>0, <1>1, SourceAt
    <2>2. store'.status = store.status /\ store'.shopify = store.shopify /\ store'.goods = {}
      BY <1>0, <1>1 DEF Rows
    <2>3. ~overlapped' => Filling(j)'  BY <1>0, <2>1, <2>2 DEF Filling
    <2>4. CatalogFitsCart'  BY <2>2 DEF CatalogFitsCart
    <2> QED  BY <1>0, <2>3, <2>4, FillCart
  <1>2. ASSUME NEW source \in Sources, Synced(j, source),
               parted' = (parted \/ "crawl" \in store.goods), store' = store
        PROVE  CartInv'
    <2>1. /\ job'[j].pc \in {"finishing", "extracting", "smoking"}
          /\ (job'[j].pc = "finishing") <=> (job[j].kind = "shopify")
      BY <1>0, <1>2, SyncedAt
    <2>2. ~overlapped' => Filling(j)'  BY <1>0, <1>2, <2>1 DEF Filling
    <2>3. CatalogFitsCart'  BY <1>0, <1>2 DEF CatalogFitsCart, Settled
    <2> QED  BY <1>0, <2>2, <2>3, FillCart
  <1>3. ASSUME finishServiceSite(j) PROVE CartInv'
    <2>1. job'[j].pc = "closing" /\ store'.transactionalDisabled  BY <1>0, <1>3, ServiceAt
    <2>2. Filling(j)'  BY <2>1 DEF Filling
    <2>3. CatalogFitsCart'  BY <2>1 DEF CatalogFitsCart
    <2> QED  BY <1>0, <2>2, <2>3, FillCart
  <1>4. ASSUME fail(store), Finish(j) \/ Throw(j), parted' = parted PROVE CartInv'
    <2>1. store'.status = "failed"  BY <1>0, <1>4, FailAt
    <2>2. job'[j].pc \in {"closing", "waiting", "over"}  BY <1>0, <1>4, FinishAt, ThrowAt
    <2> QED  BY <1>0, <1>4, <2>1, <2>2, IdleCart
  <1>5. (IF job[j].kind = "shopify" THEN Sources ELSE {"crawl"}) \subseteq Sources
    BY DEF Sources
  <1> QED  BY <1>1, <1>2, <1>3, <1>4, <1>5 DEF catalogSync

LEMMA WriteCart ==
  ASSUME SoloInv, CartInv, NEW j \in Jobs, writeProducts(j)
  PROVE  CartInv'
  <1>0. /\ ~overlapped' => Running' \subseteq {j} /\ Filling(j) /\ store.status = "onboarding"
        /\ store \in Rows /\ TypeOK /\ job[j].pc = "storing" /\ job[j].source \in Sources
        /\ overlapped' = overlapped /\ parted' = parted
    <2>1. /\ job[j].pc = "storing" /\ overlapped' = overlapped /\ parted' = parted /\ j \in Running
      BY DEF writeProducts, Running, Alive
    <2> QED  BY <2>1, SoloJob DEF LaterStep, SoloInv, SourceKnown, TypeOK, CartInv, Filling
  <1> DEFINE stored == [store EXCEPT !.goods = @ \cup {job[j].source}]
  <1>1. /\ stored \in Rows /\ stored.status = store.status /\ stored.shopify = store.shopify
        /\ stored.goods = store.goods \cup {job[j].source}
    BY <1>0 DEF Rows, Goods
  <1>2. \/ store' = stored /\ Synced(j, job[j].source)
        \/ \E row \in {store, stored} : fail(row) /\ Throw(j)
    BY DEF writeProducts
  <1> HIDE DEF stored
  <1>3. CASE store' = stored /\ Synced(j, job[j].source)
    <2>1. /\ job'[j].pc \in {"finishing", "extracting", "smoking"}
          /\ (job'[j].pc = "finishing") <=> (job[j].kind = "shopify")
          /\ job[j].kind = "shopify" => job'[j].source = job[j].source
      BY <1>0, <1>3, SyncedAt
    <2>2. ~overlapped' => Filling(j)'  BY <1>0, <1>1, <1>3, <2>1 DEF Filling
    <2>3. CatalogFitsCart'  BY <1>0, <1>1, <1>3 DEF CatalogFitsCart, Settled
    <2> QED  BY <1>0, <2>2, <2>3, FillCart
  <1>4. ASSUME NEW row \in {store, stored}, fail(row), Throw(j) PROVE CartInv'
    <2>1. store'.status = "failed"  BY <1>0, <1>1, <1>4, FailAt
    <2>2. job'[j].pc \in {"waiting", "over"}  BY <1>0, <1>4, ThrowAt
    <2> QED  BY <1>0, <2>1, <2>2, IdleCart
  <1> QED  BY <1>2, <1>3, <1>4

LEMMA ExtractCart ==
  ASSUME SoloInv, CartInv, NEW j \in Jobs, selectorExtract(j)
  PROVE  CartInv'
  <1>0. /\ ~overlapped' => Running' \subseteq {j} /\ ~store.shopify /\ store.status = "onboarding"
        /\ store \in Rows /\ TypeOK /\ job[j].pc = "extracting"
        /\ overlapped' = overlapped /\ parted' = parted
    <2>1. /\ job[j].pc = "extracting" /\ overlapped' = overlapped /\ parted' = parted /\ j \in Running
      BY DEF selectorExtract, Running, Alive
    <2> QED  BY <2>1, SoloJob DEF LaterStep, SoloInv, TypeOK, CartInv, Filling
  <1>1. CASE finishServiceSite(j)
    <2>1. job'[j].pc = "closing" /\ store'.transactionalDisabled  BY <1>0, <1>1, ServiceAt
    <2>2. Filling(j)'  BY <2>1 DEF Filling
    <2>3. CatalogFitsCart'  BY <2>1 DEF CatalogFitsCart
    <2> QED  BY <1>0, <2>2, <2>3, FillCart
  <1>2. CASE store' = [store EXCEPT !.transactionalDisabled = FALSE] /\ To(j, "smoking")
    <2>1. job'[j].pc = "smoking"  BY <1>0, <1>2, ToAt DEF Labels
    <2>2. store'.status = store.status /\ store'.shopify = store.shopify  BY <1>0, <1>2 DEF Rows
    <2>3. ~overlapped' => Filling(j)'  BY <1>0, <2>1, <2>2 DEF Filling
    <2>4. CatalogFitsCart'  BY <1>0, <2>2 DEF CatalogFitsCart
    <2> QED  BY <1>0, <2>3, <2>4, FillCart
  <1>3. CASE Becomes(Degraded(store), FALSE) /\ End(j)
    <2>1. store'.shopify = store.shopify  BY <1>0, <1>3 DEF Becomes, Degraded, Rows
    <2>2. job'[j].pc = "over"  BY <1>0, <1>3, EndAt
    <2>3. Filling(j)'  BY <2>2 DEF Filling
    <2>4. CatalogFitsCart'  BY <1>0, <2>1 DEF CatalogFitsCart
    <2> QED  BY <1>0, <2>3, <2>4, FillCart
  <1>4. CASE fail(store) /\ Throw(j)
    <2>1. store'.status = "failed"  BY <1>0, <1>4, FailAt
    <2>2. job'[j].pc \in {"waiting", "over"}  BY <1>0, <1>4, ThrowAt
    <2> QED  BY <1>0, <2>1, <2>2, IdleCart
  <1> QED  BY <1>1, <1>2, <1>3, <1>4 DEF selectorExtract

LEMMA SmokeCart ==
  ASSUME SoloInv, CartInv, NEW j \in Jobs, smokeTest(j)
  PROVE  CartInv'
  <1>0. /\ ~overlapped' => Running' \subseteq {j} /\ ~store.shopify
        /\ store \in Rows /\ TypeOK /\ overlapped' = overlapped
    <2>1. job[j].pc = "smoking" /\ overlapped' = overlapped /\ j \in Running
      BY DEF smokeTest, Running, Alive
    <2> QED  BY <2>1, SoloJob DEF LaterStep, SoloInv, TypeOK, CartInv, Filling
  <1>1. store'.shopify = store.shopify  BY <1>0 DEF smokeTest, Becomes, Degraded, Rows
  <1>2. job'[j].pc = "closing"  BY <1>0, FinishAt DEF smokeTest
  <1>3. Filling(j)'  BY <1>2 DEF Filling
  <1>4. CatalogFitsCart'  BY <1>0, <1>1 DEF CatalogFitsCart
  <1> QED  BY <1>0, <1>3, <1>4, FillCart

LEMMA ShopifyCart ==
  ASSUME SoloInv, CartInv, NEW j \in Jobs, FinishShopify(j)
  PROVE  CartInv'
  <1>0. /\ ~overlapped' => Running' \subseteq {j} /\ Filling(j)
        /\ store \in Rows /\ TypeOK /\ job[j].pc = "finishing"
        /\ overlapped' = overlapped /\ parted' = parted
    <2>1. /\ job[j].pc = "finishing" /\ overlapped' = overlapped /\ parted' = parted /\ j \in Running
      BY DEF FinishShopify, Running, Alive
    <2> QED  BY <2>1, SoloJob DEF LaterStep, SoloInv, TypeOK, CartInv
  <1>1. /\ store'.goods = store.goods
        /\ job[j].source # "storefront" => store'.transactionalDisabled
    <2> DEFINE outcome == shopifyFinalizeOutcome(job[j].source)
    <2>1. job[j].source # "storefront" => outcome[2]  BY DEF shopifyFinalizeOutcome
    <2>2. store' = [store EXCEPT !.status = outcome[1], !.transactionalDisabled = outcome[2]]
      BY DEF FinishShopify, Becomes
    <2> HIDE DEF outcome
    <2> QED  BY <1>0, <2>1, <2>2 DEF Rows
  <1>2. job'[j].pc = "closing"  BY <1>0, FinishAt DEF FinishShopify
  <1>3. Filling(j)'  BY <1>2 DEF Filling
  <1>4. CatalogFitsCart'
    <2> SUFFICES ASSUME "crawl" \in store'.goods, ~overlapped', ~parted'
                 PROVE  store'.transactionalDisabled
      BY DEF CatalogFitsCart
    <2>1. job[j].source # "storefront"  BY <1>0, <1>1 DEF Filling
    <2> QED  BY <1>1, <2>1
  <1> QED  BY <1>0, <1>3, <1>4, FillCart

LEMMA CartStep ==
  ASSUME SoloInv, CartInv, [Next]_vars
  PROVE  CartInv'
  <1>1. CASE RequestStep  BY <1>1, RequestCart
  <1>2. ASSUME NEW j \in Jobs, Start(j) PROVE CartInv'
    <2>1. /\ store' = store /\ parted' = parted /\ overlapped' = (overlapped \/ Running # {})
      BY <1>2 DEF Start
    <2>2. job'[j].pc = "checking"  BY <1>2, StartAt DEF SoloInv
    <2> QED  BY <1>2, <2>1, <2>2, SoloJob, IdleCart
  <1>3. ASSUME NEW j \in Jobs, safetyCheck(j) PROVE CartInv'
    <2>1. /\ overlapped' = overlapped /\ parted' = parted
          /\ store' = store \/ store'.status = "rejected"
          /\ job'[j].pc \in {"fingerprinting", "closing"}
      BY <1>3, SafetyFacts DEF SoloInv
    <2> QED  BY <1>3, <2>1, SoloJob, IdleCart
  <1>4. ASSUME NEW j \in Jobs, Close(j) PROVE CartInv'
    <2>1. overlapped' = overlapped /\ parted' = parted /\ store' = store
      BY <1>4 DEF Close, history
    <2>2. job'[j].pc = "over"  BY <1>4, EndAt DEF Close, SoloInv
    <2> QED  BY <1>4, <2>1, <2>2, SoloJob, IdleCart DEF LaterStep
  <1>5. ASSUME NEW j \in Jobs, j \in Running, JobBreaks(j) PROVE CartInv'
    <2>1. overlapped' = overlapped /\ parted' = parted /\ store' = store
      BY <1>5 DEF JobBreaks, Becomes
    <2>2. job'[j].pc \in {"waiting", "over"}  BY <1>5, ThrowAt DEF JobBreaks, SoloInv
    <2> QED  BY <1>5, <2>1, <2>2, SoloJob, IdleCart DEF LaterStep
  <1>6. CASE UNCHANGED vars
    BY <1>6 DEF vars, CartInv, CatalogFitsCart, Settled, Filling, Running, Alive
  <1> QED
    BY <1>1, <1>2, <1>3, <1>4, <1>5, <1>6, FingerprintCart, CatalogCart, WriteCart, ExtractCart,
       SmokeCart, ShopifyCart, WhoSteps DEF LaterStep

-------------------------------------------------------------------------------
(* The theorems *)

LEMMA SoloStep == SoloInv /\ [Next]_vars => SoloInv'
  <1> SUFFICES ASSUME SoloInv, [Next]_vars PROVE SoloInv'  OBVIOUS
  <1>1. CASE UNCHANGED vars
    BY <1>1 DEF vars, SoloInv, TypeOK, SourceKnown, AloneMeans, OneByOne, CheckedBefore,
                ServedStoreIsSafe, Settled, Running, Alive
  <1> QED  BY <1>1, WhoSteps, RequestSolo, StartSolo, SafetySolo, LaterSolo

LEMMA SoloAlways == Spec => []SoloInv
  <1>1. Init => SoloInv  BY SoloInit
  <1>2. SoloInv /\ [Next]_vars => SoloInv'  BY SoloStep
  <1> QED  BY <1>1, <1>2, PTL DEF Spec

\* Every variable keeps its type, whoever writes the row and whatever fails: a job is never
\* given more attempts than the queue allows, and never stores a catalog it has not fetched.
THEOREM TypeCorrect == Spec => []TypeOK
  <1>1. SoloInv => TypeOK  BY DEF SoloInv
  <1> QED  BY <1>1, SoloAlways, PTL

\* A store in service passed the last safety check made of it, unless jobs of it ran side by
\* side.  Inductive with: a job that is alone has not chosen an adapter yet, jobs that do not
\* overlap run one at a time, and the one at work has seen a clean check.
THEOREM ServedWasChecked == Spec => []ServedStoreIsSafe
  <1>1. SoloInv => ServedStoreIsSafe  BY DEF SoloInv
  <1> QED  BY <1>1, SoloAlways, PTL

\* However many pages load the widget at once, the store is started once for being new: the
\* compare-and-swap lets one ping through, and no one makes the store new again.
THEOREM StartsOnce == Spec => []PendingStartsOnce
  <1>1. Init => StartedOnce  BY DEF Init, StartedOnce
  <1>2. SoloInv /\ StartedOnce /\ [Next]_vars => StartedOnce'  BY OnceStep
  <1>3. StartedOnce => PendingStartsOnce  BY DEF StartedOnce, PendingStartsOnce
  <1> QED  BY <1>1, <1>2, <1>3, SoloAlways, PTL DEF Spec

\* A store that says "onboarding" has a job or somebody about to queue one, or was lost in one
\* of the ways named; for any number of pings, jobs and attempts.
THEOREM NeverLeftWaiting == Spec => []OnboardingIsWorkedOn
  <1>1. Init => Room /\ Awaited
    <2> SUFFICES ASSUME Init PROVE Room /\ Awaited  OBVIOUS
    <2>1. Asked = {} /\ Promised = {}  BY DEF Init, Asked, Promised, NoJob
    <2>2. Cardinality({}) = 0  BY FS_EmptySet
    <2>3. MaxJobs \in Nat  BY OnboardingAssumption DEF OnboardingAssumption
    <2>4. Room  BY <2>1, <2>2, <2>3, AskedAndPromised DEF Room
    <2> QED  BY <2>4 DEF Init, Awaited
  <1>2. SoloInv /\ Room /\ Awaited /\ [Next]_vars => Room' /\ Awaited'
    <2> SUFFICES ASSUME SoloInv, Room, Awaited, [Next]_vars PROVE Room' /\ Awaited'  OBVIOUS
    <2>1. CASE UNCHANGED vars
      BY <2>1 DEF vars, Room, Queued, Promised, Awaited, Undecided, Adding
    <2> QED  BY <2>1, WhoSteps, RequestAwaited, JobAwaited DEF SoloInv
  <1>3. Awaited => OnboardingIsWorkedOn
    BY DEF Awaited, OnboardingIsWorkedOn, Undecided, Alive
  <1> QED  BY <1>1, <1>2, <1>3, SoloAlways, PTL DEF Spec

\* A Shopify store in service whose cart is on does not have the catalog of a crawl, which
\* has no variant ids, unless jobs ran side by side or the configuration and the catalog are
\* not of one job; whatever the reads of its site and Shopify's webhooks put beside it.
THEOREM CartFitsCatalog == Spec => []CatalogFitsCart
  <1>1. Init => CartInv
    BY DEF Init, CartInv, CatalogFitsCart, Settled, Running, Alive, NoJob
  <1>2. SoloInv /\ CartInv /\ [Next]_vars => CartInv'  BY CartStep
  <1>3. CartInv => CatalogFitsCart  BY DEF CartInv
  <1> QED  BY <1>1, <1>2, <1>3, SoloAlways, PTL DEF Spec
===============================================================================
