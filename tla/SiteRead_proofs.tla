---------------------------- MODULE SiteRead_proofs ----------------------------
(***************************************************************************)
(* Proofs about SiteRead, for any pages, crawls, jobs and failures.        *)
(***************************************************************************)
EXTENDS SiteRead, TLAPS

Idle == {"absent", "waiting", "done", "failed"}

\* Job j goes to a label, and no other job changes.
Moves(j, label) ==
  /\ job' \in [Jobs -> Job]
  /\ job'[j].pc = label
  /\ \A i \in Jobs \ {j} : job'[i] = job[i]

\* Replacing one field keeps a job a job.
LEMMA JobFields ==
  ASSUME NEW r \in Job
  PROVE  /\ \A l \in Labels : [r EXCEPT !.pc = l] \in Job
         /\ \A n \in 0..Attempts : [r EXCEPT !.tries = n] \in Job
         /\ \A n \in 0..(MaxStalls + 1) : [r EXCEPT !.stalls = n] \in Job
         /\ \A s \in SUBSET Pages : [r EXCEPT !.todo = s] \in Job
         /\ \A s \in SUBSET Pages : [r EXCEPT !.skip = s] \in Job
         /\ \A s \in SUBSET Pages : [r EXCEPT !.keep = s] \in Job
         /\ \A b \in BOOLEAN : [r EXCEPT !.got = b] \in Job
         /\ \A b \in BOOLEAN : [r EXCEPT !.early = b] \in Job
         /\ \A n \in 0..(CheckEvery - 1) : [r EXCEPT !.since = n] \in Job
<1>1. \A l \in Labels : [r EXCEPT !.pc = l] \in Job BY DEF Job
<1>2. \A n \in 0..Attempts : [r EXCEPT !.tries = n] \in Job BY DEF Job
<1>3. \A n \in 0..(MaxStalls + 1) : [r EXCEPT !.stalls = n] \in Job BY DEF Job
<1>4. \A s \in SUBSET Pages : [r EXCEPT !.todo = s] \in Job BY DEF Job
<1>5. \A s \in SUBSET Pages : [r EXCEPT !.skip = s] \in Job BY DEF Job
<1>6. \A s \in SUBSET Pages : [r EXCEPT !.keep = s] \in Job BY DEF Job
<1>7. \A b \in BOOLEAN : [r EXCEPT !.got = b] \in Job BY DEF Job
<1>8. \A b \in BOOLEAN : [r EXCEPT !.early = b] \in Job BY DEF Job
<1>9. \A n \in 0..(CheckEvery - 1) : [r EXCEPT !.since = n] \in Job BY DEF Job
<1>. QED BY <1>1, <1>2, <1>3, <1>4, <1>5, <1>6, <1>7, <1>8, <1>9

LEMMA FreshIsJob == Fresh \in Job
BY SiteReadAssumption DEF Fresh, Job, Labels

\* A job that starts anew is a job, at the label it is given.
LEMMA AnewIsJob ==
  ASSUME NEW l \in Labels, NEW n \in 0..Attempts, NEW m \in 0..(MaxStalls + 1)
  PROVE  /\ Anew(l, n, m) \in Job
         /\ Anew(l, n, m).pc = l
         /\ Anew(l, n, m).tries = n
         /\ Anew(l, n, m).stalls = m
<1>. DEFINE r1 == [Fresh EXCEPT !.pc = l]
            r2 == [r1 EXCEPT !.tries = n]
            r3 == [r2 EXCEPT !.stalls = m]
<1>1. r1 \in Job /\ r1.pc = l
  <2>1. r1 \in Job BY FreshIsJob, JobFields
  <2>2. r1.pc = l BY DEF Fresh
  <2>. QED BY <2>1, <2>2
<1>2. r2 \in Job /\ r2.pc = l /\ r2.tries = n
  <2>. HIDE DEF r1
  <2>1. r2 \in Job BY <1>1, JobFields
  <2>2. r2.pc = l /\ r2.tries = n BY <1>1 DEF Job
  <2>. QED BY <2>1, <2>2
<1>3. r3 \in Job /\ r3.pc = l /\ r3.tries = n /\ r3.stalls = m
  <2>. HIDE DEF r1, r2
  <2>1. r3 \in Job BY <1>2, JobFields
  <2>2. r3.pc = l /\ r3.tries = n /\ r3.stalls = m BY <1>2 DEF Job
  <2>. QED BY <2>1, <2>2
<1>4. Anew(l, n, m) = r3 BY DEF Anew
<1>. HIDE DEF r3
<1>. QED BY <1>3, <1>4

\* Assigning one job moves it.
LEMMA AssignMoves ==
  ASSUME TypeOK, NEW j \in Jobs, NEW r \in Job, Becomes(j, r)
  PROVE  Moves(j, r.pc)
BY DEF TypeOK, Moves, Becomes

\* A job that neither failed nor stopped: its attempts and stalls are as they were.
MovesOn(j, label) ==
  /\ Moves(j, label)
  /\ job'[j].tries = job[j].tries
  /\ job'[j].stalls = job[j].stalls

LEMMA AssignMovesOn ==
  ASSUME TypeOK, NEW j \in Jobs, NEW r \in Job, Becomes(j, r),
         r.tries = job[j].tries, r.stalls = job[j].stalls
  PROVE  MovesOn(j, r.pc)
BY AssignMoves DEF TypeOK, MovesOn, Becomes

LEMMA GotoMoves ==
  ASSUME TypeOK, NEW j \in Jobs, NEW l \in Labels, Goto(j, l)
  PROVE  MovesOn(j, l)
<1>. DEFINE r == [job[j] EXCEPT !.pc = l]
<1>1. job[j] \in Job BY DEF TypeOK
<1>2. r \in Job BY <1>1, JobFields
<1>3. r.pc = l /\ r.tries = job[j].tries /\ r.stalls = job[j].stalls BY <1>1 DEF Job
<1>4. Becomes(j, r) BY DEF Goto
<1>. HIDE DEF r
<1>. QED BY <1>2, <1>3, <1>4, AssignMovesOn

LEMMA RetriedType ==
  ASSUME TypeOK, NEW j \in Jobs, job[j].tries > 0
  PROVE  /\ Retried(j) \in Job
         /\ Retried(j).pc \in {"waiting", "failed"}
         /\ Retried(j).pc = "waiting" => Retried(j).tries > 0
         /\ Retried(j).stalls = job[j].stalls
<1>1. job[j].tries \in 0..Attempts /\ job[j].stalls \in 0..(MaxStalls + 1)
  BY DEF TypeOK, Job
<1>2. job[j].tries - 1 \in 0..Attempts BY <1>1, SiteReadAssumption
<1>. DEFINE l == IF job[j].tries > 1 THEN "waiting" ELSE "failed"
<1>3. l \in Labels /\ l \in {"waiting", "failed"} BY DEF Labels
<1>4. l = "waiting" => job[j].tries - 1 > 0 BY <1>1
<1>5. Retried(j) = Anew(l, job[j].tries - 1, job[j].stalls)
  BY DEF Retried
<1>. HIDE DEF l
<1>. QED BY <1>1, <1>2, <1>3, <1>4, <1>5, AnewIsJob

-------------------------------------------------------------------------------
\* What makes the properties inductive: a job that can still run has attempts left; only a
\* crawl that exists has an extract, and gets it once, as an exclusion gets its apply job;
\* and no page is newer than the newest crawl or, while a read is at work, than that read.
SpareAt(j) == job[j].pc # "failed" => job[j].tries > 0 /\ job[j].stalls <= MaxStalls
Spare == \A j \in Jobs : SpareAt(j)
Queued ==
  /\ \A k \in Crawls : job[k].pc # "absent" => k <= Len(crawls)
  /\ crawlJob = "active" => crawls # <<>> /\ job[Len(crawls)].pc = "absent"
  /\ \A a \in Applies : post[a].pc \in {"new", "saved"} => job[a].pc = "absent"
AtWork == {"begun", "reading", "rechecked", "pruned", "closing"}
NoneNewer ==
  /\ \A p \in Pages : kb[p] <= Len(crawls)
  /\ \A k \in Crawls : job[k].pc \in AtWork => \A p \in Pages : kb[p] <= k

StoreInv == TypeOK /\ ReadsNeverOverlap /\ Spare /\ Queued /\ NoneNewer

\* Work on its fields leaves a job at its label, with its attempts and stalls.
Alike(r, s) == s \in Job /\ s.pc = r.pc /\ s.tries = r.tries /\ s.stalls = r.stalls

LEMMA FilledAlike ==
  ASSUME NEW r \in Job
  PROVE  /\ \A s \in SUBSET Pages : Alike(r, [r EXCEPT !.todo = s])
         /\ \A s \in SUBSET Pages : Alike(r, [r EXCEPT !.skip = s])
         /\ \A s \in SUBSET Pages : Alike(r, [r EXCEPT !.keep = s])
         /\ \A b \in BOOLEAN : Alike(r, [r EXCEPT !.got = b])
         /\ \A b \in BOOLEAN : Alike(r, [r EXCEPT !.early = b])
         /\ \A n \in 0..(CheckEvery - 1) : Alike(r, [r EXCEPT !.since = n])
<1>1. \A s \in SUBSET Pages : Alike(r, [r EXCEPT !.todo = s])
  BY SMTT(30), JobFields DEF Job, Alike
<1>2. \A s \in SUBSET Pages : Alike(r, [r EXCEPT !.skip = s])
  BY SMTT(30), JobFields DEF Job, Alike
<1>3. \A s \in SUBSET Pages : Alike(r, [r EXCEPT !.keep = s])
  BY JobFields DEF Job, Alike
<1>4. \A b \in BOOLEAN : Alike(r, [r EXCEPT !.got = b])
  BY SMTT(30), JobFields DEF Job, Alike
<1>5. \A b \in BOOLEAN : Alike(r, [r EXCEPT !.early = b])
  BY SMTT(30), JobFields DEF Job, Alike
<1>6. \A n \in 0..(CheckEvery - 1) : Alike(r, [r EXCEPT !.since = n])
  BY SMTT(30), JobFields DEF Job, Alike
<1>. QED BY <1>1, <1>2, <1>3, <1>4, <1>5, <1>6

\* A job goes to a label and has its fields filled.
LEMMA LabelledJob ==
  ASSUME NEW r \in Job, NEW l \in Labels
  PROVE  LET s == [r EXCEPT !.pc = l]
         IN s \in Job /\ s.pc = l /\ s.tries = r.tries /\ s.stalls = r.stalls
<1>. DEFINE s == [r EXCEPT !.pc = l]
<1>1. s \in Job BY JobFields
<1>2. s.pc = l /\ s.tries = r.tries /\ s.stalls = r.stalls BY DEF Job
<1>. QED BY <1>1, <1>2

Row == [status : Statuses, pages : SUBSET Pages]

\* Every step of a read under way moves its job from one label of a holder to another.
LEMMA ReadMoves ==
  ASSUME StoreInv, NEW k \in Crawls, ReadStep(k)
  PROVE  /\ Holding(k)
         /\ \E l \in Labels \ Idle : MovesOn(k, l)
         /\ UNCHANGED <<excluded, crawlJob, lock, post>>
<1>0. k \in Jobs /\ TypeOK /\ job[k] \in Job BY DEF StoreInv, TypeOK, Jobs
<1>1. CASE BeginRead(k)
  <2>1. k \in 1..Len(crawls)
    BY <1>1, SiteReadAssumption DEF BeginRead, StoreInv, Queued, Crawls
  <2>2. crawls[k].pages \in SUBSET Pages
    <3>1. crawls \in Seq(Row) BY <1>0 DEF TypeOK, Row
    <3>2. crawls[k] \in Row BY <2>1, <3>1
    <3>. QED BY <3>2 DEF Row
  <2>3. excluded \in SUBSET Pages BY <1>0 DEF TypeOK
  <2>. DEFINE r1 == [job[k] EXCEPT !.pc = "reading"]
              r2 == [r1 EXCEPT !.todo = crawls[k].pages]
              r3 == [r2 EXCEPT !.skip = excluded]
  <2>4. r1 \in Job /\ r1.pc = "reading" /\ r1.tries = job[k].tries /\ r1.stalls = job[k].stalls
    BY <1>0, LabelledJob DEF Labels
  <2>5. Alike(r1, r2)
    <3>. HIDE DEF r1
    <3>. QED BY <2>2, <2>4, FilledAlike
  <2>6. Alike(r2, r3)
    <3>1. r2 \in Job BY <2>5 DEF Alike
    <3>. HIDE DEF r2
    <3>. QED BY <2>3, <3>1, FilledAlike
  <2>7. Becomes(k, r3) BY <1>1 DEF BeginRead
  <2>. HIDE DEF r1, r2, r3
  <2>8. r3 \in Job /\ r3.pc = "reading" /\ r3.tries = job[k].tries /\ r3.stalls = job[k].stalls
    BY <2>4, <2>5, <2>6 DEF Alike
  <2>9. MovesOn(k, "reading") BY <1>0, <2>7, <2>8, AssignMovesOn
  <2>. QED BY <1>1, <2>9 DEF BeginRead, Holding, Labels, Idle
<1>2. CASE EarlySummary(k)
  <2>. DEFINE r == [job[k] EXCEPT !.early = TRUE]
  <2>1. Alike(job[k], r) BY <1>0, FilledAlike
  <2>2. Becomes(k, r) /\ job[k].pc = "reading" BY <1>2 DEF EarlySummary
  <2>. HIDE DEF r
  <2>3. MovesOn(k, r.pc) BY <1>0, <2>1, <2>2, AssignMovesOn DEF Alike
  <2>4. r.pc = "reading" BY <2>1, <2>2 DEF Alike
  <2>. QED BY <1>2, <2>3, <2>4 DEF EarlySummary, Holding, Labels, Idle
<1>3. CASE StopReading(k)
  BY <1>0, <1>3, GotoMoves DEF StopReading, GiveUp, Holding, Labels, Idle
<1>4. CASE ReadPage(k)
  <2>0. job[k].pc = "reading" BY <1>4 DEF ReadPage
  <2>1. PICK p \in NextPages(k), ok \in BOOLEAN :
          Becomes(k, [job[k] EXCEPT
            !.todo = @ \ {p}, !.got = @ \/ ok, !.keep = @ \cup ({p} \ job[k].skip),
            !.since = IF CheckDue(k) THEN 0 ELSE @ + 1])
    BY <1>4 DEF ReadPage
  <2>. DEFINE todo == job[k].todo \ {p}
              got == job[k].got \/ ok
              keep == job[k].keep \cup ({p} \ job[k].skip)
              since == IF CheckDue(k) THEN 0 ELSE job[k].since + 1
  <2>2. p \in Pages BY <1>0, <2>1 DEF NextPages, Job
  <2>3. todo \in SUBSET Pages /\ keep \in SUBSET Pages BY <1>0, <2>1, <2>2 DEF Job
  <2>4. got \in BOOLEAN BY <1>0, <2>1 DEF Job
  <2>5. since \in 0..(CheckEvery - 1) BY <1>0, SiteReadAssumption DEF Job, CheckDue
  <2>. DEFINE r1 == [job[k] EXCEPT !.todo = todo]
              r2 == [r1 EXCEPT !.got = got]
              r3 == [r2 EXCEPT !.keep = keep]
              r4 == [r3 EXCEPT !.since = since]
  <2>6. Becomes(k, r4)
    <3>. DEFINE r == [job[k] EXCEPT !.todo = todo, !.got = got, !.keep = keep, !.since = since]
    <3>1. Becomes(k, r) BY <2>1
    <3>2. r = r4 OBVIOUS
    <3>. QED BY <3>1, <3>2
  <2>. HIDE DEF todo, got, keep, since
  <2>7. Alike(job[k], r1) BY <1>0, <2>3, FilledAlike
  <2>8. Alike(r1, r2)
    <3>1. r1 \in Job BY <2>7 DEF Alike
    <3>. HIDE DEF r1
    <3>. QED BY <2>4, <3>1, FilledAlike
  <2>9. Alike(r2, r3)
    <3>1. r2 \in Job BY <2>8 DEF Alike
    <3>. HIDE DEF r2
    <3>. QED BY <2>3, <3>1, FilledAlike
  <2>10. Alike(r3, r4)
    <3>1. r3 \in Job BY <2>9 DEF Alike
    <3>. HIDE DEF r3
    <3>. QED BY <2>5, <3>1, FilledAlike
  <2>. HIDE DEF r1, r2, r3, r4
  <2>11. r4 \in Job /\ r4.pc = "reading" /\ r4.tries = job[k].tries /\ r4.stalls = job[k].stalls
    BY <2>0, <2>7, <2>8, <2>9, <2>10 DEF Alike
  <2>12. MovesOn(k, "reading") BY <1>0, <2>6, <2>11, AssignMovesOn
  <2>. QED BY <1>4, <2>0, <2>12 DEF ReadPage, Holding, Labels, Idle
<1>5. CASE Recheck(k)
  <2>. DEFINE keep == job[k].keep \ excluded
              r1 == [job[k] EXCEPT !.pc = "rechecked"]
              r2 == [r1 EXCEPT !.keep = keep]
  <2>1. r1 \in Job /\ r1.pc = "rechecked" /\ r1.tries = job[k].tries /\ r1.stalls = job[k].stalls
    BY <1>0, LabelledJob DEF Labels
  <2>2. keep \in SUBSET Pages BY <1>0 DEF Job
  <2>3. Becomes(k, r2)
    <3>1. Becomes(k, [job[k] EXCEPT !.pc = "rechecked", !.keep = keep])
      BY <1>5 DEF Recheck
    <3>. QED BY <3>1
  <2>. HIDE DEF keep
  <2>4. Alike(r1, r2)
    <3>. HIDE DEF r1
    <3>. QED BY <2>1, <2>2, FilledAlike
  <2>. HIDE DEF r1, r2
  <2>5. r2 \in Job /\ r2.pc = "rechecked" /\ r2.tries = job[k].tries /\ r2.stalls = job[k].stalls
    BY <2>1, <2>4 DEF Alike
  <2>6. MovesOn(k, "rechecked") BY <1>0, <2>3, <2>5, AssignMovesOn
  <2>. QED BY <1>5, <2>6 DEF Recheck, Holding, Labels, Idle
<1>6. CASE Prune(k)
  BY <1>0, <1>6, GotoMoves DEF Prune, Holding, Labels, Idle
<1>7. CASE SummariseRead(k)
  BY <1>0, <1>7, GotoMoves DEF SummariseRead, Holding, Labels, Idle
<1>8. CASE CloseRead(k)
  BY <1>0, <1>8, GotoMoves DEF CloseRead, Holding, Labels, Idle
<1>9. CASE NothingRead(k)
  BY <1>0, <1>9, GotoMoves DEF NothingRead, Holding, Labels, Idle
<1>10. CASE ReadThrows(k)
  BY <1>0, <1>10, GotoMoves DEF ReadThrows, Holding, Labels, Idle
<1>11. CASE CheckNewest(k)
  <2>1. PICK l \in {"releasing", "begun"} : Goto(k, l) BY <1>11 DEF CheckNewest, GiveUp
  <2>2. MovesOn(k, l) BY <1>0, <2>1, GotoMoves DEF Labels
  <2>. QED BY <1>11, <2>2 DEF CheckNewest, Holding, Labels, Idle
<1>. QED BY <1>1, <1>2, <1>3, <1>4, <1>5, <1>6, <1>7, <1>8, <1>9, <1>10, <1>11 DEF ReadStep

\* So does every step of an apply-exclusions job under way.
LEMMA ApplyMoves ==
  ASSUME StoreInv, NEW a \in Applies, ApplyStep(a)
  PROVE  /\ Holding(a)
         /\ \E l \in Labels \ Idle : MovesOn(a, l)
         /\ UNCHANGED <<excluded, crawlJob, crawls, lock, post>>
<1>0. a \in Jobs /\ TypeOK /\ job[a] \in Job BY DEF StoreInv, TypeOK, Jobs
<1>1. CASE LookUp(a)
  <2>. DEFINE drop == {p \in excluded : kb[p] # 0}
              r1 == [job[a] EXCEPT !.pc = "dropping"]
              r2 == [r1 EXCEPT !.todo = drop]
  <2>1. r1 \in Job /\ r1.pc = "dropping" /\ r1.tries = job[a].tries /\ r1.stalls = job[a].stalls
    BY <1>0, LabelledJob DEF Labels
  <2>2. drop \in SUBSET Pages BY <1>0 DEF TypeOK
  <2>3. Becomes(a, r2) BY <1>1 DEF LookUp
  <2>. HIDE DEF drop
  <2>4. Alike(r1, r2)
    <3>. HIDE DEF r1
    <3>. QED BY <2>1, <2>2, FilledAlike
  <2>. HIDE DEF r1, r2
  <2>5. r2 \in Job /\ r2.pc = "dropping" /\ r2.tries = job[a].tries /\ r2.stalls = job[a].stalls
    BY <2>1, <2>4 DEF Alike
  <2>6. MovesOn(a, "dropping") BY <1>0, <2>3, <2>5, AssignMovesOn
  <2>. QED BY <1>1, <2>6 DEF LookUp, Holding, Labels, Idle
<1>2. CASE Drop(a)
  BY <1>0, <1>2, GotoMoves DEF Drop, Holding, Labels, Idle
<1>3. CASE SummariseApply(a)
  BY <1>0, <1>3, GotoMoves DEF SummariseApply, Holding, Labels, Idle
<1>4. CASE ApplyThrows(a)
  BY <1>0, <1>4, GotoMoves DEF ApplyThrows, Holding, Labels, Idle
<1>. QED BY <1>1, <1>2, <1>3, <1>4 DEF ApplyStep

-------------------------------------------------------------------------------
\* The life of a job: queued, perhaps more than once, it takes the lock when nobody has it,
\* works under it, and leaves it.
Life(j, label) ==
  \/ job[j].pc \in {"absent", "waiting"} /\ label \in {"waiting", "failed"} /\ lock' = lock
  \/ job[j].pc = "waiting" /\ label = "locked" /\ lock = NoLock /\ lock' = j
  \/ Holding(j) /\ label \in {"waiting", "failed", "done"} /\ lock' \in {NoLock, Orphan}
  \/ Holding(j) /\ label \notin Idle /\ lock' = lock
LivesOn(j) == \E l \in Labels : Moves(j, l) /\ SpareAt(j)' /\ Life(j, l)

LEMMA MovesOnSpare ==
  ASSUME StoreInv, NEW j \in Jobs, NEW l \in Labels, MovesOn(j, l), job[j].pc # "failed"
  PROVE  SpareAt(j)'
BY DEF StoreInv, Spare, SpareAt, MovesOn

LEMMA QueueExtractLives ==
  ASSUME StoreInv, QueueExtract
  PROVE  \E k \in Crawls : k = Len(crawls) /\ LivesOn(k) /\ Moves(k, "waiting")
<1>1. TypeOK /\ job[Len(crawls)].pc = "absent" /\ crawls # <<>>
  BY DEF StoreInv, Queued, QueueExtract
<1>2. PICK k \in Crawls : k = Len(crawls)
  BY <1>1, SiteReadAssumption DEF TypeOK, Crawls
<1>3. k \in Jobs BY DEF Jobs
<1>4. MovesOn(k, "waiting") BY <1>1, <1>2, <1>3, GotoMoves DEF QueueExtract, Labels
<1>5. SpareAt(k)' BY <1>1, <1>2, <1>3, <1>4, MovesOnSpare DEF Labels
<1>6. Life(k, "waiting") BY <1>1, <1>2 DEF QueueExtract, Life
<1>7. LivesOn(k) BY <1>4, <1>5, <1>6 DEF LivesOn, MovesOn, Labels
<1>. QED BY <1>2, <1>4, <1>7 DEF MovesOn

LEMMA QueueApplyLives ==
  ASSUME StoreInv, NEW a \in Applies, QueueApply(a)
  PROVE  LivesOn(a)
<1>1. TypeOK /\ job[a].pc = "absent" /\ a \in Jobs
  BY DEF StoreInv, Queued, QueueApply, Jobs
<1>2. MovesOn(a, "waiting") BY <1>1, GotoMoves DEF QueueApply, Labels
<1>3. SpareAt(a)' BY <1>1, <1>2, MovesOnSpare DEF Labels
<1>4. Life(a, "waiting") BY <1>1 DEF QueueApply, Life
<1>. QED BY <1>2, <1>3, <1>4 DEF LivesOn, MovesOn, Labels

LEMMA AcquireLives ==
  ASSUME StoreInv, NEW j \in Jobs, Acquire(j)
  PROVE  LivesOn(j)
<1>1. TypeOK /\ job[j].pc = "waiting" BY DEF StoreInv, Acquire
<1>2. MovesOn(j, "locked") BY <1>1, GotoMoves DEF Acquire, Labels
<1>3. SpareAt(j)' BY <1>1, <1>2, MovesOnSpare DEF Labels
<1>4. Life(j, "locked") BY <1>1 DEF Acquire, Life
<1>. QED BY <1>2, <1>3, <1>4 DEF LivesOn, MovesOn, Labels

\* A job that starts anew with attempts left, or has failed, keeps what a job must have.
LEMMA AnewLives ==
  ASSUME StoreInv, NEW j \in Jobs, NEW r \in Job, Becomes(j, r),
         r.pc # "failed" => r.tries > 0 /\ r.stalls <= MaxStalls
  PROVE  Moves(j, r.pc) /\ SpareAt(j)'
<1>1. Moves(j, r.pc) BY AssignMoves DEF StoreInv
<1>2. job'[j] = r BY DEF StoreInv, TypeOK, Becomes
<1>. QED BY <1>1, <1>2 DEF SpareAt

LEMMA LockTimeoutLives ==
  ASSUME StoreInv, NEW j \in Jobs, LockTimeout(j)
  PROVE  LivesOn(j)
<1>1. TypeOK /\ job[j].pc = "waiting" /\ job[j].tries > 0 /\ job[j].stalls <= MaxStalls
  BY DEF StoreInv, LockTimeout, Spare, SpareAt
<1>. DEFINE r == IF j \in Crawls THEN Retried(j) ELSE Anew("waiting", Attempts, 0)
<1>2. r \in Job /\ r.pc \in {"waiting", "failed"}
      /\ (r.pc # "failed" => r.tries > 0 /\ r.stalls <= MaxStalls)
  <2>1. CASE j \in Crawls BY <1>1, <2>1, RetriedType
  <2>2. CASE j \notin Crawls BY <2>2, SiteReadAssumption, AnewIsJob DEF Labels
  <2>. QED BY <2>1, <2>2
<1>3. Becomes(j, r) BY DEF LockTimeout
<1>4. lock' = lock BY DEF LockTimeout
<1>. HIDE DEF r
<1>5. Moves(j, r.pc) /\ SpareAt(j)' BY <1>2, <1>3, AnewLives
<1>6. Life(j, r.pc) BY <1>1, <1>2, <1>4 DEF Life
<1>. QED BY <1>2, <1>5, <1>6 DEF LivesOn, Labels

LEMMA ReleaseLives ==
  ASSUME StoreInv, NEW j \in Jobs, Release(j)
  PROVE  LivesOn(j)
<1>1. TypeOK /\ Holding(j) /\ job[j].pc # "failed" BY DEF StoreInv, Release, Holding
<1>2. job[j].tries > 0 /\ job[j].stalls <= MaxStalls
  BY <1>1 DEF StoreInv, Spare, SpareAt
<1>. DEFINE r == IF job[j].pc = "throwing" THEN Retried(j) ELSE Anew("done", Attempts, 0)
<1>3. r \in Job /\ r.pc \in {"waiting", "failed", "done"}
      /\ (r.pc # "failed" => r.tries > 0 /\ r.stalls <= MaxStalls)
  <2>1. CASE job[j].pc = "throwing" BY <1>1, <1>2, <2>1, RetriedType
  <2>2. CASE job[j].pc # "throwing" BY <2>2, SiteReadAssumption, AnewIsJob DEF Labels
  <2>. QED BY <2>1, <2>2
<1>4. Becomes(j, r) BY DEF Release
<1>5. lock' = NoLock BY <1>1 DEF Release, ReleasedBy, StoreInv, ReadsNeverOverlap
<1>. HIDE DEF r
<1>6. Moves(j, r.pc) /\ SpareAt(j)' BY <1>3, <1>4, AnewLives
<1>7. Life(j, r.pc) BY <1>1, <1>3, <1>5 DEF Life
<1>. QED BY <1>3, <1>6, <1>7 DEF LivesOn, Labels

LEMMA WorkerStopsLives ==
  ASSUME StoreInv, NEW j \in Jobs, WorkerStops(j)
  PROVE  LivesOn(j)
<1>1. TypeOK /\ (Holding(j) \/ job[j].pc = "waiting") /\ job[j].pc # "failed"
  BY DEF StoreInv, WorkerStops, Holding
<1>2. job[j].tries > 0 /\ job[j].tries \in 0..Attempts /\ job[j].stalls \in 0..MaxStalls
  BY <1>1, SiteReadAssumption DEF StoreInv, Spare, SpareAt, TypeOK, Job
<1>. DEFINE l == IF job[j].stalls < MaxStalls THEN "waiting" ELSE "failed"
            r == Anew(l, job[j].tries, job[j].stalls + 1)
<1>3. l \in Labels /\ l \in {"waiting", "failed"} BY DEF Labels
<1>4. job[j].stalls + 1 \in 0..(MaxStalls + 1)
      /\ (l = "waiting" => job[j].stalls + 1 <= MaxStalls)
  BY <1>2, SiteReadAssumption
<1>5. Becomes(j, r) BY DEF WorkerStops
<1>6. lock' = IF Holding(j) THEN Orphan ELSE lock
  BY <1>1 DEF WorkerStops, StoreInv, ReadsNeverOverlap
<1>. HIDE DEF l
<1>7. r \in Job /\ r.pc = l /\ r.tries = job[j].tries /\ r.stalls = job[j].stalls + 1
  BY <1>2, <1>3, <1>4, AnewIsJob
<1>. HIDE DEF r
<1>8. Moves(j, r.pc) /\ SpareAt(j)' BY <1>2, <1>3, <1>4, <1>5, <1>7, AnewLives
<1>9. Life(j, r.pc) BY <1>1, <1>3, <1>6, <1>7 DEF Life, Holding
<1>. QED BY <1>3, <1>7, <1>8, <1>9 DEF LivesOn

LEMMA WorkLives ==
  ASSUME StoreInv, NEW j \in Jobs, Holding(j), NEW l \in Labels \ Idle, MovesOn(j, l),
         lock' = lock
  PROVE  LivesOn(j)
<1>1. SpareAt(j)' BY MovesOnSpare DEF Holding
<1>2. Life(j, l) BY DEF Life
<1>. QED BY <1>1, <1>2 DEF LivesOn, MovesOn

\* Every step leaves jobs and lock alone, or lets the lock expire, or leads one job on.
LEMMA JobsLive ==
  ASSUME StoreInv, [Next]_vars
  PROVE  \/ UNCHANGED <<job, lock>>
         \/ LockExpires
         \/ \E j \in Jobs : LivesOn(j)
<1>1. CASE RequestCrawl \/ CrawlStarts \/ CrawlFetched \/ CrawlFails \/ CrawlStops
  BY <1>1 DEF RequestCrawl, CrawlStarts, CrawlFetched, CrawlFails, CrawlStops
<1>2. CASE QueueExtract BY <1>2, QueueExtractLives DEF Jobs
<1>3. CASE \E a \in Applies : SaveExclusions(a) \/ PostEnds(a) \/ PostThrows(a)
  BY <1>3 DEF SaveExclusions, PostEnds, PostThrows
<1>4. CASE \E a \in Applies : QueueApply(a) BY <1>4, QueueApplyLives DEF Jobs
<1>5. CASE \E j \in Jobs : Acquire(j) BY <1>5, AcquireLives
<1>6. CASE \E j \in Jobs : LockTimeout(j) BY <1>6, LockTimeoutLives
<1>7. CASE \E j \in Jobs : Release(j) BY <1>7, ReleaseLives
<1>8. CASE \E j \in Jobs : WorkerStops(j) BY <1>8, WorkerStopsLives
<1>9. CASE LockExpires BY <1>9
<1>10. CASE \E k \in Crawls : ReadStep(k)
  <2>1. PICK k \in Crawls : ReadStep(k) BY <1>10
  <2>2. LivesOn(k) BY <2>1, ReadMoves, WorkLives DEF Jobs
  <2>. QED BY <2>2 DEF Jobs
<1>11. CASE \E a \in Applies : ApplyStep(a)
  <2>1. PICK a \in Applies : ApplyStep(a) BY <1>11
  <2>2. LivesOn(a) BY <2>1, ApplyMoves, WorkLives DEF Jobs
  <2>. QED BY <2>2 DEF Jobs
<1>12. CASE UNCHANGED vars BY <1>12 DEF vars
<1>. QED BY <1>1, <1>2, <1>3, <1>4, <1>5, <1>6, <1>7, <1>8, <1>9, <1>10, <1>11, <1>12 DEF Next

-------------------------------------------------------------------------------
(* The parts of the invariant, step by step *)

LEMMA LockStep ==
  ASSUME StoreInv, [Next]_vars
  PROVE  ReadsNeverOverlap'
<1>1. \A j \in Jobs : Holding(j) <=> lock = j BY DEF StoreInv, ReadsNeverOverlap
<1>2. \A j \in Jobs : j # NoLock /\ j # Orphan BY SiteReadAssumption
<1>3. SUFFICES \A j \in Jobs : Holding(j)' <=> lock' = j BY <1>3 DEF ReadsNeverOverlap
<1>4. CASE UNCHANGED <<job, lock>> BY <1>1, <1>4 DEF Holding
<1>5. CASE LockExpires BY <1>1, <1>2, <1>5 DEF LockExpires, Holding
<1>6. CASE \E j \in Jobs : LivesOn(j)
  <2>1. PICK j \in Jobs, l \in Labels : Moves(j, l) /\ Life(j, l) BY <1>6 DEF LivesOn
  <2>2. \A i \in Jobs \ {j} : Holding(i)' <=> Holding(i) BY <2>1 DEF Moves, Holding
  <2>3. Holding(j)' <=> l \notin Idle BY <2>1 DEF Moves, Holding, Idle
  <2>4. CASE job[j].pc \in {"absent", "waiting"} /\ l \in {"waiting", "failed"} /\ lock' = lock
    BY <1>1, <2>2, <2>3, <2>4 DEF Holding, Idle
  <2>5. CASE job[j].pc = "waiting" /\ l = "locked" /\ lock = NoLock /\ lock' = j
    BY <1>1, <1>2, <2>2, <2>3, <2>5 DEF Idle
  <2>6. CASE Holding(j) /\ l \in {"waiting", "failed", "done"} /\ lock' \in {NoLock, Orphan}
    BY <1>1, <1>2, <2>2, <2>3, <2>6 DEF Idle
  <2>7. CASE Holding(j) /\ l \notin Idle /\ lock' = lock
    BY <1>1, <2>2, <2>3, <2>7
  <2>. QED BY <2>1, <2>4, <2>5, <2>6, <2>7 DEF Life
<1>. QED BY <1>4, <1>5, <1>6, JobsLive

LEMMA SpareStep ==
  ASSUME StoreInv, [Next]_vars
  PROVE  Spare'
<1>1. CASE UNCHANGED job BY <1>1 DEF StoreInv, Spare, SpareAt
<1>2. CASE \E j \in Jobs : LivesOn(j)
  BY <1>2 DEF StoreInv, Spare, SpareAt, LivesOn, Moves
<1>. QED BY <1>1, <1>2, JobsLive DEF LockExpires

\* An extract is there only for a crawl that is, and an apply job only when it was queued.
LEMMA AbsentStays ==
  ASSUME StoreInv, [Next]_vars, NEW i \in Jobs, job[i].pc = "absent", job'[i].pc # "absent"
  PROVE  \/ QueueExtract /\ i = Len(crawls)
         \/ i \in Applies /\ QueueApply(i)
<1>1. CASE RequestCrawl \/ CrawlStarts \/ CrawlFetched \/ CrawlFails \/ CrawlStops
  BY <1>1 DEF RequestCrawl, CrawlStarts, CrawlFetched, CrawlFails, CrawlStops
<1>2. CASE QueueExtract BY <1>2, QueueExtractLives DEF Moves, Jobs
<1>3. CASE \E a \in Applies : SaveExclusions(a) \/ PostEnds(a) \/ PostThrows(a)
  BY <1>3 DEF SaveExclusions, PostEnds, PostThrows
<1>4. CASE \E a \in Applies : QueueApply(a)
  <2>1. PICK a \in Applies : QueueApply(a) BY <1>4
  <2>2. CASE i = a BY <2>1, <2>2
  <2>3. CASE i # a BY <2>1, <2>3 DEF StoreInv, TypeOK, QueueApply, Goto, Becomes
  <2>. QED BY <2>2, <2>3
<1>5. CASE \E j \in Jobs : Acquire(j) \/ LockTimeout(j) \/ Release(j) \/ WorkerStops(j)
  <2>1. PICK j \in Jobs : Acquire(j) \/ LockTimeout(j) \/ Release(j) \/ WorkerStops(j) BY <1>5
  <2>2. job[j].pc # "absent" BY <2>1 DEF Acquire, LockTimeout, Release, WorkerStops, Holding
  <2>3. LivesOn(j)
    BY <2>1, AcquireLives, LockTimeoutLives, ReleaseLives, WorkerStopsLives
  <2>. QED BY <2>2, <2>3 DEF LivesOn, Moves, Life
<1>6. CASE LockExpires BY <1>6 DEF LockExpires
<1>7. CASE \E k \in Crawls : ReadStep(k)
  <2>1. PICK k \in Crawls : ReadStep(k) BY <1>7
  <2>. QED BY <2>1, ReadMoves DEF Holding, MovesOn, Moves
<1>8. CASE \E a \in Applies : ApplyStep(a)
  <2>1. PICK a \in Applies : ApplyStep(a) BY <1>8
  <2>. QED BY <2>1, ApplyMoves DEF Holding, MovesOn, Moves
<1>9. CASE UNCHANGED vars BY <1>9 DEF vars
<1>. QED BY <1>1, <1>2, <1>3, <1>4, <1>5, <1>6, <1>7, <1>8, <1>9 DEF Next

\* Setting the status of a crawl leaves as many crawls.
LEMMA StatusSet ==
  ASSUME TypeOK, NEW k \in 1..Len(crawls), NEW st \in Statuses,
         crawls' = [crawls EXCEPT ![k].status = st]
  PROVE  crawls' \in Seq(Row) /\ Len(crawls') = Len(crawls)
<1>1. crawls \in Seq(Row) BY DEF TypeOK, Row
<1>2. crawls[k] \in Row BY <1>1
<1>. DEFINE r == [crawls[k] EXCEPT !.status = st]
<1>3. r \in Row BY <1>2 DEF Row
<1>4. crawls' = [crawls EXCEPT ![k] = r] OBVIOUS
<1>. HIDE DEF r
<1>. QED BY <1>1, <1>3, <1>4

LEMMA NewestSet ==
  ASSUME TypeOK, crawls # <<>>, NEW r \in Row, SetNewest(r)
  PROVE  crawls' \in Seq(Row) /\ Len(crawls') = Len(crawls)
<1>1. crawls \in Seq(Row) BY DEF TypeOK, Row
<1>2. Len(crawls) \in 1..Len(crawls) BY <1>1
<1>. QED BY <1>1, <1>2 DEF SetNewest

\* Only a crawl that starts adds a row; the others are as many as they were.
LEMMA CrawlsStep ==
  ASSUME StoreInv, [Next]_vars
  PROVE  /\ crawls' \in Seq(Row) /\ Len(crawls') <= LastCrawl
         /\ IF CrawlStarts THEN Len(crawls') = Len(crawls) + 1
                           ELSE Len(crawls') = Len(crawls)
<1>0. /\ TypeOK /\ crawls \in Seq(Row) /\ Len(crawls) \in Nat /\ Len(crawls) <= LastCrawl
      /\ LastCrawl \in Nat
  BY SiteReadAssumption DEF StoreInv, TypeOK, Row
<1>. SUFFICES ASSUME ~CrawlStarts, crawls' # crawls
              PROVE  crawls' \in Seq(Row) /\ Len(crawls') = Len(crawls)
  <2>1. CASE CrawlStarts
    <3>1. [status |-> "running", pages |-> Pages \ excluded] \in Row BY DEF Row, Statuses
    <3>. QED BY <1>0, <2>1, <3>1 DEF CrawlStarts
  <2>. QED BY <1>0, <2>1
<1>1. CASE CrawlFetched
  <2>1. PICK fetched \in SUBSET Newest.pages :
          SetNewest([status |-> "extracting", pages |-> fetched])
    BY <1>1 DEF CrawlFetched
  <2>2. crawls # <<>> BY <1>1 DEF CrawlFetched, StoreInv, Queued
  <2>3. Newest \in Row BY <1>0, <2>2 DEF Newest
  <2>4. [status |-> "extracting", pages |-> fetched] \in Row BY <2>3 DEF Row, Statuses
  <2>. QED BY <1>0, <2>1, <2>2, <2>4, NewestSet
<1>2. CASE CrawlFails
  <2>1. crawls # <<>> BY <1>2 DEF CrawlFails, StoreInv, Queued
  <2>2. [status |-> "failed", pages |-> {}] \in Row BY DEF Row, Statuses
  <2>. QED BY <1>0, <1>2, <2>1, <2>2, NewestSet DEF CrawlFails
<1>3. CASE \E k \in Crawls : ReadStep(k)
  <2>1. PICK k \in Crawls : ReadStep(k) BY <1>3
  <2>2. k \in 1..Len(crawls)
    <3>1. job[k].pc # "absent" BY <2>1, ReadMoves DEF Holding
    <3>. QED BY <1>0, <3>1 DEF StoreInv, Queued, Crawls
  <2>3. \E st \in Statuses : crawls' = [crawls EXCEPT ![k].status = st]
    BY <2>1 DEF ReadStep, CheckNewest, BeginRead, EarlySummary, StopReading, ReadPage, Recheck,
                Prune, SummariseRead, CloseRead, NothingRead, ReadThrows, GiveUp, Statuses
  <2>. QED BY <1>0, <2>2, <2>3, StatusSet
<1>4. CASE \E a \in Applies : ApplyStep(a) BY <1>4, ApplyMoves
<1>5. CASE UNCHANGED vars BY <1>5 DEF vars
<1>6. CASE \E a \in Applies : SaveExclusions(a) \/ QueueApply(a) \/ PostEnds(a) \/ PostThrows(a)
  BY <1>6 DEF SaveExclusions, QueueApply, PostEnds, PostThrows
<1>7. CASE \E j \in Jobs : Acquire(j) \/ LockTimeout(j) \/ Release(j) \/ WorkerStops(j)
  BY <1>7 DEF Acquire, LockTimeout, Release, WorkerStops
<1>. QED BY <1>1, <1>2, <1>3, <1>4, <1>5, <1>6, <1>7
         DEF Next, RequestCrawl, QueueExtract, CrawlStops, LockExpires

LEMMA QueuedStep ==
  ASSUME StoreInv, [Next]_vars
  PROVE  Queued'
<1>0. /\ Len(crawls) \in Nat /\ Len(crawls') \in Nat /\ Len(crawls) <= Len(crawls')
      /\ (Len(crawls) # Len(crawls') => CrawlStarts)
      /\ crawls \in Seq(Row) /\ crawls' \in Seq(Row) /\ Crawls \subseteq Nat /\ TypeOK
  BY CrawlsStep DEF StoreInv, TypeOK, Row, Crawls
<1>1. \A k \in Crawls : job'[k].pc # "absent" => k <= Len(crawls')
  <2>. SUFFICES ASSUME NEW k \in Crawls, job'[k].pc # "absent" PROVE k <= Len(crawls')
    OBVIOUS
  <2>1. k \in Jobs /\ k \notin Applies BY SiteReadAssumption, <1>0 DEF Jobs
  <2>2. CASE job[k].pc = "absent" BY <1>0, <2>1, <2>2, AbsentStays
  <2>3. CASE job[k].pc # "absent" BY <1>0, <2>3 DEF StoreInv, Queued
  <2>. QED BY <2>2, <2>3
<1>2. ASSUME crawlJob' = "active" PROVE crawls' # <<>> /\ job'[Len(crawls')].pc = "absent"
  <2>1. CASE CrawlStarts
    <3>1. Len(crawls') = Len(crawls) + 1 BY <2>1, CrawlsStep
    <3>2. Len(crawls') \in Crawls BY <1>0, <3>1, CrawlsStep, SiteReadAssumption DEF Crawls
    <3>3. job[Len(crawls')].pc = "absent" BY <1>0, <3>1, <3>2 DEF StoreInv, Queued
    <3>4. job' = job BY <2>1 DEF CrawlStarts
    <3>. QED BY <1>0, <3>1, <3>3, <3>4
  <2>2. CASE ~CrawlStarts
    <3>1. crawlJob = "active" /\ ~QueueExtract
      <4>1. CASE \E k \in Crawls : ReadStep(k)
        BY <1>2, <4>1, ReadMoves DEF QueueExtract
      <4>2. CASE \E a \in Applies : ApplyStep(a) BY <1>2, <4>2, ApplyMoves DEF QueueExtract
      <4>3. CASE UNCHANGED vars BY <1>2, <4>3 DEF vars, QueueExtract
      <4>4. CASE \E a \in Applies : SaveExclusions(a) \/ QueueApply(a) \/ PostEnds(a) \/ PostThrows(a)
        BY <1>2, <4>4 DEF SaveExclusions, QueueApply, PostEnds, PostThrows, Enqueued, QueueExtract
      <4>5. CASE \E j \in Jobs : Acquire(j) \/ LockTimeout(j) \/ Release(j) \/ WorkerStops(j)
        BY <1>2, <4>5 DEF Acquire, LockTimeout, Release, WorkerStops, QueueExtract
      <4>. QED BY <1>2, <2>2, <4>1, <4>2, <4>3, <4>4, <4>5
               DEF Next, RequestCrawl, Enqueued, CrawlFetched, CrawlFails, QueueExtract,
                   CrawlStops, LockExpires
    <3>2. crawls # <<>> /\ job[Len(crawls)].pc = "absent" BY <3>1 DEF StoreInv, Queued
    <3>3. Len(crawls') = Len(crawls) BY <1>0, <2>2
    <3>4. Len(crawls) \in Crawls /\ Len(crawls) \in Jobs /\ Len(crawls) \notin Applies
      BY <1>0, <3>2, CrawlsStep, SiteReadAssumption DEF Crawls, Jobs, TypeOK
    <3>5. job'[Len(crawls)].pc = "absent" BY <3>1, <3>2, <3>4, AbsentStays
    <3>. QED BY <1>0, <3>2, <3>3, <3>5
  <2>. QED BY <2>1, <2>2
<1>3. \A a \in Applies : post'[a].pc \in {"new", "saved"} => job'[a].pc = "absent"
  <2>. SUFFICES ASSUME NEW a \in Applies, post'[a].pc \in {"new", "saved"}
                PROVE  job'[a].pc = "absent"
    OBVIOUS
  <2>1. a \in Jobs /\ a \notin Crawls BY SiteReadAssumption, <1>0 DEF Jobs
  <2>2. post[a].pc \in {"new", "saved"} /\ ~QueueApply(a)
    <3>0. post \in [Applies -> [pc : {"new", "saved", "queued", "done", "thrown"},
                                reincluded : BOOLEAN]]
      BY <1>0 DEF TypeOK
    <3>1. ~QueueApply(a) BY <3>0 DEF QueueApply
    <3>2. CASE UNCHANGED post BY <3>1, <3>2
    <3>3. CASE \E b \in Applies : SaveExclusions(b) BY <3>0, <3>1, <3>3 DEF SaveExclusions
    <3>4. CASE \E b \in Applies : QueueApply(b) \/ PostEnds(b) \/ PostThrows(b)
      BY <3>0, <3>1, <3>4 DEF QueueApply, PostEnds, PostThrows
    <3>5. CASE \E k \in Crawls : ReadStep(k) BY <3>2, <3>5, ReadMoves
    <3>6. CASE \E b \in Applies : ApplyStep(b) BY <3>2, <3>6, ApplyMoves
    <3>7. CASE \E j \in Jobs : Acquire(j) \/ LockTimeout(j) \/ Release(j) \/ WorkerStops(j)
      BY <3>2, <3>7 DEF Acquire, LockTimeout, Release, WorkerStops
    <3>. QED BY <3>2, <3>3, <3>4, <3>5, <3>6, <3>7
             DEF Next, vars, RequestCrawl, CrawlStarts, CrawlFetched, CrawlFails,
                 QueueExtract, CrawlStops, LockExpires
  <2>3. job[a].pc = "absent" BY <2>2 DEF StoreInv, Queued
  <2>4. a # Len(crawls) BY SiteReadAssumption, <1>0
  <2>. QED BY <2>1, <2>2, <2>3, <2>4, AbsentStays
<1>. QED BY <1>1, <1>2, <1>3 DEF Queued

\* A page gets a row from the read at work only; every other step keeps it or drops it.
LEMMA KbStep ==
  ASSUME StoreInv, [Next]_vars
  PROVE  /\ kb' \in [Pages -> 0..LastCrawl]
         /\ \A p \in Pages :
              kb'[p] = kb[p] \/ kb'[p] = 0 \/ \E k \in Crawls : ReadPage(k) /\ kb'[p] = k
<1>0. kb \in [Pages -> 0..LastCrawl] /\ LastCrawl \in Nat
  BY SiteReadAssumption DEF StoreInv, TypeOK
<1>1. CASE kb' = kb BY <1>0, <1>1
<1>2. CASE \E k \in Crawls : ReadPage(k)
  <2>1. PICK k \in Crawls : ReadPage(k) BY <1>2
  <2>2. PICK p : kb' = [kb EXCEPT ![p] = k] \/ kb' = kb BY <2>1 DEF ReadPage
  <2>. QED BY <1>0, <2>1, <2>2 DEF Crawls
<1>3. CASE \E k \in Crawls : Prune(k) BY <1>0, <1>3 DEF Prune
<1>4. CASE \E a \in Applies : Drop(a) BY <1>0, <1>4 DEF Drop
<1>5. CASE kb' # kb /\ (\E k \in Crawls : ReadStep(k))
  BY <1>2, <1>3, <1>5 DEF ReadStep, CheckNewest, BeginRead, EarlySummary, StopReading, Recheck,
     SummariseRead, CloseRead, NothingRead, ReadThrows
<1>6. CASE kb' # kb /\ (\E a \in Applies : ApplyStep(a))
  BY <1>4, <1>6 DEF ApplyStep, LookUp, SummariseApply, ApplyThrows
<1>7. CASE UNCHANGED vars BY <1>1, <1>7 DEF vars
<1>8. CASE \E a \in Applies : SaveExclusions(a) \/ QueueApply(a) \/ PostEnds(a) \/ PostThrows(a)
  BY <1>1, <1>8 DEF SaveExclusions, QueueApply, PostEnds, PostThrows
<1>9. CASE \E j \in Jobs : Acquire(j) \/ LockTimeout(j) \/ Release(j) \/ WorkerStops(j)
  BY <1>1, <1>9 DEF Acquire, LockTimeout, Release, WorkerStops
<1>. QED BY <1>1, <1>5, <1>6, <1>7, <1>8, <1>9
         DEF Next, RequestCrawl, CrawlStarts, CrawlFetched, CrawlFails, QueueExtract,
             CrawlStops, LockExpires

\* A read sets to work only when its crawl is the newest.
LEMMA SetsToWork ==
  ASSUME StoreInv, [Next]_vars, NEW k \in Crawls, job[k].pc \notin AtWork, job'[k].pc \in AtWork
  PROVE  k = Len(crawls) /\ kb' = kb
<1>1. k \in Jobs BY DEF Jobs
<1>2. ~UNCHANGED job OBVIOUS
<1>3. CASE \E i \in Crawls : ReadStep(i)
  <2>1. PICK i \in Crawls : ReadStep(i) BY <1>3
  <2>2. i = k BY <1>1, <2>1, ReadMoves DEF MovesOn, Moves
  <2>3. CASE CheckNewest(k) /\ IsSuperseded(k) /\ GiveUp(k)
    <3>1. job'[k].pc = "releasing"
      BY <1>1, <2>3, GotoMoves DEF GiveUp, StoreInv, Labels, MovesOn, Moves
    <3>. QED BY <3>1 DEF AtWork
  <2>4. CASE CheckNewest(k) /\ ~IsSuperseded(k) BY <2>4 DEF CheckNewest, IsSuperseded
  <2>5. CASE ReadThrows(k)
    <3>1. job'[k].pc = "throwing"
      BY <1>1, <2>5, GotoMoves DEF ReadThrows, StoreInv, Labels, MovesOn, Moves
    <3>. QED BY <3>1 DEF AtWork
  <2>. QED BY <2>1, <2>2, <2>3, <2>4, <2>5
           DEF ReadStep, CheckNewest, BeginRead, EarlySummary, StopReading, ReadPage, Recheck,
               Prune, SummariseRead, CloseRead, NothingRead, AtWork
<1>4. CASE \E a \in Applies : ApplyStep(a)
  <2>1. PICK a \in Applies : ApplyStep(a) BY <1>4
  <2>2. a # k BY SiteReadAssumption DEF Crawls
  <2>. QED BY <1>1, <2>1, <2>2, ApplyMoves DEF MovesOn, Moves
<1>5. CASE \E j \in Jobs : Acquire(j) \/ LockTimeout(j) \/ Release(j) \/ WorkerStops(j)
  <2>1. PICK j \in Jobs : Acquire(j) \/ LockTimeout(j) \/ Release(j) \/ WorkerStops(j) BY <1>5
  <2>2. lock' # lock \/ job[j].pc = "waiting"
    BY <2>1, SiteReadAssumption
       DEF Acquire, LockTimeout, Release, WorkerStops, ReleasedBy, StoreInv, ReadsNeverOverlap,
           Holding
  <2>3. LivesOn(j)
    BY <2>1, AcquireLives, LockTimeoutLives, ReleaseLives, WorkerStopsLives
  <2>4. job'[j].pc \notin AtWork
    BY <2>2, <2>3 DEF LivesOn, Moves, Life, AtWork, Holding
  <2>. QED BY <1>1, <2>3, <2>4 DEF LivesOn, Moves
<1>6. CASE QueueExtract
  <2>1. PICK i \in Crawls : i = Len(crawls) /\ Moves(i, "waiting") BY <1>6, QueueExtractLives
  <2>. QED BY <1>1, <2>1 DEF Moves, AtWork
<1>7. CASE \E a \in Applies : QueueApply(a)
  <2>1. PICK a \in Applies : QueueApply(a) BY <1>7
  <2>2. a # k BY SiteReadAssumption DEF Crawls
  <2>. QED BY <1>1, <2>1, <2>2, QueueApplyLives DEF LivesOn, Moves
<1>. QED BY <1>2, <1>3, <1>4, <1>5, <1>6, <1>7
         DEF Next, vars, RequestCrawl, CrawlStarts, CrawlFetched, CrawlFails, CrawlStops,
             SaveExclusions, PostEnds, PostThrows, LockExpires

LEMMA NewerStep ==
  ASSUME StoreInv, [Next]_vars
  PROVE  NoneNewer'
<1>0. /\ kb \in [Pages -> 0..LastCrawl] /\ Crawls \subseteq Nat /\ 0..LastCrawl \subseteq Nat
      /\ Len(crawls) \in Nat /\ Len(crawls') \in Nat /\ Len(crawls) <= Len(crawls')
  BY CrawlsStep DEF StoreInv, TypeOK, Row, Crawls
\* A read that writes is at work, and its crawl is one of those there are.
<1>1. \A k \in Crawls : ReadPage(k) =>
        job[k].pc \in AtWork /\ job'[k].pc \in AtWork /\ k <= Len(crawls) /\ Holding(k)
  <2>. SUFFICES ASSUME NEW k \in Crawls, ReadPage(k)
                PROVE  job[k].pc \in AtWork /\ job'[k].pc \in AtWork /\ k <= Len(crawls)
                       /\ Holding(k)
    OBVIOUS
  <2>1. ReadStep(k) /\ job[k].pc = "reading" BY DEF ReadStep, ReadPage
  <2>2. k <= Len(crawls) BY <2>1 DEF StoreInv, Queued
  <2>3. job'[k].pc = "reading"
    <3>1. k \in Jobs /\ job[k] \in Job BY DEF Jobs, StoreInv, TypeOK
    <3>2. PICK p, ok : Becomes(k, [job[k] EXCEPT
            !.todo = @ \ {p}, !.got = @ \/ ok, !.keep = @ \cup ({p} \ job[k].skip),
            !.since = IF CheckDue(k) THEN 0 ELSE @ + 1])
      BY DEF ReadPage
    <3>. QED BY <2>1, <3>1, <3>2 DEF Becomes, StoreInv, TypeOK, Job
  <2>. QED BY <2>1, <2>2, <2>3 DEF AtWork, Holding
<1>2. \A p \in Pages : kb'[p] <= Len(crawls')
  <2>. SUFFICES ASSUME NEW p \in Pages PROVE kb'[p] <= Len(crawls') OBVIOUS
  <2>1. kb[p] \in Nat /\ kb[p] <= Len(crawls) BY <1>0 DEF StoreInv, NoneNewer
  <2>2. CASE kb'[p] = kb[p] \/ kb'[p] = 0 BY <1>0, <2>1, <2>2
  <2>3. CASE \E k \in Crawls : ReadPage(k) /\ kb'[p] = k BY <1>0, <1>1, <2>3
  <2>. QED BY <2>2, <2>3, KbStep
<1>3. \A k \in Crawls : job'[k].pc \in AtWork => \A p \in Pages : kb'[p] <= k
  <2>. SUFFICES ASSUME NEW k \in Crawls, job'[k].pc \in AtWork, NEW p \in Pages
                PROVE  kb'[p] <= k
    OBVIOUS
  <2>0. kb[p] \in Nat /\ k \in Nat BY <1>0
  <2>1. CASE job[k].pc \notin AtWork
    <3>1. k = Len(crawls) /\ kb' = kb BY <2>1, SetsToWork
    <3>. QED BY <3>1 DEF StoreInv, NoneNewer
  <2>2. CASE job[k].pc \in AtWork
    <3>1. kb[p] <= k BY <2>2 DEF StoreInv, NoneNewer
    <3>2. CASE kb'[p] = kb[p] \/ kb'[p] = 0 BY <2>0, <3>1, <3>2
    <3>3. CASE \E i \in Crawls : ReadPage(i) /\ kb'[p] = i
      <4>1. PICK i \in Crawls : ReadPage(i) /\ kb'[p] = i BY <3>3
      <4>2. Holding(i) /\ Holding(k) BY <1>1, <2>2, <4>1 DEF AtWork, Holding
      <4>3. i = k BY <4>2 DEF StoreInv, ReadsNeverOverlap, Jobs
      <4>. QED BY <2>0, <4>1, <4>3
    <3>. QED BY <3>2, <3>3, KbStep
  <2>. QED BY <2>1, <2>2
<1>. QED BY <1>2, <1>3 DEF NoneNewer

LEMMA TypeStep ==
  ASSUME StoreInv, [Next]_vars
  PROVE  TypeOK'
<1>0. TypeOK BY DEF StoreInv
<1>1. crawls' \in Seq(Row) /\ Len(crawls') <= LastCrawl /\ kb' \in [Pages -> 0..LastCrawl]
  BY CrawlsStep, KbStep
<1>2. job' \in [Jobs -> Job] /\ lock' \in Jobs \cup {NoLock, Orphan}
  BY <1>0, JobsLive DEF TypeOK, LivesOn, Moves, Life, LockExpires
<1>3. faults' \in 0..MaxFaults
  <2>1. faults' = faults \/ Fault
    BY DEF Next, vars, RequestCrawl, CrawlStarts, CrawlFetched, CrawlFails, QueueExtract,
           CrawlStops, SaveExclusions, QueueApply, PostEnds, PostThrows, Acquire, LockTimeout,
           Release, WorkerStops, LockExpires, ReadStep, CheckNewest, BeginRead, EarlySummary, StopReading,
           ReadPage, Recheck, Prune, SummariseRead, CloseRead, NothingRead, ReadThrows,
           ApplyStep, LookUp, Drop, SummariseApply, ApplyThrows
  <2>. QED BY <1>0, <2>1, SiteReadAssumption DEF TypeOK, Fault
<1>4. excluded' \in SUBSET Pages
  <2>1. excluded' = excluded \/ \E a \in Applies : SaveExclusions(a)
    BY DEF Next, vars, RequestCrawl, CrawlStarts, CrawlFetched, CrawlFails, QueueExtract,
           CrawlStops, QueueApply, PostEnds, PostThrows, Acquire, LockTimeout,
           Release, WorkerStops, LockExpires, ReadStep, CheckNewest, BeginRead, EarlySummary, StopReading,
           ReadPage, Recheck, Prune, SummariseRead, CloseRead, NothingRead, ReadThrows,
           ApplyStep, LookUp, Drop, SummariseApply, ApplyThrows
  <2>. QED BY <1>0, <2>1 DEF TypeOK, SaveExclusions
<1>5. summary' \in [Pages -> 0..LastCrawl]
  <2>1. summary' \in {summary, kb}
    BY DEF Next, vars, RequestCrawl, CrawlStarts, CrawlFetched, CrawlFails, QueueExtract,
           CrawlStops, SaveExclusions, QueueApply, PostEnds, PostThrows, Acquire, LockTimeout,
           Release, WorkerStops, LockExpires, ReadStep, CheckNewest, BeginRead, EarlySummary, StopReading,
           ReadPage, Recheck, Prune, SummariseRead, CloseRead, NothingRead, ReadThrows,
           ApplyStep, LookUp, Drop, SummariseApply, ApplyThrows
  <2>. QED BY <1>0, <2>1 DEF TypeOK
<1>6. crawlJob' \in {"none", "waiting", "active"}
  <2>1. CASE \E a \in Applies : PostEnds(a) BY <1>0, <2>1 DEF TypeOK, PostEnds, Enqueued
  <2>2. CASE RequestCrawl \/ CrawlStarts \/ CrawlFetched \/ CrawlFails \/ QueueExtract
             \/ CrawlStops
    BY <1>0, <2>2 DEF TypeOK, RequestCrawl, Enqueued, CrawlStarts, CrawlFetched, CrawlFails,
                      QueueExtract, CrawlStops
  <2>3. CASE UNCHANGED crawlJob BY <1>0, <2>3 DEF TypeOK
  <2>4. CASE \E k \in Crawls : ReadStep(k) BY <2>3, <2>4, ReadMoves
  <2>5. CASE \E a \in Applies : ApplyStep(a) BY <2>3, <2>5, ApplyMoves
  <2>. QED BY <2>1, <2>2, <2>3, <2>4, <2>5
           DEF Next, vars, SaveExclusions, QueueApply, PostThrows, Acquire, LockTimeout,
               Release, WorkerStops, LockExpires
<1>7. post' \in [Applies -> [pc : {"new", "saved", "queued", "done", "thrown"},
                             reincluded : BOOLEAN]]
  <2>0. post \in [Applies -> [pc : {"new", "saved", "queued", "done", "thrown"},
                              reincluded : BOOLEAN]]
    BY <1>0 DEF TypeOK
  <2>1. CASE \E a \in Applies : SaveExclusions(a) BY <2>0, <2>1 DEF SaveExclusions
  <2>2. CASE \E a \in Applies : QueueApply(a) BY <2>0, <2>2 DEF QueueApply
  <2>3. CASE \E a \in Applies : PostEnds(a) BY <2>0, <2>3 DEF PostEnds
  <2>4. CASE \E a \in Applies : PostThrows(a) BY <2>0, <2>4 DEF PostThrows
  <2>5. CASE UNCHANGED post BY <2>0, <2>5
  <2>6. CASE \E k \in Crawls : ReadStep(k) BY <2>5, <2>6, ReadMoves
  <2>7. CASE \E a \in Applies : ApplyStep(a) BY <2>5, <2>7, ApplyMoves
  <2>. QED BY <2>1, <2>2, <2>3, <2>4, <2>5, <2>6, <2>7
           DEF Next, vars, RequestCrawl, CrawlStarts, CrawlFetched, CrawlFails, QueueExtract,
               CrawlStops, Acquire, LockTimeout, Release, WorkerStops, LockExpires
<1>. QED BY <1>1, <1>2, <1>3, <1>4, <1>5, <1>6, <1>7 DEF TypeOK, Row

LEMMA StoreInit ==
  ASSUME Init
  PROVE  StoreInv
<1>0. 0 \in 0..LastCrawl /\ LastCrawl \in Nat /\ Attempts > 0 /\ MaxStalls \in Nat
      /\ 0 \in 0..MaxFaults
  BY SiteReadAssumption
<1>1. \A j \in Jobs : job[j] = Fresh BY DEF Init
<1>2. Fresh \in Job /\ Fresh.pc = "absent" /\ Fresh.tries = Attempts /\ Fresh.stalls = 0
  BY FreshIsJob DEF Fresh
<1>3. TypeOK
  <2>1. job \in [Jobs -> Job] BY <1>2 DEF Init
  <2>2. crawls \in Seq([status : Statuses, pages : SUBSET Pages]) /\ Len(crawls) <= LastCrawl
    BY <1>0 DEF Init
  <2>3. post \in [Applies -> [pc : {"new", "saved", "queued", "done", "thrown"},
                              reincluded : BOOLEAN]]
    BY DEF Init
  <2>. QED BY <1>0, <2>1, <2>2, <2>3 DEF Init, TypeOK
<1>4. ReadsNeverOverlap BY <1>1, <1>2, SiteReadAssumption DEF ReadsNeverOverlap, Holding, Init
<1>5. Spare BY <1>0, <1>1, <1>2 DEF Spare, SpareAt
<1>6. Queued BY <1>1, <1>2 DEF Queued, Init, Jobs
<1>7. NoneNewer BY <1>0, <1>1, <1>2 DEF NoneNewer, Init, Jobs, AtWork
<1>. QED BY <1>3, <1>4, <1>5, <1>6, <1>7 DEF StoreInv

LEMMA StoreStep ==
  ASSUME StoreInv, [Next]_vars
  PROVE  StoreInv'
BY TypeStep, LockStep, SpareStep, QueuedStep, NewerStep DEF StoreInv

-------------------------------------------------------------------------------
LEMMA StoreAlways == Spec => []StoreInv
<1>1. Init => StoreInv BY StoreInit
<1>2. StoreInv /\ [Next]_vars => StoreInv' BY StoreStep
<1>. QED BY <1>1, <1>2, PTL DEF Spec

\* The tables, queues and the lock keep their types, whatever the limits are.
THEOREM TypeCorrect == Spec => []TypeOK
<1>1. StoreInv => TypeOK BY DEF StoreInv
<1>. QED BY <1>1, StoreAlways, PTL

\* withMerchantLock keeps the jobs of a store apart, whoever stops, and is never held for a
\* job that could still be waiting for it.
THEOREM LockExcludes == Spec => []ReadsNeverOverlap
<1>1. StoreInv => ReadsNeverOverlap BY DEF StoreInv
<1>. QED BY <1>1, StoreAlways, PTL

\* The lock and the supersede check together keep every read from writing below what a
\* newer one wrote.
THEOREM ForwardOnly == Spec => NeverBackToOlder
<1>1. ASSUME StoreInv, [Next]_vars
      PROVE  [\A p, q \in Pages : kb'[p] # kb[p] /\ kb'[p] # 0 => kb[q] <= kb'[p]]_vars
  <2>. SUFFICES ASSUME NEW p \in Pages, NEW q \in Pages, kb'[p] # kb[p], kb'[p] # 0
                PROVE  kb[q] <= kb'[p]
    OBVIOUS
  <2>1. PICK k \in Crawls : ReadPage(k) /\ kb'[p] = k BY <1>1, KbStep
  <2>2. job[k].pc \in AtWork BY <2>1 DEF ReadPage, AtWork
  <2>. QED BY <1>1, <2>1, <2>2 DEF StoreInv, NoneNewer
<1>. QED BY <1>1, StoreAlways, PTL DEF Spec, NeverBackToOlder

-------------------------------------------------------------------------------
(* What is owed: the pages still to drop, and the summary still to make *)

\* Reads and apply jobs are jobs, and no job is both.
LEMMA JobsApart == Crawls \subseteq Jobs /\ Applies \subseteq Jobs /\ Crawls \cap Applies = {}
BY SiteReadAssumption DEF Jobs, Crawls

\* A job changes by one of its own steps only.
LEMMA JobChanges ==
  ASSUME StoreInv, [Next]_vars, NEW j \in Jobs, job'[j] # job[j]
  PROVE  \/ QueueExtract /\ j = Len(crawls)
         \/ j \in Applies /\ QueueApply(j)
         \/ Acquire(j) \/ LockTimeout(j) \/ Release(j) \/ WorkerStops(j)
         \/ j \in Crawls /\ ReadStep(j)
         \/ j \in Applies /\ ApplyStep(j)
<1>0. job' # job OBVIOUS
<1>1. CASE QueueExtract BY <1>1, QueueExtractLives DEF Moves
<1>2. CASE \E a \in Applies : QueueApply(a)
  <2>1. PICK a \in Applies : QueueApply(a) BY <1>2
  <2>2. CASE j # a BY <2>1, <2>2 DEF StoreInv, TypeOK, QueueApply, Goto, Becomes
  <2>. QED BY <2>1, <2>2
<1>3. CASE \E i \in Jobs : Acquire(i) \/ LockTimeout(i) \/ Release(i) \/ WorkerStops(i)
  <2>1. PICK i \in Jobs : Acquire(i) \/ LockTimeout(i) \/ Release(i) \/ WorkerStops(i) BY <1>3
  <2>2. LivesOn(i) BY <2>1, AcquireLives, LockTimeoutLives, ReleaseLives, WorkerStopsLives
  <2>3. i = j BY <2>2 DEF LivesOn, Moves
  <2>. QED BY <2>1, <2>3
<1>4. CASE \E k \in Crawls : ReadStep(k)
  <2>1. PICK k \in Crawls : ReadStep(k) BY <1>4
  <2>. QED BY <2>1, ReadMoves DEF MovesOn, Moves
<1>5. CASE \E a \in Applies : ApplyStep(a)
  <2>1. PICK a \in Applies : ApplyStep(a) BY <1>5
  <2>. QED BY <2>1, ApplyMoves DEF MovesOn, Moves
<1>. QED BY <1>0, <1>1, <1>2, <1>3, <1>4, <1>5
         DEF Next, vars, RequestCrawl, CrawlStarts, CrawlFetched, CrawlFails, CrawlStops,
             SaveExclusions, PostEnds, PostThrows, LockExpires

\* The list of exclusions changes, and a request moves, by the route's own steps only.
LEMMA ExcludedChanges ==
  ASSUME StoreInv, [Next]_vars
  PROVE  /\ excluded' = excluded \/ \E a \in Applies : SaveExclusions(a)
         /\ \/ post' = post
            \/ \E a \in Applies : SaveExclusions(a) \/ QueueApply(a) \/ PostEnds(a) \/ PostThrows(a)
<1>1. CASE \E a \in Applies : SaveExclusions(a) \/ QueueApply(a) \/ PostEnds(a) \/ PostThrows(a)
  BY <1>1 DEF QueueApply, PostEnds, PostThrows
<1>2. CASE \E k \in Crawls : ReadStep(k) BY <1>2, ReadMoves
<1>3. CASE \E a \in Applies : ApplyStep(a) BY <1>3, ApplyMoves
<1>4. CASE \E j \in Jobs : Acquire(j) \/ LockTimeout(j) \/ Release(j) \/ WorkerStops(j)
  BY <1>4 DEF Acquire, LockTimeout, Release, WorkerStops
<1>. QED BY <1>1, <1>2, <1>3, <1>4
         DEF Next, vars, RequestCrawl, CrawlStarts, CrawlFetched, CrawlFails, QueueExtract,
             CrawlStops, LockExpires

\* An apply job goes from one label to another as its steps say.
LEMMA ApplySteps ==
  ASSUME StoreInv, [Next]_vars, NEW a \in Applies, job'[a] # job[a]
  PROVE  \/ QueueApply(a) /\ job[a].pc = "absent" /\ job'[a].pc = "waiting"
         \/ job[a].pc = "waiting" /\ job'[a].pc \in {"waiting", "locked", "failed"}
         \/ Holding(a) /\ job'[a].pc \in {"waiting", "failed"}
         \/ job[a].pc = "releasing" /\ job'[a].pc = "done"
         \/ LookUp(a) /\ job[a].pc = "locked" /\ job'[a].pc = "dropping"
         \/ Drop(a) /\ job[a].pc = "dropping" /\ job'[a].pc = "dropped"
         \/ SummariseApply(a) /\ job[a].pc = "dropped" /\ job'[a].pc = "releasing"
         \/ Holding(a) /\ job'[a].pc = "throwing"
<1>0. a \in Jobs /\ a \notin Crawls /\ TypeOK /\ Len(crawls) \in Nat /\ a # Len(crawls)
      /\ job[a] \in Job
  <2>1. a \in Jobs /\ a \notin Crawls BY JobsApart
  <2>2. TypeOK /\ Len(crawls) \in Nat /\ job[a] \in Job BY <2>1 DEF StoreInv, TypeOK
  <2>. QED BY <2>1, <2>2, SiteReadAssumption
<1>1. CASE QueueApply(a)
  <2>1. job[a].pc = "absent" BY <1>1 DEF QueueApply, StoreInv, Queued
  <2>2. job'[a].pc = "waiting" BY <1>0, <1>1, GotoMoves DEF QueueApply, MovesOn, Moves, Labels
  <2>. QED BY <1>1, <2>1, <2>2
<1>2. CASE Acquire(a)
  <2>1. job'[a].pc = "locked" BY <1>0, <1>2, GotoMoves DEF Acquire, MovesOn, Moves, Labels
  <2>. QED BY <1>2, <2>1 DEF Acquire
<1>3. CASE LockTimeout(a) \/ WorkerStops(a) \/ Release(a)
  <2>1. PICK l \in Labels : Moves(a, l) /\ Life(a, l)
    BY <1>0, <1>3, LockTimeoutLives, WorkerStopsLives, ReleaseLives DEF LivesOn
  <2>2. job'[a].pc = l BY <2>1 DEF Moves
  <2>3. CASE LockTimeout(a) BY <2>1, <2>2, <2>3 DEF LockTimeout, Life, Holding
  <2>4. CASE WorkerStops(a)
    <3>. DEFINE m == IF job[a].stalls < MaxStalls THEN "waiting" ELSE "failed"
                r == Anew(m, job[a].tries, job[a].stalls + 1)
    <3>1. r.pc = m BY DEF Anew, Fresh
    <3>2. job'[a] = r BY <1>0, <2>4 DEF WorkerStops, Becomes, TypeOK
    <3>. HIDE DEF r
    <3>. QED BY <2>4, <3>1, <3>2 DEF WorkerStops
  <2>5. CASE Release(a)
    <3>1. CASE job[a].pc = "throwing"
      <4>1. job'[a] = Retried(a) BY <1>0, <2>5, <3>1 DEF Release, Becomes, TypeOK
      <4>2. Retried(a).pc \in {"waiting", "failed"} BY DEF Retried, Anew, Fresh
      <4>. QED BY <3>1, <4>1, <4>2 DEF Holding
    <3>2. CASE job[a].pc = "releasing"
      <4>1. job'[a] = Anew("done", Attempts, 0) BY <1>0, <2>5, <3>2 DEF Release, Becomes, TypeOK
      <4>2. Anew("done", Attempts, 0).pc = "done" BY DEF Anew, Fresh
      <4>. QED BY <3>2, <4>1, <4>2
    <3>. QED BY <2>5, <3>1, <3>2 DEF Release
  <2>. QED BY <1>3, <2>3, <2>4, <2>5
<1>4. CASE LookUp(a)
  <2>. DEFINE r == [job[a] EXCEPT !.pc = "dropping", !.todo = {p \in excluded : kb[p] # 0}]
  <2>1. job'[a] = r BY <1>0, <1>4 DEF LookUp, Becomes, TypeOK
  <2>2. r.pc = "dropping" BY <1>0 DEF Job
  <2>. QED BY <1>4, <2>1, <2>2 DEF LookUp
<1>5. CASE Drop(a)
  <2>1. job'[a].pc = "dropped" BY <1>0, <1>5, GotoMoves DEF Drop, MovesOn, Moves, Labels
  <2>. QED BY <1>5, <2>1 DEF Drop
<1>6. CASE SummariseApply(a)
  <2>1. job'[a].pc = "releasing"
    BY <1>0, <1>6, GotoMoves DEF SummariseApply, MovesOn, Moves, Labels
  <2>. QED BY <1>6, <2>1 DEF SummariseApply
<1>7. CASE ApplyThrows(a)
  <2>1. job'[a].pc = "throwing"
    BY <1>0, <1>7, GotoMoves DEF ApplyThrows, MovesOn, Moves, Labels
  <2>. QED BY <1>7, <2>1 DEF ApplyThrows, Holding
<1>. QED BY <1>0, <1>1, <1>2, <1>3, <1>4, <1>5, <1>6, <1>7, JobChanges DEF ApplyStep

\* What makes SkippedForgotten inductive: a page the owner skips that has a row, or that a
\* read at work may still write, is owed to an exclusions request or its job: one that will
\* look the pages up again, that has the page to drop, or that has failed for good.
Owes(a, p) ==
  \/ post[a].pc \in {"saved", "thrown"}
  \/ job[a].pc \in {"waiting", "locked", "throwing", "failed"}
  \/ job[a].pc = "dropping" /\ p \in job[a].todo
Owed(p) == \E a \in Applies : Owes(a, p)
SkipsOwed ==
  \A p \in excluded :
    /\ kb[p] # 0 => Owed(p)
    /\ \A k \in Crawls : job[k].pc = "reading" /\ p \notin job[k].skip => Owed(p)

\* Only looking the pages up and dropping them settle what is owed.
LEMMA OwesStep ==
  ASSUME StoreInv, [Next]_vars, NEW a \in Applies, NEW p, Owes(a, p), ~LookUp(a), ~Drop(a)
  PROVE  Owes(a, p)'
<1>0. post \in [Applies -> [pc : {"new", "saved", "queued", "done", "thrown"},
                            reincluded : BOOLEAN]]
  BY DEF StoreInv, TypeOK
<1>1. CASE post[a].pc \in {"saved", "thrown"}
  <2>1. CASE QueueApply(a)
    <3>1. a \in Jobs BY DEF Jobs
    <3>2. job'[a].pc = "waiting"
      BY <2>1, <3>1, GotoMoves DEF QueueApply, MovesOn, Moves, Labels, StoreInv
    <3>. QED BY <3>2 DEF Owes
  <2>2. CASE post' = post BY <1>1, <2>2 DEF Owes
  <2>3. CASE \E b \in Applies : SaveExclusions(b) BY <1>0, <1>1, <2>3 DEF Owes, SaveExclusions
  <2>4. CASE \E b \in Applies \ {a} : QueueApply(b)
    BY <1>0, <1>1, <2>4 DEF Owes, QueueApply
  <2>5. CASE \E b \in Applies : PostEnds(b) BY <1>0, <1>1, <2>5 DEF Owes, PostEnds
  <2>6. CASE \E b \in Applies : PostThrows(b) BY <1>0, <1>1, <2>6 DEF Owes, PostThrows
  <2>. QED BY <2>1, <2>2, <2>3, <2>4, <2>5, <2>6, ExcludedChanges
<1>2. CASE \/ job[a].pc \in {"waiting", "locked", "throwing", "failed"}
           \/ job[a].pc = "dropping" /\ p \in job[a].todo
  <2>1. CASE job'[a] = job[a] BY <1>2, <2>1 DEF Owes
  <2>2. CASE job'[a] # job[a] BY <1>2, <2>2, ApplySteps DEF Owes, Holding
  <2>. QED BY <2>1, <2>2
<1>. QED BY <1>1, <1>2 DEF Owes

\* A read under way keeps what it skips, and begins with all there is to skip.
LEMMA ReadingStep ==
  ASSUME StoreInv, [Next]_vars, NEW k \in Crawls, job'[k].pc = "reading"
  PROVE  \/ job[k].pc = "reading" /\ job'[k].skip = job[k].skip
         \/ BeginRead(k) /\ job'[k].skip = excluded
<1>0. k \in Jobs /\ k \notin Applies /\ TypeOK /\ job[k] \in Job
  <2>1. k \in Jobs /\ k \notin Applies BY JobsApart
  <2>. QED BY <2>1 DEF StoreInv, TypeOK
<1>1. CASE job'[k] = job[k] BY <1>1
<1>2. CASE QueueExtract /\ k = Len(crawls)
  BY <1>0, <1>2, GotoMoves DEF QueueExtract, MovesOn, Moves, Labels
<1>3. CASE Acquire(k) \/ LockTimeout(k) \/ Release(k) \/ WorkerStops(k)
  <2>1. \E l \in Labels : Moves(k, l) /\ Life(k, l)
    BY <1>0, <1>3, AcquireLives, LockTimeoutLives, ReleaseLives, WorkerStopsLives DEF LivesOn
  <2>2. CASE Holding(k)
    <3>1. lock = k BY <1>0, <2>2 DEF StoreInv, ReadsNeverOverlap
    <3>2. lock' # lock
      BY <1>0, <1>3, <2>2, <3>1, SiteReadAssumption
         DEF Acquire, LockTimeout, Release, WorkerStops, ReleasedBy, Holding
    <3>. QED BY <2>1, <2>2, <3>2 DEF Life, Moves, Holding
  <2>3. CASE ~Holding(k) BY <2>1, <2>3 DEF Life, Moves, Holding
  <2>. QED BY <2>2, <2>3
<1>4. CASE ReadStep(k)
  <2>1. CASE BeginRead(k)
    <3>. DEFINE r == [job[k] EXCEPT !.pc = "reading", !.todo = crawls[k].pages, !.skip = excluded]
    <3>1. job'[k] = r BY <1>0, <2>1 DEF BeginRead, Becomes, TypeOK
    <3>2. r.skip = excluded BY <1>0 DEF Job
    <3>. QED BY <2>1, <3>1, <3>2
  <2>2. CASE EarlySummary(k)
    <3>1. job'[k] = [job[k] EXCEPT !.early = TRUE]
      BY <1>0, <2>2 DEF EarlySummary, Becomes, TypeOK
    <3>. QED BY <1>0, <2>2, <3>1 DEF EarlySummary, Job
  <2>3. CASE ReadPage(k)
    <3>1. PICK p, ok : Becomes(k, [job[k] EXCEPT
            !.todo = @ \ {p}, !.got = @ \/ ok, !.keep = @ \cup ({p} \ job[k].skip),
            !.since = IF CheckDue(k) THEN 0 ELSE @ + 1])
      BY <2>3 DEF ReadPage
    <3>. DEFINE todo == job[k].todo \ {p}
                got == job[k].got \/ ok
                keep == job[k].keep \cup ({p} \ job[k].skip)
                since == IF CheckDue(k) THEN 0 ELSE job[k].since + 1
                r == [job[k] EXCEPT !.todo = todo, !.got = got, !.keep = keep, !.since = since]
    <3>2. job'[k] = r BY <1>0, <3>1 DEF Becomes, TypeOK
    <3>3. r.skip = job[k].skip
      <4>. HIDE DEF todo, got, keep, since
      <4>. QED BY <1>0 DEF Job
    <3>. QED BY <2>3, <3>2, <3>3 DEF ReadPage
  <2>4. CASE Recheck(k)
    <3>. DEFINE r == [job[k] EXCEPT !.pc = "rechecked", !.keep = @ \ excluded]
    <3>1. job'[k] = r BY <1>0, <2>4 DEF Recheck, Becomes, TypeOK
    <3>2. r.pc = "rechecked" BY <1>0 DEF Job
    <3>. QED BY <3>1, <3>2
  <2>5. CASE \E l \in Labels \ {"reading"} : Goto(k, l)
    BY <1>0, <2>5, GotoMoves DEF MovesOn, Moves
  <2>. QED BY <1>4, <2>1, <2>2, <2>3, <2>4, <2>5
           DEF ReadStep, CheckNewest, StopReading, Prune, SummariseRead, CloseRead, NothingRead,
               ReadThrows, GiveUp, Labels
<1>. QED BY <1>0, <1>1, <1>2, <1>3, <1>4, JobChanges

LEMMA SkipsStep ==
  ASSUME StoreInv, SkipsOwed, [Next]_vars
  PROVE  SkipsOwed'
<1>0. Crawls \subseteq Jobs /\ Applies \subseteq Jobs /\ Crawls \cap Applies = {}
      /\ kb \in [Pages -> 0..LastCrawl] /\ LastCrawl \in Nat /\ excluded \in SUBSET Pages
      /\ post \in [Applies -> [pc : {"new", "saved", "queued", "done", "thrown"},
                               reincluded : BOOLEAN]]
      /\ job \in [Jobs -> Job]
  BY SiteReadAssumption, JobsApart DEF StoreInv, TypeOK
<1>1. CASE \E a \in Applies : SaveExclusions(a)
  <2>1. PICK a \in Applies : SaveExclusions(a) BY <1>1
  <2>2. post'[a].pc = "saved" BY <1>0, <2>1 DEF SaveExclusions
  <2>. QED BY <2>2 DEF SkipsOwed, Owed, Owes
<1>2. CASE excluded' = excluded
  <2>. SUFFICES ASSUME NEW p \in excluded
                PROVE  /\ kb'[p] # 0 => Owed(p)'
                       /\ \A k \in Crawls :
                            job'[k].pc = "reading" /\ p \notin job'[k].skip => Owed(p)'
    BY <1>2 DEF SkipsOwed
  <2>1. p \in Pages BY <1>0
  \* A row was there, or the read at work writes it.
  <2>2. ASSUME kb'[p] # 0 PROVE Owed(p)'
    <3>1. kb[p] # 0 \/ \E k \in Crawls : job[k].pc = "reading" /\ p \notin job[k].skip
      <4>1. CASE kb'[p] = kb[p] BY <2>2, <4>1
      <4>2. CASE kb'[p] # kb[p] /\ \E k \in Crawls : ReadPage(k)
        <5>1. PICK k \in Crawls : ReadPage(k) BY <4>2
        <5>2. PICK q \in NextPages(k), written \in BOOLEAN :
                kb' = IF q \notin job[k].skip /\ written THEN [kb EXCEPT ![q] = k] ELSE kb
          BY <5>1 DEF ReadPage
        <5>3. q = p /\ q \notin job[k].skip BY <1>0, <2>1, <4>2, <5>2
        <5>. QED BY <5>1, <5>3 DEF ReadPage
      <4>. QED BY <2>1, <2>2, <4>1, <4>2, KbStep
    <3>2. PICK a \in Applies : Owes(a, p) BY <3>1 DEF SkipsOwed, Owed
    <3>3. CASE LookUp(a)
      <4>. DEFINE r == [job[a] EXCEPT !.pc = "dropping", !.todo = {q \in excluded : kb[q] # 0}]
      <4>1. job'[a] = r BY <1>0, <3>3 DEF LookUp, Becomes
      <4>2. r.pc = "dropping" /\ r.todo = {q \in excluded : kb[q] # 0}
        <5>. job[a] \in Job BY <1>0
        <5>. QED BY DEF Job
      <4>3. kb' = kb BY <3>3 DEF LookUp
      <4>. QED BY <2>2, <4>1, <4>2, <4>3 DEF Owed, Owes
    <3>4. CASE Drop(a)
      <4>1. p \notin job[a].todo /\ job[a].pc = "dropping" /\ post' = post
        BY <2>1, <2>2, <3>4 DEF Drop
      <4>. QED BY <3>2, <4>1 DEF Owed, Owes
    <3>5. CASE ~LookUp(a) /\ ~Drop(a) BY <3>2, <3>5, OwesStep DEF Owed
    <3>. QED BY <3>3, <3>4, <3>5
  \* A read under way has the lock, so no apply job settles anything.
  <2>3. ASSUME NEW k \in Crawls, job'[k].pc = "reading", p \notin job'[k].skip
        PROVE  Owed(p)'
    <3>1. job[k].pc = "reading" /\ p \notin job[k].skip BY <2>3, ReadingStep
    <3>2. PICK a \in Applies : Owes(a, p) BY <3>1 DEF SkipsOwed, Owed
    <3>3. Holding(k) /\ a # k BY <1>0, <3>1 DEF Holding
    <3>4. ~Holding(a) BY <1>0, <3>3 DEF StoreInv, ReadsNeverOverlap
    <3>5. ~LookUp(a) /\ ~Drop(a) BY <3>4 DEF LookUp, Drop, Holding
    <3>. QED BY <3>2, <3>5, OwesStep DEF Owed
  <2>. QED BY <2>2, <2>3
<1>. QED BY <1>1, <1>2, ExcludedChanges

LEMMA SkipsAlways == Spec => []SkipsOwed
<1>1. Init => SkipsOwed
  <2>. SUFFICES ASSUME Init PROVE SkipsOwed OBVIOUS
  <2>1. \A p \in Pages : kb[p] = 0 BY DEF Init
  <2>2. excluded \in SUBSET Pages BY DEF Init
  <2>3. \A k \in Crawls : job[k].pc = "absent" BY DEF Init, Fresh, Jobs
  <2>. QED BY <2>1, <2>2, <2>3 DEF SkipsOwed
<1>2. StoreInv /\ SkipsOwed /\ [Next]_vars => SkipsOwed' BY SkipsStep
<1>. QED BY <1>1, <1>2, StoreAlways, PTL DEF Spec

\* Once all jobs are through, nothing is owed, so no page the owner skips is left in the
\* knowledge base: the apply jobs and the reads under the lock miss none between them.
THEOREM SkippedPagesGo == Spec => []SkippedForgotten
<1>1. SkipsOwed => SkippedForgotten
  <2>. SUFFICES ASSUME SkipsOwed, Quiet, NEW p \in excluded PROVE kb[p] = 0
    BY DEF SkippedForgotten
  <2>1. \A a \in Applies : ~Owes(a, p) BY DEF Quiet, Owes
  <2>. QED BY <2>1 DEF SkipsOwed, Owed
<1>. QED BY <1>1, SkipsAlways, PTL

-------------------------------------------------------------------------------
\* What makes SummaryCurrent inductive: a read at work that is not the newest finds the
\* newest still before its work; and where the summary lags behind the knowledge base, the
\* newest read or an apply job has yet to make it, or was given up.
NewestWaits ==
  \A k \in Crawls : job[k].pc \in AtWork /\ k # Len(crawls) =>
    job[Len(crawls)].pc \in {"absent", "waiting", "failed"}
ApplyOwes(a) ==
  job[a].pc \in {"waiting", "locked", "dropping", "dropped", "throwing", "failed"}
NewestOwes == crawls # <<>> => job[Len(crawls)].pc \notin {"closing", "releasing", "done"}
SummaryOwed == summary = kb \/ (\E a \in Applies : ApplyOwes(a)) \/ NewestOwes
SummaryInv == NewestWaits /\ SummaryOwed

\* A read goes on reading after a page.
LEMMA ReadPageLabel ==
  ASSUME StoreInv, NEW k \in Crawls, ReadPage(k)
  PROVE  job'[k].pc = "reading"
<1>1. k \in Jobs /\ job[k] \in Job BY DEF Jobs, StoreInv, TypeOK
<1>2. PICK p, ok : Becomes(k, [job[k] EXCEPT
        !.todo = @ \ {p}, !.got = @ \/ ok, !.keep = @ \cup ({p} \ job[k].skip),
        !.since = IF CheckDue(k) THEN 0 ELSE @ + 1])
  BY DEF ReadPage
<1>. QED BY <1>1, <1>2 DEF ReadPage, Becomes, StoreInv, TypeOK, Job

\* A crawl that starts is the newest, and its read is not there yet.
LEMMA NewestAbsent ==
  ASSUME StoreInv, CrawlStarts
  PROVE  /\ Len(crawls') = Len(crawls) + 1
         /\ job'[Len(crawls')].pc = "absent"
<1>1. [Next]_vars BY DEF Next
<1>2. Len(crawls') = Len(crawls) + 1 /\ Len(crawls') <= LastCrawl /\ Len(crawls) \in Nat
  BY <1>1, CrawlsStep DEF StoreInv, TypeOK
<1>3. Len(crawls') \in Crawls BY <1>2, SiteReadAssumption DEF Crawls
<1>4. job[Len(crawls')].pc = "absent" BY <1>2, <1>3 DEF StoreInv, Queued
<1>. QED BY <1>2, <1>4 DEF CrawlStarts

LEMMA NewestWaitsStep ==
  ASSUME StoreInv, NewestWaits, [Next]_vars
  PROVE  NewestWaits'
<1>. SUFFICES ASSUME NEW k \in Crawls, job'[k].pc \in AtWork, k # Len(crawls')
              PROVE  job'[Len(crawls')].pc \in {"absent", "waiting", "failed"}
  BY DEF NewestWaits
<1>1. CASE CrawlStarts BY <1>1, NewestAbsent
<1>2. CASE ~CrawlStarts
  <2>. DEFINE n == Len(crawls)
  <2>0. Len(crawls') = n BY <1>2, CrawlsStep
  <2>1. job[k].pc \in AtWork BY <2>0, SetsToWork
  <2>2. job[n].pc \in {"absent", "waiting", "failed"} BY <2>0, <2>1 DEF NewestWaits
  <2>3. Crawls \subseteq Jobs /\ k # NoLock BY SiteReadAssumption DEF Jobs
  <2>4. n \in Crawls
    BY <2>1, SiteReadAssumption DEF StoreInv, Queued, TypeOK, Crawls, AtWork
  <2>5. lock = k BY <2>1, <2>3 DEF StoreInv, ReadsNeverOverlap, Holding, AtWork
  <2>6. CASE \E j \in Jobs : LivesOn(j)
    <3>1. PICK j \in Jobs, l \in Labels : Moves(j, l) /\ Life(j, l) BY <2>6 DEF LivesOn
    <3>2. CASE j # n BY <2>0, <2>2, <2>3, <2>4, <3>1, <3>2 DEF Moves
    <3>3. CASE j = n
      <4>1. ~Holding(n) BY <2>2 DEF Holding
      <4>. QED BY <2>0, <2>3, <2>5, <3>1, <3>3, <4>1 DEF Life, Moves
    <3>. QED BY <3>2, <3>3
  <2>7. CASE job' = job BY <2>0, <2>2, <2>7
  <2>. QED BY <2>6, <2>7, JobsLive DEF LockExpires
<1>. QED BY <1>1, <1>2

\* The summary is made of the knowledge base as it is, and leaves it so.
LEMMA SummaryChanges ==
  ASSUME StoreInv, [Next]_vars
  PROVE  \/ summary' = summary /\ kb' = kb
         \/ summary' = kb /\ kb' = kb
         \/ summary' = summary /\ \E k \in Crawls : ReadPage(k) \/ Prune(k)
         \/ summary' = summary /\ \E a \in Applies : Drop(a)
<1>1. CASE \E k \in Crawls : ReadStep(k)
  BY <1>1 DEF ReadStep, CheckNewest, BeginRead, EarlySummary, StopReading, ReadPage, Recheck,
     Prune, SummariseRead, CloseRead, NothingRead, ReadThrows
<1>2. CASE \E a \in Applies : ApplyStep(a)
  BY <1>2 DEF ApplyStep, LookUp, Drop, SummariseApply, ApplyThrows
<1>3. CASE \E a \in Applies : SaveExclusions(a) \/ QueueApply(a) \/ PostEnds(a) \/ PostThrows(a)
  BY <1>3 DEF SaveExclusions, QueueApply, PostEnds, PostThrows
<1>4. CASE \E j \in Jobs : Acquire(j) \/ LockTimeout(j) \/ Release(j) \/ WorkerStops(j)
  BY <1>4 DEF Acquire, LockTimeout, Release, WorkerStops
<1>. QED BY <1>1, <1>2, <1>3, <1>4
         DEF Next, vars, RequestCrawl, CrawlStarts, CrawlFetched, CrawlFails, QueueExtract,
             CrawlStops, LockExpires

\* Where a read changes the knowledge base, the newest read has its summary still to make.
LEMMA ReadLeavesOwing ==
  ASSUME StoreInv, NewestWaits, NEW k \in Crawls, ReadPage(k) \/ Prune(k)
  PROVE  NewestOwes'
<1>0. ReadStep(k) /\ k \in Jobs /\ TypeOK /\ crawls' = crawls /\ [Next]_vars
  BY DEF ReadStep, Jobs, StoreInv, ReadPage, Prune, Next
<1>1. job[k].pc \in {"reading", "rechecked"} /\ job[k].pc \in AtWork
  BY DEF ReadPage, Prune, AtWork
<1>2. k <= Len(crawls) /\ k # 0 BY <1>1, SiteReadAssumption DEF StoreInv, Queued, Crawls
<1>3. Len(crawls) \in Crawls
  BY <1>0, <1>2, SiteReadAssumption DEF TypeOK, Crawls
<1>4. CASE k = Len(crawls)
  <2>1. CASE Prune(k)
    <3>1. job'[k].pc = "pruned" BY <1>0, <2>1, GotoMoves DEF Prune, MovesOn, Moves, Labels
    <3>. QED BY <1>0, <1>4, <3>1 DEF NewestOwes
  <2>2. CASE ReadPage(k) BY <1>0, <1>4, <2>2, ReadPageLabel DEF NewestOwes
  <2>. QED BY <2>1, <2>2
<1>5. CASE k # Len(crawls)
  <2>1. job[Len(crawls)].pc \in {"absent", "waiting", "failed"} BY <1>1, <1>5 DEF NewestWaits
  <2>2. job'[Len(crawls)] = job[Len(crawls)]
    BY <1>0, <1>3, <1>5, ReadMoves DEF MovesOn, Moves, Jobs
  <2>. QED BY <1>0, <2>1, <2>2 DEF NewestOwes
<1>. QED BY <1>4, <1>5

\* The newest read goes on owing the summary until it makes it.
LEMMA NewestOwesStep ==
  ASSUME StoreInv, [Next]_vars, NewestOwes
  PROVE  NewestOwes' \/ (summary' = kb /\ kb' = kb)
<1>. DEFINE n == Len(crawls)
<1>1. CASE CrawlStarts BY <1>1, NewestAbsent DEF NewestOwes
<1>2. CASE ~CrawlStarts /\ crawls' # <<>>
  <2>0. Len(crawls') = n /\ n # 0 BY <1>2, CrawlsStep DEF Row
  <2>1. n \in Crawls /\ n \in Jobs /\ n \notin Applies /\ TypeOK
    <3>1. n \in Crawls /\ TypeOK
      BY <2>0, SiteReadAssumption DEF StoreInv, TypeOK, Crawls
    <3>. QED BY <3>1, JobsApart
  <2>2. crawls # <<>> BY <2>0
  <2>3. job[n].pc \notin {"closing", "releasing", "done"} BY <2>2 DEF NewestOwes
  <2>4. SUFFICES \/ job'[n].pc \notin {"closing", "releasing", "done"}
                 \/ summary' = kb /\ kb' = kb
    BY <2>0, <2>4 DEF NewestOwes
  <2>5. CASE job'[n] = job[n] BY <2>3, <2>5
  <2>6. CASE QueueExtract
    <3>1. job'[n].pc = "waiting"
      BY <2>1, <2>6, GotoMoves DEF QueueExtract, MovesOn, Moves, Labels
    <3>. QED BY <3>1
  <2>7. CASE Acquire(n)
    <3>1. job'[n].pc = "locked" BY <2>1, <2>7, GotoMoves DEF Acquire, MovesOn, Moves, Labels
    <3>. QED BY <3>1
  <2>8. CASE LockTimeout(n)
    <3>1. job'[n] = Retried(n) BY <2>1, <2>8 DEF LockTimeout, Becomes, TypeOK
    <3>2. Retried(n).pc \in {"waiting", "failed"} BY DEF Retried, Anew, Fresh
    <3>. QED BY <3>1, <3>2
  <2>9. CASE Release(n)
    <3>1. job'[n] = Retried(n) BY <2>1, <2>3, <2>9 DEF Release, Becomes, TypeOK
    <3>2. Retried(n).pc \in {"waiting", "failed"} BY DEF Retried, Anew, Fresh
    <3>. QED BY <3>1, <3>2
  <2>10. CASE WorkerStops(n)
    <3>. DEFINE m == IF job[n].stalls < MaxStalls THEN "waiting" ELSE "failed"
                r == Anew(m, job[n].tries, job[n].stalls + 1)
    <3>1. r.pc = m BY DEF Anew, Fresh
    <3>2. job'[n] = r BY <2>1, <2>10 DEF WorkerStops, Becomes, TypeOK
    <3>. HIDE DEF r
    <3>. QED BY <3>1, <3>2
  <2>11. CASE ReadStep(n)
    <3>1. CASE SummariseRead(n) BY <3>1 DEF SummariseRead
    <3>2. CASE CheckNewest(n)
      <4>1. Goto(n, "begun") BY <3>2 DEF CheckNewest, IsSuperseded
      <4>2. job'[n].pc = "begun" BY <2>1, <4>1, GotoMoves DEF MovesOn, Moves, Labels
      <4>. QED BY <4>2
    <3>3. CASE StopReading(n) BY <3>3 DEF StopReading, IsSuperseded
    <3>4. CASE CloseRead(n) BY <2>3, <3>4 DEF CloseRead
    <3>5. CASE Prune(n) \/ NothingRead(n) \/ ReadThrows(n)
      <4>1. PICK l \in {"pruned", "throwing"} : Goto(n, l)
        BY <3>5 DEF Prune, NothingRead, ReadThrows
      <4>2. job'[n].pc = l BY <2>1, <4>1, GotoMoves DEF MovesOn, Moves, Labels
      <4>. QED BY <4>2
    <3>6. CASE BeginRead(n) \/ EarlySummary(n) \/ Recheck(n) \/ ReadPage(n)
      <4>0. job[n] \in Job BY <2>1 DEF TypeOK
      <4>1. CASE BeginRead(n)
        <5>1. job'[n] = [job[n] EXCEPT !.pc = "reading", !.todo = crawls[n].pages,
                                       !.skip = excluded]
          BY <2>1, <4>1 DEF BeginRead, Becomes, TypeOK
        <5>2. job'[n].pc = "reading" BY <4>0, <5>1 DEF Job
        <5>. QED BY <5>2
      <4>2. CASE EarlySummary(n)
        <5>1. job'[n] = [job[n] EXCEPT !.early = TRUE]
          BY <2>1, <4>2 DEF EarlySummary, Becomes, TypeOK
        <5>2. job'[n].pc = "reading" BY <4>0, <4>2, <5>1 DEF EarlySummary, Job
        <5>. QED BY <5>2
      <4>3. CASE Recheck(n)
        <5>1. job'[n] = [job[n] EXCEPT !.pc = "rechecked", !.keep = @ \ excluded]
          BY <2>1, <4>3 DEF Recheck, Becomes, TypeOK
        <5>2. job'[n].pc = "rechecked" BY <4>0, <5>1 DEF Job
        <5>. QED BY <5>2
      <4>4. CASE ReadPage(n) BY <2>1, <4>4, ReadPageLabel
      <4>. QED BY <3>6, <4>1, <4>2, <4>3, <4>4
    <3>. QED BY <2>11, <3>1, <3>2, <3>3, <3>4, <3>5, <3>6 DEF ReadStep
  <2>. QED BY <2>1, <2>5, <2>6, <2>7, <2>8, <2>9, <2>10, <2>11, JobChanges
<1>. QED BY <1>1, <1>2 DEF NewestOwes

LEMMA SummaryStep ==
  ASSUME StoreInv, SummaryInv, [Next]_vars
  PROVE  SummaryInv'
<1>. SUFFICES SummaryOwed' BY NewestWaitsStep DEF SummaryInv
<1>1. CASE NewestOwes BY <1>1, NewestOwesStep DEF SummaryOwed
<1>2. CASE \E a \in Applies : ApplyOwes(a)
  <2>1. PICK a \in Applies : ApplyOwes(a) BY <1>2
  <2>2. CASE job'[a] = job[a] BY <2>1, <2>2 DEF ApplyOwes, SummaryOwed
  <2>3. CASE SummariseApply(a) BY <2>3 DEF SummariseApply, SummaryOwed
  <2>4. CASE job'[a] # job[a] /\ ~SummariseApply(a)
    <3>1. ApplyOwes(a)' BY <2>1, <2>4, ApplySteps DEF ApplyOwes, Holding
    <3>. QED BY <3>1 DEF SummaryOwed
  <2>. QED BY <2>2, <2>3, <2>4
<1>3. CASE summary = kb
  <2>1. CASE summary' = kb /\ kb' = kb BY <2>1 DEF SummaryOwed
  <2>2. CASE \E k \in Crawls : ReadPage(k) \/ Prune(k)
    BY <2>2, ReadLeavesOwing DEF SummaryOwed, SummaryInv
  <2>3. CASE \E a \in Applies : Drop(a)
    <3>1. PICK a \in Applies : Drop(a) BY <2>3
    <3>2. a \in Jobs /\ TypeOK BY DEF Jobs, StoreInv
    <3>3. job'[a].pc = "dropped" BY <3>1, <3>2, GotoMoves DEF Drop, MovesOn, Moves, Labels
    <3>. QED BY <3>3 DEF SummaryOwed, ApplyOwes
  <2>. QED BY <1>3, <2>1, <2>2, <2>3, SummaryChanges
<1>. QED BY <1>1, <1>2, <1>3 DEF SummaryInv, SummaryOwed

LEMMA SummaryAlways == Spec => []SummaryInv
<1>1. Init => SummaryInv
  <2>. SUFFICES ASSUME Init PROVE SummaryInv OBVIOUS
  <2>1. \A k \in Crawls : job[k].pc = "absent" BY DEF Init, Fresh, Jobs
  <2>. QED BY <2>1 DEF Init, SummaryInv, NewestWaits, SummaryOwed, AtWork
<1>2. StoreInv /\ SummaryInv /\ [Next]_vars => SummaryInv' BY SummaryStep
<1>. QED BY <1>1, <1>2, StoreAlways, PTL DEF Spec

\* Once all jobs are through and the newest crawl was read, the summary is that of the
\* knowledge base: whatever stopped or failed between changing the two was done again.
THEOREM SummaryIsCurrent == Spec => []SummaryCurrent
<1>1. SummaryInv => SummaryCurrent
  <2>. SUFFICES ASSUME SummaryInv, Quiet, crawls # <<>>, job[Len(crawls)].pc = "done"
                PROVE  summary = kb
    BY DEF SummaryCurrent
  <2>1. \A a \in Applies : ~ApplyOwes(a) BY DEF Quiet, ApplyOwes
  <2>. QED BY <2>1 DEF SummaryInv, SummaryOwed, NewestOwes
<1>. QED BY <1>1, SummaryAlways, PTL
===============================================================================
