----------------------------- MODULE Billing_proofs -----------------------------
(***************************************************************************)
(* Proofs about the Razorpay webhook (Billing): its type invariant, that a *)
(* processed payment or activation has been applied, and that a store's    *)
(* billing status is that of the subscription it is on.                    *)
(*                                                                         *)
(* Neither invariant is inductive.  MarkProcessed sets the ledger from the *)
(* label alone, so the invariant says what each label stands for: a        *)
(* delivery at "applied" has applied its event, one at "owning" has found  *)
(* a store of the user or tried to make one.  What was applied stays       *)
(* applied: no statement takes an owner or a pack away or clears a status, *)
(* and only an activation makes a store active or puts it on a             *)
(* subscription.                                                           *)
(***************************************************************************)
EXTENDS Billing, TLAPS

\* What the handler does for an event, as the two properties say it.
Applied(e) ==
  SaysWhom(e) =>
    /\ e.kind = "paid" => balance[e.subject] >= 1
    /\ e.kind = "activated" =>
         \E store \in Stores : <<UserOf[e.subject], store>> \in owners /\ status[store] # "none"

Lapsed(s) == ~Delivered("activated", s) => \A store \in WithSub(s) : status[store] # "active"

OwnersStand == \A u \in Users, store \in Stores : <<u, store>> \in owners => status[store] # "none"

Meaning(d) ==
  /\ pc[d] \in {"minting", "owning"} =>
       d[1].kind = "activated" /\ UserOf[d[1].subject] \in Users
  /\ pc[d] \in {"owning", "alerting"} => found[d] \in Stores
  /\ pc[d] = "owning" /\ found[d] # d => <<UserOf[d[1].subject], found[d]>> \in owners
  /\ pc[d] \in {"failing", "alerting"} => d[1].kind = "failed" /\ Lapsed(d[1].subject)
  /\ pc[d] = "ending" => d[1].kind = "cancelled"
  /\ pc[d] = "applied" => Applied(d[1])
  /\ pc[d] = "applied" /\ d[1].kind \in {"failed", "cancelled"} => Lapsed(d[1].subject)

LabelsMean == \A d \in Deliveries : Meaning(d)

\* The two halves of StatusFollowsSubscription.
LapsesHaveCause ==
  \A store \in Stores :
    /\ status[store] = "past_due" => Delivered("failed", sub[store])
    /\ status[store] = "canceled" => Delivered("cancelled", sub[store]) \/ store \in deleted

ProcessedLapsed ==
  \A e \in Events :
    ledger[e] = "processed" /\ e.kind \in {"failed", "cancelled"} => Lapsed(e.subject)

BillingInv ==
  TypeOK /\ OwnersStand /\ LabelsMean /\ ProcessedMeansApplied /\ LapsesHaveCause /\ ProcessedLapsed

\* The event of a delivery is one of the events; the id it is about depends on its kind.
LEMMA EventOf ==
  ASSUME NEW d \in Deliveries
  PROVE  /\ d[1] \in Events
         /\ d[1].kind \in Kinds
         /\ d[1].kind = "activated" =>
              d[1].subject \in Subs /\ UserOf[d[1].subject] \in Users \cup {NoUser}
         /\ d \in Stores
  <1>1. d[1] \in Events
    BY BillingAssumption DEF BillingAssumption
  <1>2. d[1] \in [kind : Kinds, subject : Subs \cup {FirstStore, NoId}, pack : BOOLEAN]
    BY <1>1, BillingAssumption DEF BillingAssumption
  <1>3. d[1].kind = "activated" => d[1].subject \in Subs
    BY <1>1, BillingAssumption DEF BillingAssumption
  <1> QED
    BY <1>1, <1>2, <1>3, BillingAssumption DEF BillingAssumption, Kinds, Stores

LEMMA TypeInit == Init => TypeOK
  <1> SUFFICES ASSUME Init PROVE TypeOK
    OBVIOUS
  <1>1. UserOf[FirstSub] \in Users /\ FirstStore \in Stores
    BY BillingAssumption DEF BillingAssumption, Stores
  <1>2. pc \in [Deliveries -> Labels] /\ found \in [Deliveries -> Stores \cup {NoStore}]
    BY DEF Init, Labels
  <1> QED
    BY <1>1, <1>2, BillingAssumption DEF BillingAssumption, Init, TypeOK, Statuses, Stores

LEMMA TypeStep ==
  ASSUME TypeOK, LabelsMean, NEW d \in Deliveries, DeliveryStep(d)
  PROVE  TypeOK'
  <1> USE EventOf DEF TypeOK, Goto, Return, Labels
  <1>1. CASE Check(d)      BY <1>1 DEF Check
  <1>2. CASE Record(d)     BY <1>2 DEF Record
  <1>3. CASE FindOwner(d)  BY <1>3 DEF FindOwner
  <1>4. CASE KeepStore(d)  BY <1>4 DEF KeepStore, LabelsMean, Meaning, Statuses
  <1>5. CASE MintStore(d)
    <2>1. d[1].subject \in Subs /\ d \in Stores
      BY <1>5 DEF MintStore, LabelsMean, Meaning
    <2>2. sub' \in [Stores -> Subs \cup {NoSub}]       BY <1>5, <2>1 DEF MintStore
    <2>3. status' \in [Stores -> Statuses]             BY <1>5 DEF MintStore, Statuses
    <2>4. pc' \in [Deliveries -> Labels]               BY <1>5 DEF MintStore
    <2>5. found' \in [Deliveries -> Stores \cup {NoStore}]  BY <1>5, <2>1 DEF MintStore
    <2> QED  BY <1>5, <2>2, <2>3, <2>4, <2>5 DEF MintStore
  <1>6. CASE AddOwner(d)   BY <1>6 DEF AddOwner, LabelsMean, Meaning
  <1>7. CASE AddTopup(d)
    <2>1. \A store \in Stores : balance[store] \in Nat /\ balance[store] + 1 \in Nat
      OBVIOUS
    <2>2. balance' \in [Stores -> Nat]  BY <1>7, <2>1 DEF AddTopup
    <2> QED  BY <1>7, <2>2 DEF AddTopup
  <1>8. CASE MarkPastDue(d)    BY <1>8 DEF MarkPastDue, Statuses
  <1>9. CASE FindFailed(d)     BY <1>9 DEF FindFailed, WithSub
  <1>10. CASE Alert(d)         BY <1>10 DEF Alert, LabelsMean, Meaning
  <1>11. CASE FindCancelled(d) BY <1>11 DEF FindCancelled, WithSub
  <1>12. CASE Cancel(d)        BY <1>12 DEF Cancel, Statuses
  <1>13. CASE MarkProcessed(d) BY <1>13 DEF MarkProcessed
  <1>14. CASE Crash(d)         BY <1>14 DEF Crash
  <1> QED
    BY <1>1, <1>2, <1>3, <1>4, <1>5, <1>6, <1>7, <1>8, <1>9, <1>10, <1>11, <1>12, <1>13, <1>14
    DEF DeliveryStep

\* What a step may do at all: no owner removed, no status cleared, no pack taken, no
\* delivery back at its start.
Forward ==
  /\ owners \subseteq owners'
  /\ deleted \subseteq deleted'
  /\ \A store \in Stores : status[store] # "none" => status'[store] # "none"
  /\ \A store \in Stores : balance'[store] >= balance[store]
  /\ \A d \in Deliveries : Begun(d) => Begun(d)'

LEMMA StepForward ==
  ASSUME TypeOK, LabelsMean, NEW d \in Deliveries, DeliveryStep(d)
  PROVE  Forward
  <1> USE EventOf DEF TypeOK
  <1>1. owners \subseteq owners' /\ deleted' = deleted
    BY DEF DeliveryStep, Check, Record, FindOwner, KeepStore, MintStore, AddOwner, AddTopup,
           MarkPastDue, FindFailed, Alert, FindCancelled, Cancel, MarkProcessed, Crash
  <1>2. \A store \in Stores : status[store] # "none" => status'[store] # "none"
    BY DEF DeliveryStep, Check, Record, FindOwner, KeepStore, MintStore, AddOwner, AddTopup,
           MarkPastDue, FindFailed, Alert, FindCancelled, Cancel, MarkProcessed, Crash
  <1>3. \A store \in Stores : balance'[store] >= balance[store]
    <2>1. \A store \in Stores : balance[store] \in Nat  OBVIOUS
    <2>2. \A store \in Stores : balance'[store] \in {balance[store], balance[store] + 1}
      BY DEF DeliveryStep, Check, Record, FindOwner, KeepStore, MintStore, AddOwner, AddTopup,
             MarkPastDue, FindFailed, Alert, FindCancelled, Cancel, MarkProcessed, Crash
    <2> QED  BY <2>1, <2>2
  <1>4. \A o \in Deliveries : Begun(o) => Begun(o)'
    BY DEF DeliveryStep, Check, Record, FindOwner, KeepStore, MintStore, AddOwner, AddTopup,
           MarkPastDue, FindFailed, Alert, FindCancelled, Cancel, MarkProcessed, Crash,
           Goto, Return, Begun, NotBegun
  <1> QED  BY <1>1, <1>2, <1>3, <1>4 DEF Forward

LEMMA AppliedStays ==
  ASSUME TypeOK, TypeOK', Forward, NEW e \in Events, Applied(e)
  PROVE  Applied(e)'
  <1> SUFFICES ASSUME SaysWhom(e)
               PROVE  /\ e.kind = "paid" => balance'[e.subject] >= 1
                      /\ e.kind = "activated" =>
                           \E store \in Stores : /\ <<UserOf[e.subject], store>> \in owners'
                                                 /\ status'[store] # "none"
    BY DEF Applied, SaysWhom
  <1>1. e.kind = "paid" => balance'[e.subject] >= 1
    <2> HAVE e.kind = "paid"
    <2>1. e.subject \in Stores  BY DEF SaysWhom
    <2>2. balance[e.subject] >= 1 /\ balance'[e.subject] >= balance[e.subject]
      BY <2>1 DEF Applied, Forward
    <2>3. balance[e.subject] \in Nat /\ balance'[e.subject] \in Nat
      BY <2>1 DEF TypeOK
    <2> QED  BY <2>2, <2>3
  <1>2. e.kind = "activated" =>
          \E store \in Stores : /\ <<UserOf[e.subject], store>> \in owners'
                                /\ status'[store] # "none"
    BY DEF Applied, Forward
  <1> QED  BY <1>1, <1>2

\* Whose event has been delivered, has been delivered.
LEMMA DeliveredStays ==
  ASSUME Forward, NEW kind, NEW s, Delivered(kind, s)
  PROVE  Delivered(kind, s)'
  BY DEF Forward, Delivered

\* Only the activation of a subscription puts a store on it or makes one active there.
LEMMA OnlyActivation ==
  ASSUME TypeOK, LabelsMean, NEW d \in Deliveries, DeliveryStep(d), NEW store \in Stores
  PROVE  \/ sub'[store] = sub[store] /\ (status'[store] = "active" => status[store] = "active")
         \/ /\ d[1].kind = "activated" /\ sub'[store] = d[1].subject /\ status'[store] = "active"
            /\ Begun(d)
  <1> USE EventOf DEF TypeOK
  <1>1. CASE KeepStore(d)
    BY <1>1 DEF KeepStore, LabelsMean, Meaning, Begun, NotBegun
  <1>2. CASE MintStore(d)
    BY <1>2 DEF MintStore, LabelsMean, Meaning, Begun, NotBegun
  <1>3. CASE ~KeepStore(d) /\ ~MintStore(d)
    BY <1>3 DEF DeliveryStep, Check, Record, FindOwner, AddOwner, AddTopup, MarkPastDue,
                FindFailed, Alert, FindCancelled, Cancel, MarkProcessed, Crash
  <1> QED  BY <1>1, <1>2, <1>3

LEMMA LapsedStays ==
  ASSUME TypeOK, LabelsMean, NEW d \in Deliveries, DeliveryStep(d), NEW s, Lapsed(s)
  PROVE  Lapsed(s)'
  <1> SUFFICES ASSUME ~Delivered("activated", s)', NEW store \in Stores, sub'[store] = s
               PROVE  status'[store] # "active"
    BY DEF Lapsed, WithSub
  <1>1. Forward  BY StepForward
  <1>2. ~Delivered("activated", s)
    BY <1>1, DeliveredStays
  <1>3. sub'[store] = sub[store] /\ (status'[store] = "active" => status[store] = "active")
    BY <1>2, OnlyActivation DEF Delivered
  <1> QED  BY <1>2, <1>3 DEF Lapsed, WithSub

LEMMA OwnersStep ==
  ASSUME BillingInv, NEW d \in Deliveries, DeliveryStep(d)
  PROVE  OwnersStand'
  <1> USE DEF BillingInv
  <1>1. CASE AddOwner(d)
    <2>1. status[d] # "none" /\ d \in Stores
      BY <1>1, EventOf DEF AddOwner
    <2>2. owners' = owners \cup {<<UserOf[d[1].subject], d>>} /\ status' = status
      BY <1>1 DEF AddOwner
    <2> QED  BY <2>1, <2>2 DEF OwnersStand
  <1>2. CASE ~AddOwner(d)
    <2>1. owners' = owners
      BY <1>2 DEF DeliveryStep, Check, Record, FindOwner, KeepStore, MintStore, AddTopup,
                  MarkPastDue, FindFailed, Alert, FindCancelled, Cancel, MarkProcessed, Crash
    <2> QED  BY <2>1, StepForward DEF OwnersStand, Forward
  <1> QED  BY <1>1, <1>2

\* A delivery that does not move keeps what its label means.
LEMMA OthersKeepMeaning ==
  ASSUME BillingInv, NEW d \in Deliveries, DeliveryStep(d), NEW o \in Deliveries \ {d}
  PROVE  Meaning(o)'
  <1> USE DEF BillingInv
  <1>1. Meaning(o)  BY DEF LabelsMean
  <1>2. pc'[o] = pc[o] /\ found'[o] = found[o]
    BY DEF TypeOK, DeliveryStep, Check, Record, FindOwner, KeepStore, MintStore, AddOwner, AddTopup,
           MarkPastDue, FindFailed, Alert, FindCancelled, Cancel, MarkProcessed, Crash, Goto, Return
  <1>3. Applied(o[1]) => Applied(o[1])'
    BY AppliedStays, TypeStep, StepForward, EventOf
  <1>4. Lapsed(o[1].subject) => Lapsed(o[1].subject)'
    BY LapsedStays
  <1>5. owners \subseteq owners'
    BY StepForward DEF Forward
  <1> QED  BY <1>1, <1>2, <1>3, <1>4, <1>5 DEF Meaning

\* The handler of a failure or an end leaves no store active on the subscription.
LEMMA LapsesAll ==
  ASSUME BillingInv, NEW d \in Deliveries, MarkPastDue(d) \/ Cancel(d)
  PROVE  Lapsed(d[1].subject)'
  <1>1. status' \in [Stores -> Statuses] /\ sub' = sub
    BY DEF BillingInv, TypeOK, MarkPastDue, Cancel, Statuses
  <1>2. \A store \in WithSub(d[1].subject) : status'[store] # "active"
    BY DEF MarkPastDue, Cancel, WithSub
  <1> QED  BY <1>1, <1>2 DEF Lapsed, WithSub

\* The delivery that moves: what its new label means, action by action.
LEMMA MoverGetsMeaning ==
  ASSUME BillingInv, NEW d \in Deliveries, DeliveryStep(d)
  PROVE  Meaning(d)'
  <1> USE EventOf DEF BillingInv, Meaning, Goto, TypeOK
  <1>0. TypeOK'  BY TypeStep
  <1>1. CASE Check(d)     BY <1>1 DEF Check
  <1>2. CASE Record(d)    BY <1>2 DEF Record
  <1>3. CASE FindOwner(d)
    <2>1. CASE UserOf[d[1].subject] = NoUser
      <3>1. ~SaysWhom(d[1]) /\ d[1].kind = "activated" /\ UserOf[d[1].subject] \notin Users
        BY <1>3, <2>1, BillingAssumption DEF BillingAssumption, SaysWhom, FindOwner
      <3>2. pc'[d] = "applied"
        BY <1>3, <2>1, <3>1 DEF FindOwner
      <3> QED  BY <3>1, <3>2 DEF Applied, SaysWhom
    <2>2. CASE UserOf[d[1].subject] # NoUser
      BY <1>3, <2>2 DEF FindOwner
    <2> QED  BY <2>1, <2>2
  <1>4. CASE KeepStore(d)
    <2>1. d[1].kind = "activated" /\ found[d] \in Stores
          /\ <<UserOf[d[1].subject], found[d]>> \in owners
      BY <1>4 DEF KeepStore, LabelsMean
    <2>2. owners' = owners /\ status'[found[d]] = "active" /\ pc'[d] = "applied"
      BY <1>4, <2>1 DEF KeepStore
    <2> QED  BY <2>1, <2>2 DEF Applied
  <1>5. CASE MintStore(d)
    <2>1. d[1].kind = "activated" /\ UserOf[d[1].subject] \in Users
          /\ pc'[d] = "owning" /\ found'[d] = d
      BY <1>5 DEF MintStore, LabelsMean
    <2> QED  BY <2>1
  <1>6. CASE AddOwner(d)
    <2>1. d[1].kind = "activated" /\ status[d] # "none"
      BY <1>6 DEF AddOwner, LabelsMean
    <2>2. <<UserOf[d[1].subject], d>> \in owners' /\ status' = status /\ pc'[d] = "applied"
      BY <1>6 DEF AddOwner
    <2> QED  BY <2>1, <2>2 DEF Applied
  <1>7. CASE AddTopup(d)
    <2>1. d[1].kind = "paid" /\ pc'[d] = "applied"
      BY <1>7 DEF AddTopup
    <2>2. SaysWhom(d[1]) => balance'[d[1].subject] >= 1
      <3> HAVE SaysWhom(d[1])
      <3>1. d[1].pack /\ d[1].subject \in Stores /\ balance[d[1].subject] \in Nat
        BY <2>1 DEF SaysWhom
      <3>2. balance'[d[1].subject] = balance[d[1].subject] + 1
        BY <1>7, <3>1 DEF AddTopup
      <3> QED  BY <3>1, <3>2
    <2> QED  BY <2>1, <2>2 DEF Applied, SaysWhom
  <1>8. CASE MarkPastDue(d)
    <2>1. Lapsed(d[1].subject)'  BY <1>8, LapsesAll
    <2>2. d[1].kind = "failed" /\ pc'[d] \in {"applied", "failing"}
      BY <1>8 DEF MarkPastDue
    <2> QED  BY <2>1, <2>2 DEF Applied
  <1>9. CASE FindFailed(d)
    <2>1. d[1].kind = "failed" /\ Lapsed(d[1].subject)
      BY <1>9 DEF FindFailed, LabelsMean
    <2>2. pc'[d] \in {"applied", "alerting"} /\ (pc'[d] = "alerting" => found'[d] \in Stores)
      BY <1>9 DEF FindFailed, WithSub
    <2>3. Lapsed(d[1].subject)'  BY <2>1, LapsedStays
    <2> QED  BY <2>1, <2>2, <2>3 DEF Applied
  <1>10. CASE Alert(d)
    <2>1. d[1].kind = "failed" /\ Lapsed(d[1].subject) /\ pc'[d] = "applied"
      BY <1>10 DEF Alert, LabelsMean
    <2>2. Lapsed(d[1].subject)'  BY <2>1, LapsedStays
    <2> QED  BY <2>1, <2>2 DEF Applied
  <1>11. CASE FindCancelled(d)
    <2>1. d[1].kind = "cancelled" /\ pc'[d] \in {"applied", "ending"}
          /\ (pc'[d] = "applied" => d[1].subject = NoId)
      BY <1>11 DEF FindCancelled
    <2>2. \A store \in Stores : sub'[store] # NoId
      BY <1>0, BillingAssumption DEF BillingAssumption
    <2>3. Lapsed(NoId)'  BY <2>2 DEF Lapsed, WithSub
    <2> QED  BY <2>1, <2>3 DEF Applied
  <1>12. CASE Cancel(d)
    <2>1. d[1].kind = "cancelled" /\ pc'[d] = "applied"  BY <1>12 DEF Cancel, LabelsMean
    <2>2. Lapsed(d[1].subject)'  BY <1>12, LapsesAll
    <2> QED  BY <2>1, <2>2 DEF Applied
  <1>13. CASE MarkProcessed(d)  BY <1>13 DEF MarkProcessed, Return
  <1>14. CASE Crash(d)          BY <1>14 DEF Crash, Return
  <1> QED
    BY <1>1, <1>2, <1>3, <1>4, <1>5, <1>6, <1>7, <1>8, <1>9, <1>10, <1>11, <1>12, <1>13, <1>14
    DEF DeliveryStep

LEMMA MeaningStep ==
  ASSUME BillingInv, NEW d \in Deliveries, DeliveryStep(d)
  PROVE  LabelsMean'
  <1> SUFFICES ASSUME NEW o \in Deliveries PROVE Meaning(o)'
    BY DEF LabelsMean
  <1>1. CASE o = d  BY <1>1, MoverGetsMeaning
  <1>2. CASE o # d  BY <1>2, OthersKeepMeaning
  <1> QED  BY <1>1, <1>2

\* An event whose row turns to "processed" is that of a delivery at "applied".
LEMMA LedgerMoves ==
  ASSUME BillingInv, NEW d \in Deliveries, DeliveryStep(d),
         NEW e \in Events, ledger'[e] = "processed", ledger[e] # "processed"
  PROVE  e = d[1] /\ pc[d] = "applied"
  BY EventOf DEF BillingInv, TypeOK, DeliveryStep, Check, Record, FindOwner, KeepStore, MintStore,
     AddOwner, AddTopup, MarkPastDue, FindFailed, Alert, FindCancelled, Cancel, MarkProcessed, Crash

LEMMA LedgerStep ==
  ASSUME BillingInv, NEW d \in Deliveries, DeliveryStep(d)
  PROVE  ProcessedMeansApplied'
  <1> SUFFICES ASSUME NEW e \in Events, ledger'[e] = "processed" PROVE Applied(e)'
    BY DEF ProcessedMeansApplied, Applied, SaysWhom
  <1> USE DEF BillingInv
  <1>1. Applied(e)
    <2>1. CASE ledger[e] = "processed"
      BY <2>1 DEF ProcessedMeansApplied, Applied
    <2>2. CASE ledger[e] # "processed"
      BY <2>2, LedgerMoves DEF LabelsMean, Meaning
    <2> QED  BY <2>1, <2>2
  <1> QED  BY <1>1, AppliedStays, TypeStep, StepForward

LEMMA ProcessedLapsedStep ==
  ASSUME BillingInv, NEW d \in Deliveries, DeliveryStep(d)
  PROVE  ProcessedLapsed'
  <1> SUFFICES ASSUME NEW e \in Events, ledger'[e] = "processed", e.kind \in {"failed", "cancelled"}
               PROVE  Lapsed(e.subject)'
    BY DEF ProcessedLapsed
  <1> USE DEF BillingInv
  <1>1. Lapsed(e.subject)
    <2>1. CASE ledger[e] = "processed"
      BY <2>1 DEF ProcessedLapsed
    <2>2. CASE ledger[e] # "processed"
      BY <2>2, LedgerMoves DEF LabelsMean, Meaning
    <2> QED  BY <2>1, <2>2
  <1> QED  BY <1>1, LapsedStays

LEMMA CauseStep ==
  ASSUME BillingInv, NEW d \in Deliveries, DeliveryStep(d)
  PROVE  LapsesHaveCause'
  <1> SUFFICES ASSUME NEW store \in Stores
               PROVE  /\ status'[store] = "past_due" => Delivered("failed", sub[store])'
                      /\ status'[store] = "canceled" =>
                           Delivered("cancelled", sub[store])' \/ store \in deleted'
    BY DEF LapsesHaveCause
  <1> USE DEF BillingInv
  <1>1. Forward  BY StepForward
  <1>2. CASE status'[store] = status[store] /\ sub'[store] = sub[store]
    <2>1. \A kind : Delivered(kind, sub[store]) => Delivered(kind, sub[store])'
      BY <1>1, <1>2 DEF Forward, Delivered
    <2> QED  BY <1>1, <1>2, <2>1 DEF LapsesHaveCause, Forward
  <1>3. CASE status'[store] # status[store] \/ sub'[store] # sub[store]
    <2>1. CASE MarkPastDue(d)
      <3>1. sub' = sub /\ sub[store] = d[1].subject /\ status'[store] = "past_due"
        BY <1>3, <2>1 DEF MarkPastDue, WithSub, TypeOK
      <3>2. d[1].kind = "failed" /\ Begun(d)'
        BY <2>1 DEF MarkPastDue, Goto, TypeOK, Begun, NotBegun
      <3> QED  BY <3>1, <3>2 DEF Delivered
    <2>2. CASE Cancel(d)
      <3>1. sub' = sub /\ sub[store] = d[1].subject /\ status'[store] = "canceled"
        BY <1>3, <2>2 DEF Cancel, WithSub, TypeOK
      <3>2. d[1].kind = "cancelled" /\ Begun(d)'
        BY <2>2 DEF Cancel, Goto, TypeOK, Begun, NotBegun, LabelsMean, Meaning
      <3> QED  BY <3>1, <3>2 DEF Delivered
    <2>3. CASE ~MarkPastDue(d) /\ ~Cancel(d)
      <3>1. status'[store] = "active"
        BY <1>3, <2>3, EventOf DEF TypeOK, LabelsMean, Meaning, DeliveryStep, Check, Record, FindOwner,
           KeepStore, MintStore, AddOwner, AddTopup, FindFailed, Alert, FindCancelled,
           MarkProcessed, Crash
      <3> QED  BY <3>1
    <2> QED  BY <2>1, <2>2, <2>3
  <1> QED  BY <1>2, <1>3

\* A closed account is neither active nor without a row.
LEMMA DeleteStep ==
  ASSUME BillingInv, NEW gone \in Stores, DeleteAccount(gone)
  PROVE  BillingInv'
  <1> USE DEF BillingInv
  <1>1. /\ status' = [status EXCEPT ![gone] = "canceled"] /\ deleted' = deleted \cup {gone}
        /\ UNCHANGED <<ledger, sub, balance, owners, alerts, pc, found>>
    BY DEF DeleteAccount
  <1>2. TypeOK'
    BY <1>1 DEF TypeOK, Statuses
  <1>3. \A store \in Stores : status'[store] = IF store = gone THEN "canceled" ELSE status[store]
    BY <1>1 DEF TypeOK
  <1>4. \A e \in Events : Applied(e) => Applied(e)'
    <2>1. Forward
      <3>1. \A store \in Stores : balance[store] \in Nat  BY DEF TypeOK
      <3> QED  BY <1>1, <1>3, <3>1 DEF Forward, Begun
    <2> QED  BY <2>1, <1>2, AppliedStays
  <1>5. \A s : Lapsed(s) => Lapsed(s)'
    <2> SUFFICES ASSUME NEW s, Lapsed(s) PROVE Lapsed(s)'
      OBVIOUS
    <2>1. Delivered("activated", s)' <=> Delivered("activated", s)
      BY <1>1 DEF Delivered, Begun
    <2>2. WithSub(s)' = WithSub(s)
      BY <1>1 DEF WithSub
    <2> QED  BY <1>3, <2>1, <2>2 DEF Lapsed, WithSub
  <1>6. OwnersStand'
    BY <1>1, <1>3 DEF OwnersStand
  <1>7. LabelsMean'
    <2> SUFFICES ASSUME NEW d \in Deliveries PROVE Meaning(d)'
      BY DEF LabelsMean
    <2>1. Meaning(d) /\ d[1] \in Events  BY EventOf DEF LabelsMean
    <2>2. Applied(d[1]) => Applied(d[1])'  BY <1>4, <2>1
    <2>3. Lapsed(d[1].subject) => Lapsed(d[1].subject)'  BY <1>5
    <2> QED  BY <1>1, <2>1, <2>2, <2>3 DEF Meaning
  <1>8. ProcessedMeansApplied'
    BY <1>1, <1>4 DEF ProcessedMeansApplied, Applied, SaysWhom
  <1>9. LapsesHaveCause'
    BY <1>1, <1>3 DEF LapsesHaveCause, Delivered, Begun
  <1>10. ProcessedLapsed'
    BY <1>1, <1>5 DEF ProcessedLapsed
  <1> QED  BY <1>2, <1>6, <1>7, <1>8, <1>9, <1>10

-------------------------------------------------------------------------------
(* The theorems *)

LEMMA BillingInvariant == Spec => []BillingInv
  <1>1. Init => BillingInv
    <2> SUFFICES ASSUME Init PROVE BillingInv
      OBVIOUS
    <2>1. TypeOK  BY TypeInit
    <2>2. OwnersStand
      BY BillingAssumption DEF BillingAssumption, Init, OwnersStand, Stores
    <2>3. LabelsMean  BY DEF Init, LabelsMean, Meaning
    <2>4. ProcessedMeansApplied  BY DEF Init, ProcessedMeansApplied
    <2>5. LapsesHaveCause  BY DEF Init, LapsesHaveCause
    <2>6. ProcessedLapsed  BY DEF Init, ProcessedLapsed
    <2> QED  BY <2>1, <2>2, <2>3, <2>4, <2>5, <2>6 DEF BillingInv
  <1>2. BillingInv /\ [Next]_vars => BillingInv'
    <2> SUFFICES ASSUME BillingInv, [Next]_vars PROVE BillingInv'
      OBVIOUS
    <2>1. CASE \E d \in Deliveries : DeliveryStep(d)
      <3>1. PICK d \in Deliveries : DeliveryStep(d)  BY <2>1
      <3>2. TypeOK'  BY <3>1, TypeStep DEF BillingInv
      <3> QED
        BY <3>1, <3>2, OwnersStep, MeaningStep, LedgerStep, CauseStep, ProcessedLapsedStep
        DEF BillingInv
    <2>2. CASE \E store \in Stores : DeleteAccount(store)
      BY <2>2, DeleteStep
    <2>3. CASE UNCHANGED vars
      <3>1. TypeOK'       BY <2>3 DEF vars, BillingInv, TypeOK
      <3>2. OwnersStand'  BY <2>3 DEF vars, BillingInv, OwnersStand
      <3>3. LabelsMean'
        BY <2>3 DEF vars, BillingInv, LabelsMean, Meaning, Applied, SaysWhom, Lapsed, Delivered, Begun,
                    WithSub
      <3>4. ProcessedMeansApplied'  BY <2>3 DEF vars, BillingInv, ProcessedMeansApplied, SaysWhom
      <3>5. LapsesHaveCause'  BY <2>3 DEF vars, BillingInv, LapsesHaveCause, Delivered, Begun
      <3>6. ProcessedLapsed'
        BY <2>3 DEF vars, BillingInv, ProcessedLapsed, Lapsed, Delivered, Begun, WithSub
      <3> QED  BY <3>1, <3>2, <3>3, <3>4, <3>5, <3>6 DEF BillingInv
    <2> QED  BY <2>1, <2>2, <2>3 DEF Next
  <1> QED  BY <1>1, <1>2, PTL DEF Spec

\* The columns the webhook reads and writes keep their types.
THEOREM TypeCorrect == Spec => []TypeOK
  <1>1. BillingInv => TypeOK  BY DEF BillingInv
  <1> QED  BY <1>1, BillingInvariant, PTL

\* However many deliveries of however many events overlap, stop half-way and come again:
\* a payment or activation that says whom it is for and whose row says processed, so that
\* it is never handled again, has had its effect.
THEOREM NothingLost == Spec => []ProcessedMeansApplied
  <1>1. BillingInv => ProcessedMeansApplied  BY DEF BillingInv
  <1> QED  BY <1>1, BillingInvariant, PTL

\* Whatever is interleaved with the statements of a "failed" or "cancelled" event, a
\* store's status is that of the subscription it is on, in both directions.
THEOREM StatusIsOfItsSubscription == Spec => []StatusFollowsSubscription
  <1>1. BillingInv => StatusFollowsSubscription
    BY DEF BillingInv, LapsesHaveCause, ProcessedLapsed, Lapsed, StatusFollowsSubscription
  <1> QED  BY <1>1, BillingInvariant, PTL
===============================================================================
