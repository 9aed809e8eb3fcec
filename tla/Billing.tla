-------------------------------- MODULE Billing --------------------------------
(***************************************************************************)
(* The Razorpay webhook: POST of                                           *)
(* web/src/app/api/webhooks/razorpay/route.ts.                             *)
(*                                                                         *)
(* Razorpay delivers an event again until it is answered with a 2xx, and   *)
(* does not wait for one delivery before it sends the next.  Every await   *)
(* of the handler is one SQL statement, none of them in a transaction, and *)
(* the process may stop between any two.  Two ids matter to what is        *)
(* written: razorpay_subscription_id is UNIQUE, and an owner row refers to *)
(* a store that exists.  An event that lacks what its branch looks for has *)
(* no effect and is marked processed all the same.                         *)
(***************************************************************************)
EXTENDS Naturals, FiniteSets

CONSTANTS
  Events,         \* signed events: a kind, the id it is about, whether it names a pack
  Subs,           \* subscriptions
  Users,
  UserOf,         \* notes.user_id of each subscription
  NoUser,         \* the notes name nobody
  FirstStore,     \* a store that exists, with FirstSub
  FirstSub,
  NoSub,
  NoId,           \* an id that is missing, or that no store has
  Deliveries,     \* deliveries of the events, pairs of an event and a number
  Casts,          \* which of them come, to bound the model
  NoStore

Kinds == {"activated", "paid", "failed", "cancelled"}
Stores == {FirstStore} \cup Deliveries      \* a minted store is named by its delivery

ASSUME BillingAssumption ==
  /\ Events \subseteq [kind : Kinds, subject : Subs \cup {FirstStore, NoId}, pack : BOOLEAN]
  /\ \A e \in Events : e.subject \in CASE e.kind = "paid" -> {FirstStore, NoId}
                                       [] e.kind = "activated" -> Subs
                                       [] OTHER -> Subs \cup {NoId}
  /\ FirstSub \in Subs /\ {NoSub, NoId, FirstStore} \cap Subs = {} /\ NoId # NoSub
  /\ FirstStore \notin Deliveries /\ NoId \notin Stores /\ NoStore \notin Stores
  /\ UserOf \in [Subs -> Users \cup {NoUser}] /\ UserOf[FirstSub] \in Users /\ NoUser \notin Users
  /\ Deliveries \subseteq Events \X Nat
  /\ Casts \subseteq SUBSET Deliveries

VARIABLES
  ledger,    \* razorpay_events: absent, received, processed
  sub,       \* merchants.razorpaySubscriptionId of the stores that exist
  status,    \* merchants.billingStatus, "none" while there is no row
  deleted,   \* merchants.deletedAt
  balance,   \* merchants.topupBalance, in packs
  owners,    \* merchant_owners
  alerts,    \* stores with a payment_failed alert
  pc,        \* where each delivery is
  found      \* the store a delivery has looked up

vars == <<ledger, sub, status, deleted, balance, owners, alerts, pc, found>>

Labels == {"absent", "new", "checked", "recorded", "minting", "owning", "failing", "alerting", "ending",
           "applied", "over"}
NotBegun == {"absent", "new"}
Statuses == {"none", "active", "past_due", "canceled"}

Init ==
  /\ ledger = [e \in Events |-> "absent"]
  /\ sub = [s \in Stores |-> IF s = FirstStore THEN FirstSub ELSE NoSub]
  /\ status = [s \in Stores |-> IF s = FirstStore THEN "active" ELSE "none"]
  /\ deleted = {}
  /\ balance = [s \in Stores |-> 0]
  /\ owners = {<<UserOf[FirstSub], FirstStore>>}
  /\ alerts = {}
  /\ \E cast \in Casts : pc = [d \in Deliveries |-> IF d \in cast THEN "new" ELSE "absent"]
  /\ found = [d \in Deliveries |-> NoStore]

Goto(d, label) == pc' = [pc EXCEPT ![d] = label]
Return(d) == Goto(d, "over") /\ found' = [found EXCEPT ![d] = NoStore]
WithSub(s) == {store \in Stores : sub[store] = s}

-------------------------------------------------------------------------------
(* The handler of a delivery *)

\* The idempotency check reads the ledger.
Check(d) ==
  /\ pc[d] = "new"
  /\ Goto(d, IF ledger[d[1]] = "processed" THEN "over" ELSE "checked")
  /\ UNCHANGED <<ledger, sub, status, deleted, balance, owners, alerts, found>>

\* The event is recorded, unless a row is there.
ProcessedTooSoon(d) ==                     \* mutant: processedAt is set with the row
  /\ pc[d] = "checked"
  /\ ledger' = [ledger EXCEPT ![d[1]] = "processed"]
  /\ Goto(d, "recorded")
  /\ UNCHANGED <<sub, status, deleted, balance, owners, alerts, found>>
Record(d) ==
  /\ pc[d] = "checked"
  /\ ledger' = [ledger EXCEPT ![d[1]] = IF @ = "absent" THEN "received" ELSE @]
  /\ Goto(d, "recorded")
  /\ UNCHANGED <<sub, status, deleted, balance, owners, alerts, found>>

\* subscription.activated: look for the user's store, unless the notes name nobody.
FindOwner(d) ==
  /\ pc[d] = "recorded"
  /\ d[1].kind = "activated"
  /\ LET user  == UserOf[d[1].subject]
         owned == {store \in Stores : <<user, store>> \in owners}
     IN \/ /\ owned = {}
           /\ Goto(d, IF user = NoUser THEN "applied" ELSE "minting")
           /\ UNCHANGED found
        \/ \E store \in owned :
             /\ found' = [found EXCEPT ![d] = store]
             /\ Goto(d, "owning")
  /\ UNCHANGED <<ledger, sub, status, deleted, balance, owners, alerts>>

\* An owner keeps the store, which goes on with the new subscription; if another store
\* has that one, the statement throws.
KeepStore(d) ==
  /\ pc[d] = "owning"
  /\ found[d] # d
  /\ WithSub(d[1].subject) \subseteq {found[d]}
  /\ sub' = [sub EXCEPT ![found[d]] = d[1].subject]
  /\ status' = [status EXCEPT ![found[d]] = "active"]
  /\ Goto(d, "applied")
  /\ UNCHANGED <<ledger, deleted, balance, owners, alerts, found>>

\* No store yet: one is made, or nothing if a store has this subscription ...
MintStore(d) ==
  /\ pc[d] = "minting"
  /\ \/ /\ WithSub(d[1].subject) = {}
        /\ sub' = [sub EXCEPT ![d] = d[1].subject]
        /\ status' = [status EXCEPT ![d] = "active"]
     \/ /\ WithSub(d[1].subject) # {}
        /\ UNCHANGED <<sub, status>>
  /\ found' = [found EXCEPT ![d] = d]
  /\ Goto(d, "owning")
  /\ UNCHANGED <<ledger, deleted, balance, owners, alerts>>

\* ... and given to the user; the statement throws if it was not made.
AddOwner(d) ==
  /\ pc[d] = "owning"
  /\ found[d] = d
  /\ status[d] # "none"
  /\ owners' = owners \cup {<<UserOf[d[1].subject], d>>}
  /\ Goto(d, "applied")
  /\ UNCHANGED <<ledger, sub, status, deleted, balance, alerts, found>>

\* payment_link.paid: a known pack is added to the balance in one statement, which hits
\* no row if the notes name no store or one that is not there.
AddTopup(d) ==
  /\ pc[d] = "recorded"
  /\ d[1].kind = "paid"
  /\ balance' = [store \in Stores |-> IF d[1].pack /\ store = d[1].subject
                                      THEN balance[store] + 1 ELSE balance[store]]
  /\ Goto(d, "applied")
  /\ UNCHANGED <<ledger, sub, status, deleted, owners, alerts, found>>

\* subscription.pending and payment.failed: whoever has this subscription is past due,
\* unless the event is about none ...
MarkPastDue(d) ==
  /\ pc[d] = "recorded"
  /\ d[1].kind = "failed"
  /\ status' = [store \in Stores |-> IF store \in WithSub(d[1].subject) THEN "past_due"
                                     ELSE status[store]]
  /\ Goto(d, IF d[1].subject = NoId THEN "applied" ELSE "failing")
  /\ UNCHANGED <<ledger, sub, deleted, balance, owners, alerts, found>>

\* ... then the one that has it by now is looked up ...
FindFailed(d) ==
  /\ pc[d] = "failing"
  /\ \/ /\ WithSub(d[1].subject) = {}
        /\ Goto(d, "applied")
        /\ UNCHANGED found
     \/ \E store \in WithSub(d[1].subject) :
          /\ found' = [found EXCEPT ![d] = store]
          /\ Goto(d, "alerting")
  /\ UNCHANGED <<ledger, sub, status, deleted, balance, owners, alerts>>

\* ... and alerted, also if it has moved on to another subscription since.
Alert(d) ==
  /\ pc[d] = "alerting"
  /\ alerts' = alerts \cup {found[d]}
  /\ Goto(d, "applied")
  /\ UNCHANGED <<ledger, sub, status, deleted, balance, owners, found>>

\* subscription.cancelled and completed: the store is looked up for the ledger, unless
\* the event is about no subscription ...
FindCancelled(d) ==
  /\ pc[d] = "recorded"
  /\ d[1].kind = "cancelled"
  /\ \/ WithSub(d[1].subject) = {} /\ UNCHANGED found
     \/ \E store \in WithSub(d[1].subject) : found' = [found EXCEPT ![d] = store]
  /\ Goto(d, IF d[1].subject = NoId THEN "applied" ELSE "ending")
  /\ UNCHANGED <<ledger, sub, status, deleted, balance, owners, alerts>>

\* ... and whoever has this subscription by then is canceled.
CancelFound(d) ==                          \* mutant: by the store found, not the subscription
  /\ pc[d] = "ending"
  /\ status' = [store \in Stores |-> IF store = found[d] THEN "canceled" ELSE status[store]]
  /\ Goto(d, "applied")
  /\ UNCHANGED <<ledger, sub, deleted, balance, owners, alerts, found>>
Cancel(d) ==
  /\ pc[d] = "ending"
  /\ status' = [store \in Stores |-> IF store \in WithSub(d[1].subject) THEN "canceled"
                                     ELSE status[store]]
  /\ Goto(d, "applied")
  /\ UNCHANGED <<ledger, sub, deleted, balance, owners, alerts, found>>

\* processedAt is set, and the delivery is answered.
MarkProcessed(d) ==
  /\ pc[d] = "applied"
  /\ ledger' = [ledger EXCEPT ![d[1]] = "processed"]
  /\ Return(d)
  /\ UNCHANGED <<sub, status, deleted, balance, owners, alerts>>

\* A statement throws or the process stops; Razorpay gets no 2xx.
Crash(d) ==
  /\ pc[d] \notin NotBegun \cup {"over"}
  /\ Return(d)
  /\ UNCHANGED <<ledger, sub, status, deleted, balance, owners, alerts>>

\* web/src/app/api/account/delete/route.ts: an owner closes the account.
DeleteAccount(store) ==
  /\ \E u \in Users : <<u, store>> \in owners
  /\ deleted' = deleted \cup {store}
  /\ status' = [status EXCEPT ![store] = "canceled"]
  /\ UNCHANGED <<ledger, sub, balance, owners, alerts, pc, found>>

DeliveryStep(d) ==
  \/ Check(d) \/ Record(d) \/ FindOwner(d) \/ KeepStore(d) \/ MintStore(d) \/ AddOwner(d)
  \/ AddTopup(d) \/ MarkPastDue(d) \/ FindFailed(d) \/ Alert(d) \/ FindCancelled(d) \/ Cancel(d)
  \/ MarkProcessed(d) \/ Crash(d)

Next ==
  \/ \E d \in Deliveries : DeliveryStep(d)
  \/ \E store \in Stores : DeleteAccount(store)

Spec == Init /\ [][Next]_vars

-------------------------------------------------------------------------------
(* Properties *)

\* Every variable has its type (the columns the route reads and writes).
TypeOK ==
  /\ ledger \in [Events -> {"absent", "received", "processed"}]
  /\ sub \in [Stores -> Subs \cup {NoSub}]
  /\ status \in [Stores -> Statuses]
  /\ deleted \subseteq Stores
  /\ balance \in [Stores -> Nat]
  /\ owners \in SUBSET (Users \X Stores)
  /\ alerts \subseteq Stores
  /\ pc \in [Deliveries -> Labels]
  /\ found \in [Deliveries -> Stores \cup {NoStore}]

\* The event says whom it is for: a payment names a pack and a store that is there, an
\* activation names a user.
SaysWhom(e) ==
  /\ e.kind = "paid" => e.pack /\ e.subject \in Stores
  /\ e.kind = "activated" => UserOf[e.subject] # NoUser

\* A payment or an activation that says whom it is for is only ever taken for processed,
\* and not delivered again, once it has happened: the paid pack is on the balance and the
\* subscriber owns a store that exists, wherever deliveries crashed or overlapped.  Any
\* other event is marked processed without an effect: a payment with no known pack, for
\* no store or one that is not there, and an activation whose notes name nobody.
ProcessedMeansApplied ==
  \A e \in Events : ledger[e] = "processed" /\ SaysWhom(e) =>
    /\ e.kind = "paid" => balance[e.subject] >= 1
    /\ e.kind = "activated" =>
         \E store \in Stores : <<UserOf[e.subject], store>> \in owners /\ status[store] # "none"

Begun(d) == pc[d] \notin NotBegun
Delivered(kind, s) == \E d \in Deliveries : d[1].kind = kind /\ d[1].subject = s /\ Begun(d)

\* A store's billing status is that of the subscription it is on, not of one it had.  It
\* is past due or canceled only because a failure or the end of this very subscription
\* has come, or the owner closed the account: the end of an old one, whose handler looked
\* the store up before it moved on, leaves the status alone (the alert of a late failure
\* may still reach it).  And once a failure or an end is processed no store is active on
\* that subscription, unless the subscription was activated again by some delivery.
StatusFollowsSubscription ==
  /\ \A store \in Stores :
       /\ status[store] = "past_due" => Delivered("failed", sub[store])
       /\ status[store] = "canceled" => Delivered("cancelled", sub[store]) \/ store \in deleted
  /\ \A e \in Events :
       /\ ledger[e] = "processed" /\ e.kind \in {"failed", "cancelled"}
       /\ ~Delivered("activated", e.subject)
       => \A store \in WithSub(e.subject) : status[store] # "active"

PaidFor(store) == {e \in Events : e.kind = "paid" /\ e.subject = store}

\* route.ts:30 "Idempotency keyed on the Razorpay event-id header": a paid pack is
\* credited once, however often its event is delivered.
CreditedOnce == \A store \in Stores : balance[store] <= Cardinality(PaidFor(store))
===============================================================================
