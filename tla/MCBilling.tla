------------------------------- MODULE MCBilling -------------------------------
(***************************************************************************)
(* Small instances of Billing: one owner with a store who cancels, pays,   *)
(* fails to pay and subscribes anew, one user without a store who takes    *)
(* two subscriptions, and events that lack what the handler looks for.     *)
(***************************************************************************)
EXTENDS Billing, TLC

CONSTANTS ann, bob, a1, a2, b1, b2, lost, shop

Event(k, s) == [kind |-> k, subject |-> s, pack |-> k = "paid"]

MCUserOf == [s \in {a1, a2, b1, b2, lost} |->
               CASE s \in {a1, a2} -> ann [] s \in {b1, b2} -> bob [] OTHER -> NoUser]

Paid == Event("paid", shop)
Ann == {Event("activated", a2), Event("cancelled", a1), Event("failed", a1), Paid}
Bob == {Event("activated", b1), Event("activated", b2), Event("failed", b1)}

\* A pack nobody knows, a store that is not there, notes without a user, no subscription.
Unknown == {[Paid EXCEPT !.pack = FALSE], Event("paid", NoId), Event("activated", lost),
            Event("failed", NoId), Event("cancelled", NoId)}
MCEvents == Ann \cup Bob \cup Unknown

\* Bob's subscription is delivered twice.
Twice == {<<e, n>> \in MCEvents \X {1, 2} : n = 1 \/ e = Event("activated", b1)}
MCCasts == {{d \in Twice : d[1] \in Ann}, {d \in Twice : d[1] \in Bob},
            {d \in Twice : d[1] \in Unknown}}

\* One event, delivered three times.
PaidTwice == {Paid} \X {1, 2, 3}
AllOfThem == {PaidTwice}
===============================================================================
