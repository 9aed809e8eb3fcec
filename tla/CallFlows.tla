-------------------------------- MODULE CallFlows --------------------------------
(***************************************************************************)
(* What a voice call does on the visitor's page and in the store besides   *)
(* talking: the completions of apps/voice-agent/src/agentWorker.ts (book a *)
(* consultation, fill the order, fill the contact form), the gate of the   *)
(* checkout, and the two that act on an utterance, the executor and, while *)
(* it holds the tools, the voice model itself.                             *)
(*                                                                         *)
(* One thread runs them all; each await (an extraction by a language       *)
(* model, an action on the page, a row) lets the others go on.  A text is  *)
(* the set of the intents that the patterns of the worker find in it.      *)
(* What Olivia is told about an outcome is left out.                       *)
(***************************************************************************)
EXTENDS Naturals, FiniteSets

CONSTANTS
  LastUtterance,   \* bound on the visitor's utterances
  Said,            \* what the visitor may say, sets of intents
  Narrated,        \* what Olivia may say, sets of intents
  Paths,           \* callers of submitConsultationOnce: executor turns, tool calls
  CaseCapture      \* caseCaptureEnabled: the store takes requests instead of its contact form

Intents    == {"add", "checkout", "details", "confirm", "consult", "contact"}
Narrations == {"subject", "booking", "placement"}

ASSUME FlowAssumption ==
  /\ LastUtterance \in Nat
  /\ Said \subseteq SUBSET Intents /\ Narrated \subseteq SUBSET Narrations
  /\ "consult" \notin Paths /\ CaseCapture \in BOOLEAN

VARIABLES
  toolsOn,     \* the voice model holds the tools
  mode,        \* consultMode, contactMode, checkoutEntered or checkoutReached
  completed,   \* consultBooked, contactFilled, orderPlaced
  busy,        \* bookingConsult ("consult") and completingOrder ("form")
  job,         \* where each completion is
  once,        \* the calls of submitConsultationOnce
  saved,       \* consultations saved on this call
  heard,       \* utterances so far
  act,         \* who adds what an utterance asked for
  gate,        \* the checkout gate of each utterance
  inCart,      \* the cart of the page is not empty
  crossed      \* two attempts to book were under way together (history)

flowVars == <<toolsOn, mode, completed, busy, job, once, saved, heard, act, gate, inCart, crossed>>

Utterances == 1..LastUtterance
Jobs == {"consult", "order", "contact"}
Stages == {"idle", "extracting", "saving", "navigating", "filling", "refilling"}

FlowInit ==
  /\ toolsOn \in BOOLEAN /\ inCart = FALSE
  /\ mode = {} /\ completed = {} /\ busy = {}
  /\ job = [j \in Jobs |-> "idle"] /\ once = [p \in Paths |-> "idle"]
  /\ saved = 0 /\ heard = 0 /\ crossed = FALSE
  /\ act = [u \in Utterances |-> "none"] /\ gate = [u \in Utterances |-> "none"]

-------------------------------------------------------------------------------
(* The completions *)

\* bookingConsult, or completingOrder, which the two forms share.
FlagOf(j) == IF j = "consult" THEN "consult" ELSE "form"

InFlight == {p \in Paths : once[p] = "saving"} \cup {j \in {"consult"} : job[j] # "idle"}

StartsAnyway(j) == ~toolsOn /\ j \notin completed                      \* mutant

\* A completion returns at once while the voice model acts itself, when it is done and
\* while it (or the other form) runs.
MayStart(j) == ~toolsOn /\ j \notin completed /\ FlagOf(j) \notin busy

Launch(starts) ==
  \/ \E j \in starts :
       /\ MayStart(j)
       /\ job' = [job EXCEPT ![j] = "extracting"]
       /\ busy' = busy \cup {FlagOf(j)}
       /\ crossed' = (crossed \/ (j = "consult" /\ InFlight # {}))
  \/ (\A j \in starts : ~MayStart(j)) /\ UNCHANGED <<job, busy, crossed>>

\* Which completion a form's confirmation is for.
FormOf(modes) ==
  IF "contact" \in modes /\ "contact" \notin completed /\ ~CaseCapture THEN {"contact"}
  ELSE IF "checkout" \in modes /\ "order" \notin completed THEN {"order"} ELSE {}

KeepBusy(j) == busy                                                    \* mutant
Release(j) == busy \ {FlagOf(j)}
OnReturn(j) == Release(j)

\* A completion is over; its finally block has run.
End(j) ==
  /\ job' = [job EXCEPT ![j] = "idle"]
  /\ busy' = OnReturn(j)

\* Details are missing, or the language model fails: Olivia is told, the completion ends.
NotExtracted(j) ==
  /\ job[j] = "extracting"
  /\ End(j)
  /\ UNCHANGED <<toolsOn, mode, completed, once, saved, heard, act, gate, inCart, crossed>>

Extracted(j) ==
  /\ job[j] = "extracting"
  /\ job' = [job EXCEPT ![j] = IF j = "consult" THEN "saving" ELSE "navigating"]
  /\ UNCHANGED <<toolsOn, mode, completed, busy, once, saved, heard, act, gate, inCart, crossed>>

\* submitConsultationRequest has answered: nothing looks whether another path booked meanwhile.
ConsultSaved(ok) ==
  /\ job["consult"] = "saving"
  /\ saved' = IF ok THEN saved + 1 ELSE saved
  /\ completed' = IF ok THEN completed \cup {"consult"} ELSE completed
  /\ End("consult")
  /\ UNCHANGED <<toolsOn, mode, once, heard, act, gate, inCart, crossed>>

\* The page was sent to the form, or was not: the failure is swallowed.
Navigated(j) ==
  /\ job[j] = "navigating"
  /\ job' = [job EXCEPT ![j] = "filling"]
  /\ UNCHANGED <<toolsOn, mode, completed, busy, once, saved, heard, act, gate, inCart, crossed>>

Filled(j) ==
  /\ job[j] \in {"filling", "refilling"}
  /\ completed' = completed \cup {j}
  /\ End(j)
  /\ UNCHANGED <<toolsOn, mode, once, saved, heard, act, gate, inCart, crossed>>

\* fillFormWithRetry: one more try after 600 ms.
FillFails(j) ==
  /\ \/ /\ job[j] = "filling"
        /\ job' = [job EXCEPT ![j] = "refilling"]
        /\ UNCHANGED <<busy>>
     \/ /\ job[j] = "refilling"
        /\ End(j)
  /\ UNCHANGED <<toolsOn, mode, completed, once, saved, heard, act, gate, inCart, crossed>>

-------------------------------------------------------------------------------
(* submitConsultationOnce, by an executor turn or a tool call of the voice model *)

OnceCalled(p) ==
  /\ once[p] = "idle" /\ "consult" \notin completed
  /\ once' = [once EXCEPT ![p] = "saving"]
  /\ crossed' = (crossed \/ InFlight # {})
  /\ UNCHANGED <<toolsOn, mode, completed, busy, job, saved, heard, act, gate, inCart>>

Unmarked == completed                                                  \* mutant
Marked   == completed \cup {"consult"}
AfterBooking == Marked

OnceSaved(p, ok) ==
  /\ once[p] = "saving"
  /\ once' = [once EXCEPT ![p] = "idle"]
  /\ saved' = IF ok THEN saved + 1 ELSE saved
  /\ completed' = IF ok THEN AfterBooking ELSE completed
  /\ UNCHANGED <<toolsOn, mode, busy, job, heard, act, gate, inCart, crossed>>

-------------------------------------------------------------------------------
(* Texts *)

\* final_transcript: the executor's turn (or the voice model, by itself), the gate of
\* the checkout, the modes, then a completion.
HearVisitor(said) ==
  LET u == heard + 1
      modes == mode \cup (IF said \cap {"details", "checkout"} # {} THEN {"checkout"} ELSE {})
                    \cup (said \cap {"contact", "consult"})
  IN /\ heard < LastUtterance
     /\ heard' = u
     /\ act' = [act EXCEPT ![u] = IF toolsOn THEN (IF "add" \in said THEN "tool" ELSE "done")
                                  ELSE (IF "add" \in said THEN "adding" ELSE "turn")]
     /\ gate' = [gate EXCEPT ![u] = IF "checkout" \in said
                                    THEN (IF toolsOn THEN "reading" ELSE "waiting") ELSE "none"]
     /\ mode' = modes
     /\ Launch(IF said \cap {"confirm", "details"} = {} THEN {}
               ELSE IF "consult" \in modes /\ "consult" \notin completed THEN {"consult"}
               ELSE FormOf(modes))
     /\ UNCHANGED <<toolsOn, completed, once, saved, inCart>>

\* bot_text: Olivia narrates.
HearOlivia(said) ==
  LET modes == IF "subject" \in said THEN mode \cup {"contact"} ELSE mode IN
  /\ mode' = modes
  /\ Launch(IF "booking" \in said /\ "consult" \in modes /\ "consult" \notin completed THEN {"consult"}
            ELSE IF "placement" \in said THEN FormOf(modes) ELSE {})
  /\ UNCHANGED <<toolsOn, completed, once, saved, heard, act, gate, inCart>>

\* A page action of the executor went to the checkout (flowState.checkoutReached).
CheckoutReached ==
  /\ mode' = mode \cup {"checkout"}
  /\ UNCHANGED <<toolsOn, completed, busy, job, once, saved, heard, act, gate, inCart, crossed>>

\* The call moved to the fallback model, which has no tools.
ToolsOff ==
  /\ toolsOn /\ toolsOn' = FALSE
  /\ UNCHANGED <<mode, completed, busy, job, once, saved, heard, act, gate, inCart, crossed>>

-------------------------------------------------------------------------------
(* The cart and the checkout *)

\* The product an utterance asked for reaches the cart, or cannot be added.
Added(u, ok) ==
  /\ act[u] \in {"adding", "tool"}
  /\ inCart' = (inCart \/ ok)
  /\ act' = [act EXCEPT ![u] = IF @ = "tool" THEN "done" ELSE "turn"]
  /\ UNCHANGED <<toolsOn, mode, completed, busy, job, once, saved, heard, gate, crossed>>

\* handleUserText has returned.
TurnDone(u) ==
  /\ act[u] = "turn"
  /\ act' = [act EXCEPT ![u] = "done"]
  /\ UNCHANGED <<toolsOn, mode, completed, busy, job, once, saved, heard, gate, inCart, crossed>>

\* While the executor acts, the gate waits for its turn of the same utterance.
ReadCart(u) ==
  /\ gate[u] = "waiting" /\ act[u] = "done"
  /\ gate' = [gate EXCEPT ![u] = "reading"]
  /\ UNCHANGED <<toolsOn, mode, completed, busy, job, once, saved, heard, act, inCart, crossed>>

\* cart_get has answered: with an empty cart Olivia says so and nothing opens.  One that
\* fails lets the visitor through.
CartRead(u, ok) ==
  /\ gate[u] = "reading"
  /\ IF ok /\ ~inCart
     THEN gate' = [gate EXCEPT ![u] = "none"] /\ UNCHANGED mode
     ELSE /\ gate' = [gate EXCEPT ![u] = "going"]
          /\ mode' = mode \cup {"checkout"}
  /\ UNCHANGED <<toolsOn, completed, busy, job, once, saved, heard, act, inCart, crossed>>

CheckoutShown(u) ==
  /\ gate[u] = "going"
  /\ gate' = [gate EXCEPT ![u] = "none"]
  /\ UNCHANGED <<toolsOn, mode, completed, busy, job, once, saved, heard, act, inCart, crossed>>

-------------------------------------------------------------------------------
JobStep(j) == \/ NotExtracted(j) \/ Extracted(j) \/ Navigated(j)
              \/ Filled(j) \/ FillFails(j)
              \/ j = "consult" /\ \E ok \in BOOLEAN : ConsultSaved(ok)

FlowNext ==
  \/ \E j \in Jobs : JobStep(j)
  \/ \E p \in Paths : OnceCalled(p) \/ \E ok \in BOOLEAN : OnceSaved(p, ok)
  \/ \E said \in Said : HearVisitor(said)
  \/ \E said \in Narrated : HearOlivia(said)
  \/ CheckoutReached \/ ToolsOff
  \/ \E u \in Utterances : \/ TurnDone(u) \/ ReadCart(u) \/ CheckoutShown(u)
                           \/ \E ok \in BOOLEAN : Added(u, ok) \/ CartRead(u, ok)

\* A language model answers or fails, a row is written or is not, and an action on the
\* page has its result or its timeout.
FlowFairness == \A j \in Jobs : WF_flowVars(JobStep(j))

FlowSpec == FlowInit /\ [][FlowNext]_flowVars /\ FlowFairness

-------------------------------------------------------------------------------
(* Properties *)

FlowTypeOK ==
  /\ toolsOn \in BOOLEAN /\ inCart \in BOOLEAN /\ crossed \in BOOLEAN
  /\ mode \subseteq {"consult", "contact", "checkout"} /\ completed \subseteq Jobs
  /\ busy \subseteq Jobs \cup {"form"}
  /\ job \in [Jobs -> Stages] /\ once \in [Paths -> {"idle", "saving"}]
  /\ saved \in Nat /\ heard \in 0..LastUtterance
  /\ act \in [Utterances -> {"none", "adding", "tool", "turn", "done"}]
  /\ gate \in [Utterances -> {"none", "waiting", "reading", "going"}]

\* Only attempts that were under way together can book a consultation twice.
BookedTwiceOnlyTogether == saved > 1 => crossed

OnThePage == {"navigating", "filling", "refilling"}

\* The order and the contact form are never filled at the same time: each navigates
\* before it fills, so the other one's fields would go to the wrong page.
FillsNeverInterleave == ~(job["order"] \in OnThePage /\ job["contact"] \in OnThePage)

\* A completion always ends and can be tried again unless it succeeded: no failure and
\* no early return leaves its flag up.
BusyEnds == \A f \in {"consult", "form"} : f \in busy ~> f \notin busy
===============================================================================
