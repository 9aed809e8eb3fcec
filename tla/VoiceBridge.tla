------------------------------ MODULE VoiceBridge ------------------------------
(***************************************************************************)
(* The voice bridge of one call: createBridge of                           *)
(* apps/voice-agent/src/bridge.ts.                                         *)
(*                                                                         *)
(* The voice model speaks; every final transcript of the visitor also      *)
(* starts an executor turn here (handleUserText), and nobody waits for the *)
(* previous one.  A newer turn supersedes the one in flight, a             *)
(* continuation withdraws the half-sentence before it unless that already  *)
(* did something on the page, a barge-in silences the turn in flight.      *)
(* turnSeq and current move together, so a turn is superseded exactly when *)
(* it is not current.                                                      *)
(*                                                                         *)
(* Utterances are numbered in the order they are spoken.  The reply steer  *)
(* (pendingLiveSignal) and the persisted session are left out: no choice   *)
(* of the bridge depends on them.                                          *)
(***************************************************************************)
EXTENDS Naturals, FiniteSets, SequencesExt

CONSTANTS
  LastUtterance,   \* bound on the utterances of the call
  Skus,            \* products
  Moves,           \* page actions that describeAction records, other than cart_add
  Reads,           \* page actions that change nothing
  AsksForMore,     \* utterances that match ASKS_FOR_MORE
  MaxCalls,        \* bound on page actions per turn
  MaxEvents,       \* bound on routed events per turn
  MaxSpoken        \* bound on noted turns of the voice model

Utterances == 1..LastUtterance
Actions    == Skus \cup Moves \cup Reads

ASSUME VoiceBridgeAssumption ==
  /\ LastUtterance \in Nat
  /\ AsksForMore \subseteq Utterances
  /\ Skus \cap Moves = {} /\ Skus \cap Reads = {} /\ Moves \cap Reads = {}
  /\ MaxCalls \in Nat /\ MaxEvents \in Nat /\ MaxSpoken \in Nat

VARIABLES
  arrived,         \* utterances handed to handleUserText so far
  current,         \* the turn in charge, 0 for none
  aborted,         \* a barge-in since that turn began
  turn,            \* the handler of each utterance
  voiceHistory,    \* what the executor is told was said and done
  pending,         \* page actions awaiting their result
  recentCartAdds,  \* products whose last add is less than DUPLICATE_ADD_MS ago
  adds             \* the turns that added each product in that time, in order

vars == <<arrived, current, aborted, turn, voiceHistory, pending, recentCartAdds,
          adds>>

Labels == {"new", "waiting", "loading", "running", "acting", "finished", "failed"}
NoAction == "no action"
Entries == [by : {"visitor", "done", "voice"}, turn : 0..LastUtterance]
SaidBy(u) == [by |-> "visitor", turn |-> u]      \* the visitor's words of turn u
DoneBy(u) == [by |-> "done", turn |-> u]         \* [Already done on the page ...]
VoiceSaid == [by |-> "voice", turn |-> 0]        \* a turn of the voice model

Turn == [pc      : Labels,
         text    : Seq(Utterances),              \* the utterances its text is made of
         half    : 0..LastUtterance,             \* the turn it withdrew
         follows : 0..LastUtterance,             \* the turn it waited for
         woken   : BOOLEAN,                      \* and that turn was done
         prior   : Seq(Entries),                 \* session.history
         acted   : BOOLEAN,
         action  : Actions \cup {NoAction},      \* the page action it awaits
         noted   : BOOLEAN,                      \* turnActions is not empty
         calls   : 0..MaxCalls,
         routed  : 0..MaxEvents,
         silenced : BOOLEAN]                     \* a barge-in came while it was in flight

Init ==
  /\ arrived = 0
  /\ current = 0
  /\ aborted = FALSE
  /\ turn = [u \in Utterances |->
       [pc |-> "new", text |-> <<>>, half |-> 0, follows |-> 0, woken |-> FALSE,
        prior |-> <<>>, acted |-> FALSE, action |-> NoAction, noted |-> FALSE, calls |-> 0,
        routed |-> 0, silenced |-> FALSE]]
  /\ voiceHistory = <<>>
  /\ pending = {}
  /\ recentCartAdds = {}
  /\ adds = [s \in Skus |-> <<>>]

-------------------------------------------------------------------------------
(* Steps the handlers are made of *)

Superseded(u) == current # u

\* The text of a merged turn: the half-sentence, then the rest.
RestOnly(half, u)   == <<u>>                                         \* mutant
MergedText(half, u) == IF half = 0 THEN <<u>> ELSE Append(turn[half].text, u)

\* A continuation withdraws the turn in charge unless that did something on the page.
HalfOf(continues) ==
  IF continues /\ current # 0 /\ ~turn[current].acted THEN current ELSE 0

\* The last entry of the half-sentence is spliced out of the history.  The code finds it by
\* its words; here the words of two utterances differ.
Splice(history, half) ==
  LET at == {i \in DOMAIN history : history[i] = SaidBy(half)}
  IN IF at = {} THEN history ELSE RemoveAt(history, Max(at))

\* A turn takes charge: the half-sentence leaves the history, then the two loads start.
TakeCharge(u, continues, done) ==
  LET half == HalfOf(continues) IN
  /\ turn' = [turn EXCEPT ![u].pc = "loading", ![u].text = MergedText(half, u),
                          ![u].half = half, ![u].woken = done]
  /\ voiceHistory' = IF half = 0 THEN voiceHistory ELSE Splice(voiceHistory, half)
  /\ current' = u
  /\ aborted' = FALSE

\* Leading turns of the assistant are left out of what runTurn is given.
FromVisitor(history) ==
  LET said == {i \in DOMAIN history : history[i].by = "visitor"}
  IN IF said = {} THEN <<>> ELSE SubSeq(history, Min(said), Len(history))

\* The safety net: the same product again only if they asked for more.
AddSettledAlready(u, sku) ==                                         \* mutant
  /\ sku \in recentCartAdds
  /\ Range(turn[u].text) \cap AsksForMore = {}
  /\ \A v \in Utterances : turn[v].action # sku
IsDuplicate(u, sku) ==
  /\ sku \in recentCartAdds
  /\ Range(turn[u].text) \cap AsksForMore = {}

\* The result of a page action reaches the turn that awaits it.
ClearTable(u) ==                                                     \* mutant
  /\ <<u, turn[u].calls>> \in pending
  /\ pending' = {}
  /\ turn' = [turn EXCEPT ![u].pc = "running", ![u].action = NoAction,
                          ![u].noted = @ \/ turn[u].action \notin Reads]
Resolve(u) ==
  /\ <<u, turn[u].calls>> \in pending
  /\ pending' = pending \ {<<u, turn[u].calls>>}
  /\ turn' = [turn EXCEPT ![u].pc = "running", ![u].action = NoAction,
                          ![u].noted = @ \/ turn[u].action \notin Reads]

-------------------------------------------------------------------------------
(* handleUserText *)

\* The next utterance.  If it continues a turn that already acted, that turn goes first.
Utter(u) ==
  /\ u = arrived + 1
  /\ arrived' = u
  /\ \E continues \in IF u = 1 THEN {FALSE} ELSE BOOLEAN :
       IF continues /\ current # 0 /\ turn[current].acted
       THEN /\ turn' = [turn EXCEPT ![u].pc = "waiting", ![u].follows = current]
            /\ UNCHANGED <<voiceHistory, current, aborted>>
       ELSE TakeCharge(u, continues, FALSE)
  /\ UNCHANGED <<pending, recentCartAdds, adds>>

\* That turn is done, or 8 s have passed; those who wait for it go on in order.
WakeUp(u) ==
  /\ turn[u].pc = "waiting"
  /\ \A v \in 1..(u - 1) : ~(turn[v].pc = "waiting" /\ turn[v].follows = turn[u].follows)
  /\ TakeCharge(u, TRUE, turn[turn[u].follows].pc = "finished")
  /\ UNCHANGED <<arrived, pending, recentCartAdds, adds>>

\* Merchant and session are there: runTurn gets the history, then the words join it.
Loaded(u) ==
  /\ turn[u].pc = "loading"
  /\ turn' = [turn EXCEPT ![u].pc = "running", ![u].prior = FromVisitor(voiceHistory)]
  /\ voiceHistory' = Append(voiceHistory, SaidBy(u))
  /\ UNCHANGED <<arrived, current, aborted, pending, recentCartAdds, adds>>

\* A load throws: handleUserText rejects before its try, so done is never resolved.
LoadFails(u) ==
  /\ turn[u].pc = "loading"
  /\ turn' = [turn EXCEPT ![u].pc = "failed"]
  /\ UNCHANGED <<arrived, current, aborted, voiceHistory, pending, recentCartAdds, adds>>

\* The executor calls a page tool.  (A superseded turn and a duplicate add are refused,
\* and nothing changes.)
Act(u, a) ==
  /\ turn' = [turn EXCEPT ![u].pc = "acting", ![u].action = a, ![u].acted = TRUE,
                          ![u].calls = @ + 1]
  /\ pending' = pending \cup {<<u, turn[u].calls + 1>>}
  /\ IF a \in Skus
     THEN /\ recentCartAdds' = recentCartAdds \cup {a}
          /\ adds' = [adds EXCEPT ![a] = Append(@, u)]
     ELSE UNCHANGED <<recentCartAdds, adds>>
  /\ UNCHANGED <<arrived, current, aborted, voiceHistory>>

ActAnyway(u) ==                                 \* mutant: superseded turns are not refused
  /\ turn[u].pc = "running"
  /\ turn[u].calls < MaxCalls
  /\ \E a \in Actions : ~(a \in Skus /\ IsDuplicate(u, a)) /\ Act(u, a)
DispatchHostAction(u) ==
  /\ turn[u].pc = "running"
  /\ ~Superseded(u)
  /\ turn[u].calls < MaxCalls
  /\ \E a \in Actions : ~(a \in Skus /\ IsDuplicate(u, a)) /\ Act(u, a)

\* deliverHostActionResult; a result for any other call id is ignored.
HostActionResult(u) ==
  /\ Resolve(u)
  /\ UNCHANGED <<arrived, current, aborted, voiceHistory, recentCartAdds, adds>>

\* HOST_ACTION_TIMEOUT_MS.
NoTimer(u) == FALSE /\ UNCHANGED vars                                \* mutant
HostActionTimeout(u) ==
  /\ Resolve(u)
  /\ UNCHANGED <<arrived, current, aborted, voiceHistory, recentCartAdds, adds>>

\* runTurn yields an event that is routed to the widget, the worker or the voice.
RouteUnlessAborted(u) ==                        \* mutant: only the flag is looked at
  /\ turn[u].pc = "running"
  /\ ~aborted
  /\ turn[u].routed < MaxEvents
  /\ turn' = [turn EXCEPT ![u].routed = @ + 1]
  /\ UNCHANGED <<arrived, current, aborted, voiceHistory, pending, recentCartAdds, adds>>
RouteEvent(u) ==
  /\ turn[u].pc = "running"
  /\ ~aborted
  /\ ~Superseded(u)
  /\ turn[u].routed < MaxEvents
  /\ turn' = [turn EXCEPT ![u].routed = @ + 1]
  /\ UNCHANGED <<arrived, current, aborted, voiceHistory, pending, recentCartAdds, adds>>

\* runTurn ends or throws, or its next event finds the turn silenced: the finally block.
NoteIfInCharge(u) ==                            \* mutant: a dropped turn leaves no note
  /\ turn[u].pc = "running"
  /\ voiceHistory' = IF turn[u].noted /\ ~aborted /\ ~Superseded(u)
                     THEN Append(voiceHistory, DoneBy(u)) ELSE voiceHistory
  /\ turn' = [turn EXCEPT ![u].pc = "finished"]
  /\ UNCHANGED <<arrived, current, aborted, pending, recentCartAdds, adds>>
TurnOver(u) ==
  /\ turn[u].pc = "running"
  /\ voiceHistory' = IF turn[u].noted THEN Append(voiceHistory, DoneBy(u)) ELSE voiceHistory
  /\ turn' = [turn EXCEPT ![u].pc = "finished"]
  /\ UNCHANGED <<arrived, current, aborted, pending, recentCartAdds, adds>>

-------------------------------------------------------------------------------
(* The rest of the call *)

\* handleBargeIn
BargeIn ==
  /\ aborted' = TRUE
  /\ turn' = [u \in Utterances |->
       IF turn[u].pc \in {"loading", "running", "acting"}
       THEN [turn[u] EXCEPT !.silenced = TRUE] ELSE turn[u]]
  /\ UNCHANGED <<arrived, current, voiceHistory, pending, recentCartAdds, adds>>

\* noteAssistantTurn
NoteAssistantTurn ==
  /\ Len(SelectSeq(voiceHistory, LAMBDA e : e = VoiceSaid)) < MaxSpoken
  /\ voiceHistory' = Append(voiceHistory, VoiceSaid)
  /\ UNCHANGED <<arrived, current, aborted, turn, pending, recentCartAdds, adds>>

\* DUPLICATE_ADD_MS have passed since a product was last added.
WindowCloses ==
  /\ \E sku \in recentCartAdds :
       /\ recentCartAdds' = recentCartAdds \ {sku}
       /\ adds' = [adds EXCEPT ![sku] = <<>>]
  /\ UNCHANGED <<arrived, current, aborted, turn, voiceHistory, pending>>

TurnStep(u) ==
  WakeUp(u) \/ Loaded(u) \/ LoadFails(u) \/ HostActionTimeout(u) \/ TurnOver(u)

Next ==
  \/ \E u \in Utterances :
       \/ Utter(u) \/ DispatchHostAction(u) \/ HostActionResult(u)
       \/ RouteEvent(u) \/ TurnStep(u)
  \/ BargeIn \/ NoteAssistantTurn \/ WindowCloses

\* Loads and model calls end and timers fire; nobody promises that the widget answers.
Fairness == \A u \in Utterances : WF_vars(TurnStep(u))

Spec == Init /\ [][Next]_vars /\ Fairness

-------------------------------------------------------------------------------
(* Properties *)

\* Every variable has its type (the declarations of createBridge).
TypeOK ==
  /\ arrived \in 0..LastUtterance
  /\ current \in 0..LastUtterance
  /\ aborted \in BOOLEAN
  /\ turn \in [Utterances -> Turn]
  /\ voiceHistory \in Seq(Entries)
  /\ pending \in SUBSET (Utterances \X (1..MaxCalls))
  /\ recentCartAdds \in SUBSET Skus
  /\ adds \in [Skus -> Seq(Utterances)]

Withdrawn == {turn[u].half : u \in Utterances} \ {0}

\* A half-sentence that was withdrawn, its words running again inside the whole one,
\* never does anything on the page, before or after (bridge.ts: current.acted is read
\* when the turn is withdrawn, mySeq # turnSeq when it acts).
WithdrawnNeverActs == \A u \in Withdrawn : ~turn[u].acted

\* No words of the visitor get lost: once an utterance has taken its turn, its words
\* are in the history or in the text of a turn that is loading or could not load.
WordsKept ==
  \A u \in Utterances : turn[u].pc \notin {"new", "waiting"} =>
    \E v \in Utterances :
      /\ u \in Range(turn[v].text)
      /\ SaidBy(v) \in Range(voiceHistory) \/ turn[v].pc \in {"loading", "failed"}

\* A follow-up that waited until the turn before it was done is told what that turn did
\* on the page ("so this follow-up sees [Already done ...] in its history").
FollowUpIsTold ==
  \A u \in Utterances :
    turn[u].woken /\ turn[u].pc \notin {"waiting", "loading", "failed"}
      => (turn[turn[u].follows].noted => DoneBy(turn[u].follows) \in Range(turn[u].prior))

\* Between two adds of a product less than DUPLICATE_ADD_MS apart the visitor asked for
\* more, even when the first add's result is still out as its turn is superseded.
NoDoubleAdd ==
  \A sku \in Skus : \A i \in 2..Len(adds[sku]) :
    Range(turn[adds[sku][i]].text) \cap AsksForMore # {}

\* A turn that was interrupted by a barge-in routes no further event, though the next
\* utterance clears the flag.
SilencedStaysSilent ==
  [][\A u \in Utterances : turn[u].silenced => turn'[u].routed = turn[u].routed]_vars

\* Every turn comes to its end, whatever the widget answers.
TurnEnds ==
  \A u \in Utterances : (arrived >= u) ~> (turn[u].pc \in {"finished", "failed"})

\* The table of pending page actions keeps the promise of PendingCalls; nothing is dropped.
Calls == INSTANCE PendingCalls WITH
  Calls <- Utterances \X (1..MaxCalls),
  open <- pending,
  settled <- {c \in Utterances \X (1..MaxCalls) : c[2] <= turn[c[1]].calls} \ pending,
  dropped <- {}

CallsKeptOnce == Calls!CallsSpec
===============================================================================
