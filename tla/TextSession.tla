------------------------------ MODULE TextSession ------------------------------
(***************************************************************************)
(* The text channel of one session: apps/api/src/index.ts (onMessage) and  *)
(* the parts of packages/agent/src/runtime.ts (runTurn) that read or write *)
(* the session.                                                            *)
(*                                                                         *)
(* Every frame the widget sends starts a handler of its own; nothing       *)
(* queues them, so handlers interleave at every await.  The session lives  *)
(* in Redis and each handler works on the copy it loaded.  All handlers    *)
(* share one Redis connection: a GET reads the store when it is sent, and  *)
(* replies are handed out in the order the commands were sent (replies).   *)
(***************************************************************************)
EXTENDS Naturals, FiniteSets, SequencesExt

CONSTANTS
  Turns,      \* user_text, card_tap and session_resume frames
  Notes,      \* visitor_action frames
  Ends,       \* session_end frames
  Steers,     \* steer lines the live-signal classifier can return
  NoSteer,    \* no steer line
  CapTurns,   \* CAP_TURNS
  MaxCalls,   \* bound on host actions per turn (the tool loop's own bound is 8 rounds)
  Pace        \* when the visitor sends the next turn, see PaceAllows

ASSUME TextSessionAssumption ==
  /\ Turns \cap Notes = {}
  /\ Turns \cap Ends = {}
  /\ Notes \cap Ends = {}
  /\ NoSteer \notin Steers
  /\ IsFiniteSet(Turns)
  /\ CapTurns \in Nat \ {0}
  /\ MaxCalls \in Nat
  /\ Pace \in {"free", "replied", "settled"}

VARIABLES
  store,              \* Redis session:<id>
  liveKey,            \* Redis session:<id>:live-signal
  replies,            \* handlers whose reply is due on the connection, in order
  turnNotes,          \* the turnNotes entry: notes queued behind a turn
  pendingHostActions, \* the pendingHostActions entry: calls awaiting an answer
  recorder,           \* the recorders entry: number of the live recorder, 0 for none
  pc,                 \* where each handler is
  snap,               \* the session object each handler holds
  turn,               \* what else a turn's handler holds
  created,            \* recorders created so far
  emitted,            \* recorders turned into a conversation record, in order
  dropped             \* calls thrown away by session_end

vars == <<store, liveKey, replies, turnNotes, pendingHostActions, recorder,
          pc, snap, turn, created, emitted, dropped>>

Frames == Turns \cup Notes \cup Ends
Kinds  == {"user_text", "card_tap", "session_resume"}
Labels == {"new", "loading", "merchant", "tapping", "thinking", "waiting",
           "classifying", "ending", "flushing", "deleting", "done"}
CallIds == Turns \X (1..MaxCalls)

\* An exchange is in the history under its turn's name: the visitor's words, the
\* reply and the [ACTIONS_DONE] note are one save.
Session == [live : BOOLEAN, hist : Seq(Turns \cup Notes), turnCount : Nat,
            steer : Steers \cup {NoSteer}]
NoSession == [live |-> FALSE, hist |-> <<>>, turnCount |-> 0, steer |-> NoSteer]

NoQueue == [live |-> FALSE, notes |-> <<>>]

Init ==
  /\ store = NoSession
  /\ liveKey = NoSteer
  /\ replies = <<>>
  /\ turnNotes = NoQueue
  /\ pendingHostActions = {}
  /\ recorder = 0
  /\ pc = [f \in Frames |-> "new"]
  /\ snap = [f \in Frames |-> NoSession]
  /\ turn = [t \in Turns |-> [kind |-> "user_text", owns |-> FALSE, batch |-> <<>>,
                              calls |-> 0, acted |-> FALSE, rec |-> 0]]
  /\ created = 0
  /\ emitted = <<>>
  /\ dropped = {}

-------------------------------------------------------------------------------
(* Steps shared by the handlers *)

Goto(f, label) == pc' = [pc EXCEPT ![f] = label]

\* loadSession: the GET reads the store as it is when sent, after every write sent before.
SendGet(f) ==
  /\ snap' = [snap EXCEPT ![f] = store]
  /\ replies' = Append(replies, f)

TakeReply(f) ==
  /\ replies # <<>>
  /\ Head(replies) = f
  /\ replies' = Tail(replies)

Running    == {t \in Turns : pc[t] \notin {"new", "done"}}
Unanswered == {t \in Turns : pc[t] \in {"loading", "merchant", "tapping", "thinking", "waiting"}}

\* The chat input is never disabled while a turn runs ("free").  A visitor may
\* still wait for the reply ("replied") or for the whole handler ("settled").
PaceAllows ==
  /\ Pace = "replied" => Unanswered = {}
  /\ Pace = "settled" => Running = {}

UserTurnsOf(r) == {u \in Turns : turn[u].rec = r /\ turn[u].kind = "user_text"}

\* Once runTurn returns, a user_text turn is classified from its second user turn on.
AfterRun(t) ==
  IF turn[t].kind = "user_text" /\ Cardinality(UserTurnsOf(turn[t].rec)) >= 2
  THEN "classifying" ELSE "ending"

\* What a finished exchange makes of the session object: new history, one turn more.
WithExchangeUncounted(session, t) == [session EXCEPT !.hist = Append(@, t)]  \* mutant
WithExchange(session, t) ==
  [session EXCEPT !.hist = Append(@, t), !.turnCount = @ + 1]

\* The first concurrent turn owns the queue.
AlwaysOwns == TRUE                                                   \* mutant
OwnsQueue  == ~turnNotes.live

\* The tool loop is bounded.
MayCallTool(t) == turn[t].kind = "user_text" /\ turn[t].calls < MaxCalls

\* A parked call leaves the table and its promise is resolved: the turn goes on.
UnparkOnly(t) ==                                                     \* mutant
  /\ <<t, turn[t].calls>> \in pendingHostActions
  /\ pendingHostActions' = pendingHostActions \ {<<t, turn[t].calls>>}
  /\ UNCHANGED pc
Resolve(t) ==
  /\ <<t, turn[t].calls>> \in pendingHostActions
  /\ pendingHostActions' = pendingHostActions \ {<<t, turn[t].calls>>}
  /\ Goto(t, "thinking")

-------------------------------------------------------------------------------
(* A turn *)

\* The frame arrives: mark a turn in flight (the first one owns the queue), then load.
TurnArrives(t) ==
  /\ pc[t] = "new"
  /\ PaceAllows
  /\ \E k \in Kinds :
       turn' = [turn EXCEPT ![t].kind = k, ![t].owns = OwnsQueue]
  /\ turnNotes' = [turnNotes EXCEPT !.live = TRUE]
  /\ SendGet(t)
  /\ Goto(t, "loading")
  /\ UNCHANGED <<store, liveKey, pendingHostActions, recorder, created, emitted, dropped>>

\* The session is there.  A resume replays it and ends; without a session only a
\* user_text goes on, with a fresh one that is not saved yet.
TurnLoaded(t) ==
  /\ pc[t] = "loading"
  /\ TakeReply(t)
  /\ LET goesOn == IF snap[t].live THEN turn[t].kind # "session_resume"
                                   ELSE turn[t].kind = "user_text"
     IN Goto(t, IF goesOn THEN "merchant" ELSE "ending")
  /\ snap' = [snap EXCEPT ![t].live = TRUE]
  /\ UNCHANGED <<store, liveKey, turnNotes, pendingHostActions, recorder, turn,
                 created, emitted, dropped>>

\* The merchant row is there: get or create the recorder, merge the live signal
\* into the session object, load the prompt and check the caps.
MerchantLoaded(t) ==
  /\ pc[t] = "merchant"
  /\ recorder' = IF recorder = 0 THEN created + 1 ELSE recorder
  /\ created' = IF recorder = 0 THEN created + 1 ELSE created
  /\ turn' = [turn EXCEPT ![t].rec = recorder']
  /\ snap' = [snap EXCEPT ![t].steer = IF liveKey # NoSteer THEN liveKey ELSE @]
  /\ \/ /\ snap[t].turnCount < CapTurns
        /\ Goto(t, IF turn[t].kind = "card_tap" THEN "tapping" ELSE "thinking")
     \/ Goto(t, AfterRun(t)')     \* capped, by turns or by the clock
  /\ UNCHANGED <<store, liveKey, replies, turnNotes, pendingHostActions, emitted, dropped>>

\* No merchant row, or a query throws: the finally block still runs.
TurnThrows(t) ==
  /\ pc[t] \in {"merchant", "tapping", "thinking"}
  /\ Goto(t, "ending")
  /\ UNCHANGED <<store, liveKey, replies, turnNotes, pendingHostActions, recorder, snap,
                 turn, created, emitted, dropped>>

\* A card tap adds to the cart through the adapter before the model is asked to
\* acknowledge it.
TapCart(t) ==
  /\ pc[t] = "tapping"
  /\ \E ok \in BOOLEAN : turn' = [turn EXCEPT ![t].acted = ok]
  /\ Goto(t, "thinking")
  /\ UNCHANGED <<store, liveKey, replies, turnNotes, pendingHostActions, recorder, snap,
                 created, emitted, dropped>>

\* The model calls a page tool: park a resolver under a new call id and ask the widget.
DispatchHostAction(t) ==
  /\ pc[t] = "thinking"
  /\ MayCallTool(t)
  /\ turn' = [turn EXCEPT ![t].calls = @ + 1]
  /\ pendingHostActions' = pendingHostActions \cup {<<t, turn[t].calls + 1>>}
  /\ Goto(t, "waiting")
  /\ UNCHANGED <<store, liveKey, replies, turnNotes, recorder, snap, created, emitted, dropped>>

\* host_action_result for a parked call.  A result for any other call id is ignored.
HostActionResult(t) ==
  /\ Resolve(t)
  /\ \E ok \in BOOLEAN : turn' = [turn EXCEPT ![t].acted = @ \/ ok]
  /\ UNCHANGED <<store, liveKey, replies, turnNotes, recorder, snap, created, emitted, dropped>>

\* The 5 s timer of a parked call: the turn goes on with reason "timeout".
NoTimer(t) == FALSE /\ UNCHANGED vars                                \* mutant
HostActionTimeout(t) ==
  /\ Resolve(t)
  /\ UNCHANGED <<store, liveKey, replies, turnNotes, recorder, snap, turn, created,
                 emitted, dropped>>

\* The model answers: the session object the turn loaded, plus this exchange, is saved.
SaveTurn(t) ==
  /\ pc[t] = "thinking"
  /\ store' = WithExchange(snap[t], t)
  /\ Goto(t, AfterRun(t))
  /\ UNCHANGED <<liveKey, replies, turnNotes, pendingHostActions, recorder, snap, turn,
                 created, emitted, dropped>>

\* The model call fails twice: an apology, and nothing is saved.
ExecutorError(t) ==
  /\ pc[t] = "thinking"
  /\ Goto(t, AfterRun(t))
  /\ UNCHANGED <<store, liveKey, replies, turnNotes, pendingHostActions, recorder, snap,
                 turn, created, emitted, dropped>>

\* The steer for the next turn goes under a key of its own: set, cleared, or left
\* alone when the classifier fails.
ClassifySavingSession(t) ==                \* mutant: the session object, not its own key
  /\ pc[t] = "classifying"
  /\ \E steer \in Steers : store' = [snap[t] EXCEPT !.steer = steer]
  /\ Goto(t, "ending")
  /\ UNCHANGED <<liveKey, replies, turnNotes, pendingHostActions, recorder, snap, turn,
                 created, emitted, dropped>>
Classify(t) ==
  /\ pc[t] = "classifying"
  /\ liveKey' \in Steers \cup {NoSteer, liveKey}
  /\ Goto(t, "ending")
  /\ UNCHANGED <<store, replies, turnNotes, pendingHostActions, recorder, snap, turn,
                 created, emitted, dropped>>

\* The finally block: the owner takes the queued notes and loads the latest session.
FinishTurn(t) ==
  /\ pc[t] = "ending"
  /\ IF turn[t].owns /\ turnNotes.notes # <<>>
     THEN /\ turn' = [turn EXCEPT ![t].batch = turnNotes.notes]
          /\ SendGet(t)
          /\ Goto(t, "flushing")
     ELSE /\ Goto(t, "done")
          /\ UNCHANGED <<turn, snap, replies>>
  /\ turnNotes' = IF turn[t].owns THEN NoQueue ELSE turnNotes
  /\ UNCHANGED <<store, liveKey, pendingHostActions, recorder, created, emitted, dropped>>

FlushNotes(t) ==
  /\ pc[t] = "flushing"
  /\ TakeReply(t)
  /\ store' = IF snap[t].live THEN [snap[t] EXCEPT !.hist = @ \o turn[t].batch] ELSE store
  /\ Goto(t, "done")
  /\ UNCHANGED <<liveKey, turnNotes, pendingHostActions, recorder, snap, turn, created,
                 emitted, dropped>>

-------------------------------------------------------------------------------
(* visitor_action *)

\* Behind a turn the note is queued; otherwise the handler loads the session itself.
NoteQueuedAndWritten(n) ==                 \* mutant: no early return after queueing
  /\ pc[n] = "new"
  /\ turnNotes' = IF turnNotes.live THEN [turnNotes EXCEPT !.notes = Append(@, n)]
                                    ELSE turnNotes
  /\ SendGet(n)
  /\ Goto(n, "loading")
  /\ UNCHANGED <<store, liveKey, pendingHostActions, recorder, turn, created, emitted, dropped>>
NoteArrives(n) ==
  /\ pc[n] = "new"
  /\ \/ /\ turnNotes.live
        /\ turnNotes' = [turnNotes EXCEPT !.notes = Append(@, n)]
        /\ Goto(n, "done")
        /\ UNCHANGED <<snap, replies>>
     \/ /\ ~turnNotes.live
        /\ SendGet(n)
        /\ Goto(n, "loading")
        /\ UNCHANGED turnNotes
  /\ UNCHANGED <<store, liveKey, pendingHostActions, recorder, turn, created, emitted, dropped>>

\* Append and save; without a session the note is dropped.
NoteLoaded(n) ==
  /\ pc[n] = "loading"
  /\ TakeReply(n)
  /\ store' = IF snap[n].live THEN [snap[n] EXCEPT !.hist = Append(@, n)] ELSE store
  /\ Goto(n, "done")
  /\ UNCHANGED <<liveKey, turnNotes, pendingHostActions, recorder, snap, turn, created,
                 emitted, dropped>>

-------------------------------------------------------------------------------
(* session_end *)

EndArrives(e) ==
  /\ pc[e] = "new"
  /\ SendGet(e)
  /\ Goto(e, "loading")
  /\ UNCHANGED <<store, liveKey, turnNotes, pendingHostActions, recorder, turn, created,
                 emitted, dropped>>

\* The visitor id is known: delete the session.  The DEL takes its place among the replies.
EndLoaded(e) ==
  /\ pc[e] = "loading"
  /\ replies # <<>>
  /\ Head(replies) = e
  /\ replies' = Append(Tail(replies), e)
  /\ store' = NoSession
  /\ Goto(e, "deleting")
  /\ UNCHANGED <<liveKey, turnNotes, pendingHostActions, recorder, snap, turn, created,
                 emitted, dropped>>

\* Timers are cleared and the pending calls deleted, none of them resolved; the
\* recorder becomes the conversation record.
EndKeepingRecorder(e) ==                   \* mutant: recorders.delete is forgotten
  /\ pc[e] = "deleting"
  /\ TakeReply(e)
  /\ pendingHostActions' = {}
  /\ dropped' = dropped \cup pendingHostActions
  /\ emitted' = IF recorder = 0 THEN emitted ELSE Append(emitted, recorder)
  /\ Goto(e, "done")
  /\ UNCHANGED <<store, liveKey, turnNotes, recorder, snap, turn, created>>
EndKeepingTable(e) ==                      \* mutant: pendingHostActions.delete is forgotten
  /\ pc[e] = "deleting"
  /\ TakeReply(e)
  /\ dropped' = dropped \cup pendingHostActions
  /\ emitted' = IF recorder = 0 THEN emitted ELSE Append(emitted, recorder)
  /\ recorder' = 0
  /\ Goto(e, "done")
  /\ UNCHANGED <<store, liveKey, turnNotes, pendingHostActions, snap, turn, created>>
EndDeleted(e) ==
  /\ pc[e] = "deleting"
  /\ TakeReply(e)
  /\ pendingHostActions' = {}
  /\ dropped' = dropped \cup pendingHostActions
  /\ emitted' = IF recorder = 0 THEN emitted ELSE Append(emitted, recorder)
  /\ recorder' = 0
  /\ Goto(e, "done")
  /\ UNCHANGED <<store, liveKey, turnNotes, snap, turn, created>>

-------------------------------------------------------------------------------
\* What the handler of a turn does by itself once it runs.
TurnStep(t) ==
  \/ TurnLoaded(t) \/ MerchantLoaded(t) \/ TapCart(t) \/ DispatchHostAction(t)
  \/ HostActionTimeout(t) \/ SaveTurn(t) \/ ExecutorError(t) \/ TurnThrows(t)
  \/ Classify(t) \/ FinishTurn(t) \/ FlushNotes(t)
EndStep(e) == EndLoaded(e) \/ EndDeleted(e)

Next ==
  \/ \E t \in Turns : TurnArrives(t) \/ HostActionResult(t) \/ TurnStep(t)
  \/ \E n \in Notes : NoteArrives(n) \/ NoteLoaded(n)
  \/ \E e \in Ends : EndArrives(e) \/ EndStep(e)

\* Model calls, queries and Redis replies all end (60 s abort, connection errors),
\* and timers fire; nobody promises that a frame or an answer arrives.
Fairness ==
  /\ \A t \in Turns : WF_vars(TurnStep(t))
  /\ \A n \in Notes : WF_vars(NoteLoaded(n))
  /\ \A e \in Ends : WF_vars(EndStep(e))

Spec == Init /\ [][Next]_vars /\ Fairness

-------------------------------------------------------------------------------
(* Properties *)

Turn == [kind : Kinds, owns : BOOLEAN, batch : Seq(Notes), calls : 0..MaxCalls,
         acted : BOOLEAN, rec : Nat]

\* Every variable has its type (the shapes index.ts and state.ts declare).
TypeOK ==
  /\ store \in Session
  /\ liveKey \in Steers \cup {NoSteer}
  /\ replies \in Seq(Frames)
  /\ turnNotes \in [live : BOOLEAN, notes : Seq(Notes)]
  /\ pendingHostActions \in SUBSET CallIds
  /\ recorder \in Nat
  /\ pc \in [Frames -> Labels]
  /\ snap \in [Frames -> Session]
  /\ turn \in [Turns -> Turn]
  /\ created \in Nat
  /\ emitted \in Seq(Nat)
  /\ dropped \in SUBSET CallIds

\* The turn that will take the queue in its finally block.
Owner(t) == turn[t].owns /\ pc[t] \notin {"new", "flushing", "done"}

\* However turns overlap, the queue of notes exists exactly while one single turn
\* is going to flush it: no note is queued where nobody will look (turnNotes,
\* ownsTurn and the finally block of index.ts).
OneOwner ==
  /\ \A t, u \in Turns : Owner(t) /\ Owner(u) => t = u
  /\ turnNotes.live <=> \E t \in Turns : Owner(t)
  /\ ~turnNotes.live => turnNotes.notes = <<>>

\* A turn that waits for the widget can be woken: its call is in the table, unless
\* a session_end threw the table away.  And the table holds no call nobody awaits.
WaitersAnswerable ==
  /\ \A t \in Turns : pc[t] = "waiting" => <<t, turn[t].calls>> \in pendingHostActions \cup dropped
  /\ \A c \in pendingHostActions : pc[c[1]] = "waiting" /\ turn[c[1]].calls = c[2]

\* A conversation is recorded once: no recorder becomes two records, and the live
\* one has not been recorded, however often session_end arrives.
RecordedOnce ==
  /\ \A i, j \in DOMAIN emitted : emitted[i] = emitted[j] => i = j
  /\ recorder \notin Range(emitted)

\* No exchange and no note is in the history twice, whatever was queued, flushed,
\* written directly or written from a stale copy.
HistoryNoRepeats ==
  \A i, j \in DOMAIN store.hist : store.hist[i] = store.hist[j] => i = j

\* The count the caps are checked against is the number of exchanges in the history.
CountMatchesHistory ==
  store.turnCount = Cardinality(Range(store.hist) \cap Turns)

\* While a session lives, an exchange once saved stays in its history.  (Holds for a
\* visitor who waits until the previous turn's handler is through and does not end the
\* session.)
ExchangeKept ==
  [][store.live /\ store'.live
       => Range(store.hist) \cap Turns \subseteq Range(store'.hist)]_vars

\* index.ts:141-143 says notes are appended after the turn's own save, "so the two never
\* race on the session's read-modify-write": nothing written to a live session is overwritten.
HistoryGrows ==
  [][store.live /\ store'.live => Range(store.hist) \subseteq Range(store'.hist)]_vars

\* Every turn's handler ends, whatever the model, the widget and the other handlers do,
\* unless a session_end threw away the call it waits for.
TurnEnds ==
  \A t \in Turns : (pc[t] # "new") ~> (pc[t] = "done" \/ \E c \in dropped : c[1] = t)

\* The table of pending calls keeps the promise of PendingCalls.
Calls == INSTANCE PendingCalls WITH
  Calls <- CallIds,
  open <- pendingHostActions,
  settled <- {c \in CallIds : c[2] <= turn[c[1]].calls} \ (pendingHostActions \cup dropped),
  dropped <- dropped

CallsKeptOnce == Calls!CallsSpec
===============================================================================
