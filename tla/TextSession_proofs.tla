-------------------------- MODULE TextSession_proofs ---------------------------
(***************************************************************************)
(* Proofs about TextSession, for any frames, caps and pace.                *)
(***************************************************************************)
EXTENDS TextSession, FiniteSetTheorems, TLAPS

\* What loadSession leaves behind has its type, in whichever handler it is called.
LEMMA SendGetType ==
  ASSUME TypeOK, NEW f \in Frames, SendGet(f)
  PROVE  snap' \in [Frames -> Session] /\ replies' \in Seq(Frames)
BY DEF TypeOK, SendGet

LEMMA TakeReplyType ==
  ASSUME TypeOK, NEW f \in Frames, TakeReply(f)
  PROVE  replies' \in Seq(Frames)
BY DEF TypeOK, TakeReply

LEMMA GotoType ==
  ASSUME TypeOK, NEW f \in Frames, NEW label \in Labels, Goto(f, label)
  PROVE  pc' \in [Frames -> Labels]
BY DEF TypeOK, Goto

LEMMA ExchangeType ==
  ASSUME NEW s \in Session, NEW t \in Turns
  PROVE  WithExchange(s, t) \in Session
<1>. DEFINE longer == [s EXCEPT !.hist = Append(s.hist, t)]
<1>1. Append(s.hist, t) \in Seq(Turns \cup Notes) BY DEF Session
<1>2. longer \in Session BY <1>1 DEF Session
<1>3. s.turnCount + 1 \in Nat BY DEF Session
<1>4. WithExchange(s, t) = [longer EXCEPT !.turnCount = s.turnCount + 1]
  BY DEF WithExchange
<1>. HIDE DEF longer
<1>. QED BY <1>2, <1>3, <1>4 DEF Session

\* A queue of notes stays one when a note joins it.
LEMMA QueueType ==
  ASSUME NEW q \in [live : BOOLEAN, notes : Seq(Notes)], NEW n \in Notes
  PROVE  [q EXCEPT !.notes = Append(@, n)] \in [live : BOOLEAN, notes : Seq(Notes)]
OBVIOUS

\* A turn's record keeps its type when one of its fields is replaced.
LEMMA TurnFieldTypes ==
  ASSUME turn \in [Turns -> Turn], NEW t \in Turns
  PROVE  /\ \A ok \in BOOLEAN : [turn EXCEPT ![t].acted = ok] \in [Turns -> Turn]
         /\ \A i \in 0..MaxCalls : [turn EXCEPT ![t].calls = i] \in [Turns -> Turn]
         /\ \A ns \in Seq(Notes) : [turn EXCEPT ![t].batch = ns] \in [Turns -> Turn]
<1>1. \A ok \in BOOLEAN : [turn EXCEPT ![t].acted = ok] \in [Turns -> Turn] BY DEF Turn
<1>2. \A i \in 0..MaxCalls : [turn EXCEPT ![t].calls = i] \in [Turns -> Turn] BY DEF Turn
<1>3. \A ns \in Seq(Notes) : [turn EXCEPT ![t].batch = ns] \in [Turns -> Turn] BY DEF Turn
<1>. QED BY <1>1, <1>2, <1>3

\* An arriving turn sets two fields of its record.
LEMMA ArrivalType ==
  ASSUME TypeOK, NEW t \in Turns, TurnArrives(t)
  PROVE  turn' \in [Turns -> Turn]
<1>1. PICK k \in Kinds : turn' = [turn EXCEPT ![t].kind = k, ![t].owns = OwnsQueue]
  BY DEF TurnArrives
<1>. DEFINE named == [turn EXCEPT ![t].kind = k]
<1>2. turn \in [Turns -> Turn] /\ OwnsQueue \in BOOLEAN BY DEF TypeOK, OwnsQueue
<1>3. named \in [Turns -> Turn] BY <1>2 DEF Turn
<1>4. turn' = [named EXCEPT ![t].owns = OwnsQueue] BY <1>1, <1>2
<1>. HIDE DEF named
<1>. QED BY <1>2, <1>3, <1>4 DEF Turn

LEMMA AfterRunType == \A t : AfterRun(t) \in Labels
BY DEF AfterRun, Labels

\* Where the handler goes once the merchant is there.
LEMMA MerchantLabel ==
  ASSUME NEW t, MerchantLoaded(t)
  PROVE  \E label \in {"tapping", "thinking", "classifying", "ending"} : Goto(t, label)
BY DEF MerchantLoaded, AfterRun

\* Every step of a turn's handler keeps the types.
LEMMA TurnTypes ==
  ASSUME TypeOK, NEW t \in Turns,
         TurnArrives(t) \/ HostActionResult(t) \/ TurnStep(t)
  PROVE  TypeOK'
<1>0. t \in Frames /\ pc \in [Frames -> Labels] /\ turn[t] \in Turn
  BY DEF Frames, TypeOK
<1>1. CASE TurnArrives(t)
  <2>1. turn' \in [Turns -> Turn]
    BY <1>1, ArrivalType
  <2>2. turnNotes' \in [live : BOOLEAN, notes : Seq(Notes)]
    BY <1>1 DEF TypeOK, TurnArrives
  <2>3. pc' \in [Frames -> Labels]
    BY <1>0, <1>1, GotoType DEF TurnArrives, Labels
  <2>. QED BY <1>0, <1>1, <2>1, <2>2, <2>3, SendGetType DEF TypeOK, TurnArrives
<1>2. CASE TurnLoaded(t)
  <2>1. snap' \in [Frames -> Session]
    BY <1>0, <1>2 DEF TypeOK, TurnLoaded, Session
  <2>2. pc' \in [Frames -> Labels]
    BY <1>0, <1>2, GotoType DEF TurnLoaded, Labels
  <2>. QED BY <1>0, <1>2, <2>1, <2>2, TakeReplyType DEF TypeOK, TurnLoaded
<1>3. CASE MerchantLoaded(t)
  <2>1. recorder' \in Nat /\ created' \in Nat
    BY <1>3 DEF TypeOK, MerchantLoaded
  <2>2. turn' \in [Turns -> Turn]
    BY <1>0, <1>3, <2>1 DEF TypeOK, MerchantLoaded, Turn
  <2>3. snap' \in [Frames -> Session]
    BY <1>0, <1>3 DEF TypeOK, MerchantLoaded, Session
  <2>4. pc' \in [Frames -> Labels]
    BY <1>0, <1>3, MerchantLabel, GotoType DEF Labels
  <2>. QED BY <1>3, <2>1, <2>2, <2>3, <2>4 DEF TypeOK, MerchantLoaded
<1>4. CASE TapCart(t)
  <2>1. turn' \in [Turns -> Turn] BY <1>4, TurnFieldTypes DEF TypeOK, TapCart
  <2>2. pc' \in [Frames -> Labels] BY <1>0, <1>4, GotoType DEF TapCart, Labels
  <2>. QED BY <1>4, <2>1, <2>2 DEF TypeOK, TapCart
<1>5. CASE DispatchHostAction(t)
  <2>1. turn[t].calls + 1 \in 1..MaxCalls
    BY <1>0, <1>5, TextSessionAssumption DEF DispatchHostAction, MayCallTool, Turn
  <2>2. turn' \in [Turns -> Turn]
    <3>1. turn' = [turn EXCEPT ![t].calls = turn[t].calls + 1]
      BY <1>5 DEF DispatchHostAction
    <3>. QED BY <2>1, <3>1, TurnFieldTypes DEF TypeOK
  <2>3. pendingHostActions' \in SUBSET CallIds
    BY <1>5, <2>1 DEF TypeOK, DispatchHostAction, CallIds
  <2>4. pc' \in [Frames -> Labels] BY <1>0, <1>5, GotoType DEF DispatchHostAction, Labels
  <2>. QED BY <1>5, <2>2, <2>3, <2>4 DEF TypeOK, DispatchHostAction
<1>6. CASE HostActionResult(t)
  <2>1. turn' \in [Turns -> Turn]
    <3>1. PICK ok \in BOOLEAN : turn' = [turn EXCEPT ![t].acted = turn[t].acted \/ ok]
      BY <1>6 DEF HostActionResult
    <3>2. (turn[t].acted \/ ok) \in BOOLEAN OBVIOUS
    <3>. QED BY <3>1, <3>2, TurnFieldTypes DEF TypeOK
  <2>2. pc' \in [Frames -> Labels]
    BY <1>0, <1>6, GotoType DEF HostActionResult, Resolve, Labels
  <2>. QED BY <1>6, <2>1, <2>2 DEF TypeOK, HostActionResult, Resolve
<1>7. CASE HostActionTimeout(t)
  <2>1. pc' \in [Frames -> Labels]
    BY <1>0, <1>7, GotoType DEF HostActionTimeout, Resolve, Labels
  <2>. QED BY <1>7, <2>1 DEF TypeOK, HostActionTimeout, Resolve
<1>8. CASE SaveTurn(t)
  <2>1. store' \in Session BY <1>0, <1>8, ExchangeType DEF TypeOK, SaveTurn
  <2>2. pc' \in [Frames -> Labels] BY <1>0, <1>8, GotoType, AfterRunType DEF SaveTurn
  <2>. QED BY <1>8, <2>1, <2>2 DEF TypeOK, SaveTurn
<1>9. CASE ExecutorError(t) \/ TurnThrows(t)
  <2>1. pc' \in [Frames -> Labels]
    BY <1>0, <1>9, GotoType, AfterRunType DEF ExecutorError, TurnThrows, Labels
  <2>. QED BY <1>9, <2>1 DEF TypeOK, ExecutorError, TurnThrows
<1>10. CASE Classify(t)
  <2>1. pc' \in [Frames -> Labels] BY <1>0, <1>10, GotoType DEF Classify, Labels
  <2>. QED BY <1>10, <2>1 DEF TypeOK, Classify
<1>11. CASE FinishTurn(t)
  <2>1. turn' \in [Turns -> Turn]
    <3>1. turnNotes.notes \in Seq(Notes) BY DEF TypeOK
    <3>2. \/ turn' = turn
          \/ turn' = [turn EXCEPT ![t].batch = turnNotes.notes]
      BY <1>11 DEF FinishTurn
    <3>. QED BY <3>1, <3>2, TurnFieldTypes DEF TypeOK
  <2>2. pc' \in [Frames -> Labels] BY <1>0, <1>11, GotoType DEF FinishTurn, Labels
  <2>3. snap' \in [Frames -> Session] /\ replies' \in Seq(Frames)
    BY <1>0, <1>11, SendGetType DEF TypeOK, FinishTurn
  <2>4. turnNotes' \in [live : BOOLEAN, notes : Seq(Notes)]
    BY <1>11 DEF TypeOK, FinishTurn, NoQueue
  <2>. QED BY <1>11, <2>1, <2>2, <2>3, <2>4 DEF TypeOK, FinishTurn
<1>12. CASE FlushNotes(t)
  <2>1. snap[t].hist \o turn[t].batch \in Seq(Turns \cup Notes)
    BY <1>0 DEF TypeOK, Session, Turn
  <2>2. store' \in Session BY <1>0, <1>12, <2>1 DEF TypeOK, FlushNotes, Session
  <2>3. pc' \in [Frames -> Labels] BY <1>0, <1>12, GotoType DEF FlushNotes, Labels
  <2>. QED BY <1>0, <1>12, <2>2, <2>3, TakeReplyType DEF TypeOK, FlushNotes
<1>. QED BY <1>1, <1>2, <1>3, <1>4, <1>5, <1>6, <1>7, <1>8, <1>9, <1>10, <1>11, <1>12
         DEF TurnStep

\* Every step of a visitor_action or session_end handler keeps the types.
LEMMA NoteAndEndTypes ==
  ASSUME TypeOK,
         \/ \E n \in Notes : NoteArrives(n) \/ NoteLoaded(n)
         \/ \E e \in Ends : EndArrives(e) \/ EndStep(e)
  PROVE  TypeOK'
<1>1. ASSUME NEW n \in Notes, NoteArrives(n) PROVE TypeOK'
  <2>0. n \in Frames BY DEF Frames
  <2>1. turnNotes' \in [live : BOOLEAN, notes : Seq(Notes)]
    BY <1>1, QueueType DEF TypeOK, NoteArrives
  <2>2. pc' \in [Frames -> Labels] BY <1>1, <2>0, GotoType DEF NoteArrives, Labels
  <2>3. snap' \in [Frames -> Session] /\ replies' \in Seq(Frames)
    BY <1>1, <2>0, SendGetType DEF TypeOK, NoteArrives
  <2>. QED BY <1>1, <2>1, <2>2, <2>3 DEF TypeOK, NoteArrives
<1>2. ASSUME NEW n \in Notes, NoteLoaded(n) PROVE TypeOK'
  <2>0. n \in Frames BY DEF Frames
  <2>1. Append(snap[n].hist, n) \in Seq(Turns \cup Notes)
    BY <2>0 DEF TypeOK, Session
  <2>2. store' \in Session BY <1>2, <2>0, <2>1 DEF TypeOK, NoteLoaded, Session
  <2>3. pc' \in [Frames -> Labels] BY <1>2, <2>0, GotoType DEF NoteLoaded, Labels
  <2>. QED BY <1>2, <2>0, <2>2, <2>3, TakeReplyType DEF TypeOK, NoteLoaded
<1>3. ASSUME NEW e \in Ends, EndArrives(e) PROVE TypeOK'
  <2>0. e \in Frames BY DEF Frames
  <2>1. pc' \in [Frames -> Labels] BY <1>3, <2>0, GotoType DEF EndArrives, Labels
  <2>. QED BY <1>3, <2>0, <2>1, SendGetType DEF TypeOK, EndArrives
<1>4. ASSUME NEW e \in Ends, EndLoaded(e) PROVE TypeOK'
  <2>0. e \in Frames BY DEF Frames
  <2>1. pc' \in [Frames -> Labels] BY <1>4, <2>0, GotoType DEF EndLoaded, Labels
  <2>2. replies' \in Seq(Frames) BY <1>4, <2>0 DEF TypeOK, EndLoaded
  <2>3. store' \in Session
    BY <1>4 DEF EndLoaded, NoSession, Session
  <2>. QED BY <1>4, <2>1, <2>2, <2>3 DEF TypeOK, EndLoaded
<1>5. ASSUME NEW e \in Ends, EndDeleted(e) PROVE TypeOK'
  <2>0. e \in Frames BY DEF Frames
  <2>1. pc' \in [Frames -> Labels] BY <1>5, <2>0, GotoType DEF EndDeleted, Labels
  <2>2. emitted' \in Seq(Nat) /\ recorder' \in Nat BY <1>5 DEF TypeOK, EndDeleted
  <2>. QED BY <1>5, <2>0, <2>1, <2>2, TakeReplyType DEF TypeOK, EndDeleted
<1>. QED BY <1>1, <1>2, <1>3, <1>4, <1>5 DEF EndStep

\* Every variable keeps its type.
THEOREM TypeCorrect == Spec => []TypeOK
<1>1. Init => TypeOK
  BY TextSessionAssumption DEF Init, TypeOK, Session, NoSession, NoQueue, Turn, Kinds, Labels,
     Frames, CallIds
<1>2. TypeOK /\ [Next]_vars => TypeOK'
  <2>1. TypeOK /\ UNCHANGED vars => TypeOK' BY DEF TypeOK, vars
  <2>. QED BY <2>1, TurnTypes, NoteAndEndTypes DEF Next
<1>. QED BY <1>1, <1>2, PTL DEF Spec

-------------------------------------------------------------------------------
\* OneOwner and WaitersAnswerable are inductive together with the types: only an
\* arriving turn can become the owner of the queue, and only the owner's finally block
\* removes it; a call leaves the table when its turn is woken or a session_end drops it.
SessionInv == TypeOK /\ OneOwner /\ WaitersAnswerable

\* Where a turn's handler is between its arrival and its finally block.
Active == {"loading", "merchant", "tapping", "thinking", "waiting", "classifying", "ending"}

\* The steps a turn takes there leave the queue and its ownership alone.
TurnMoves(t) ==
  \/ TurnLoaded(t) \/ MerchantLoaded(t) \/ TapCart(t) \/ DispatchHostAction(t)
  \/ HostActionResult(t) \/ HostActionTimeout(t) \/ SaveTurn(t) \/ ExecutorError(t)
  \/ TurnThrows(t) \/ Classify(t)

LEMMA MovesWithin ==
  ASSUME SessionInv, NEW t \in Turns, TurnMoves(t)
  PROVE  /\ pc[t] \in Active
         /\ \E label \in Active : Goto(t, label)
         /\ UNCHANGED turnNotes
         /\ \A u \in Turns : turn'[u].owns = turn[u].owns
<1>1. turn \in [Turns -> Turn] /\ t \in Frames BY DEF SessionInv, TypeOK, Frames
<1>2. CASE TurnLoaded(t)
  BY <1>2 DEF TurnLoaded, Active
<1>3. CASE MerchantLoaded(t)
  <2>1. \E label \in Active : Goto(t, label)  BY <1>3, MerchantLabel DEF Active
  <2>. QED BY <1>1, <1>3, <2>1 DEF MerchantLoaded, Active, Turn
<1>4. CASE TapCart(t)
  BY <1>1, <1>4 DEF TapCart, Active, Turn
<1>5. CASE DispatchHostAction(t)
  BY <1>1, <1>5 DEF DispatchHostAction, Active, Turn
<1>6. CASE HostActionResult(t)
  <2>1. pc[t] = "waiting"
    BY <1>6 DEF SessionInv, WaitersAnswerable, HostActionResult, Resolve
  <2>. QED BY <1>1, <1>6, <2>1 DEF HostActionResult, Resolve, Active, Turn
<1>7. CASE HostActionTimeout(t)
  <2>1. pc[t] = "waiting"
    BY <1>7 DEF SessionInv, WaitersAnswerable, HostActionTimeout, Resolve
  <2>. QED BY <1>7, <2>1 DEF HostActionTimeout, Resolve, Active
<1>8. CASE SaveTurn(t)
  BY <1>8 DEF SaveTurn, AfterRun, Active
<1>9. CASE ExecutorError(t) \/ TurnThrows(t)
  BY <1>9 DEF ExecutorError, TurnThrows, AfterRun, Active
<1>10. CASE Classify(t)
  BY <1>10 DEF Classify, Active
<1>. QED BY <1>2, <1>3, <1>4, <1>5, <1>6, <1>7, <1>8, <1>9, <1>10 DEF TurnMoves

\* The owners stay the same when a turn moves within Active ...
LEMMA MoveKeepsOwner ==
  ASSUME SessionInv, NEW t \in Turns, TurnMoves(t)
  PROVE  OneOwner'
<1>1. \A u \in Turns : Owner(u)' <=> Owner(u)
  <2>1. PICK label \in Active : pc' = [pc EXCEPT ![t] = label]
    BY MovesWithin DEF Goto
  <2>2. t \in Frames /\ pc \in [Frames -> Labels] /\ Turns \subseteq Frames
    BY DEF SessionInv, TypeOK, Frames
  <2>. QED BY <2>1, <2>2, MovesWithin DEF Owner, Active
<1>. QED BY <1>1, MovesWithin DEF OneOwner, SessionInv

\* ... and when a frame that is not a turn moves.
LEMMA OtherOwners ==
  ASSUME SessionInv, NEW f \in Notes \cup Ends, NEW label, Goto(f, label), UNCHANGED turn
  PROVE  \A u \in Turns : Owner(u)' <=> Owner(u)
BY TextSessionAssumption DEF SessionInv, TypeOK, Owner, Goto, Frames

LEMMA OwnerStep ==
  ASSUME SessionInv, Next
  PROVE  OneOwner'
<1>0. turn \in [Turns -> Turn] /\ pc \in [Frames -> Labels] /\ Turns \subseteq Frames /\ OneOwner
  BY DEF SessionInv, TypeOK, Frames
<1>1. ASSUME NEW t \in Turns, TurnArrives(t) PROVE OneOwner'
  <2>1. pc[t] = "new" /\ pc' = [pc EXCEPT ![t] = "loading"]
    BY <1>1 DEF TurnArrives, Goto
  <2>2. turn'[t].owns = ~turnNotes.live /\ \A u \in Turns \ {t} : turn'[u] = turn[u]
    <3>1. PICK k \in Kinds : turn' = [turn EXCEPT ![t].kind = k, ![t].owns = OwnsQueue]
      BY <1>1 DEF TurnArrives
    <3>. QED BY <1>0, <3>1 DEF Turn, OwnsQueue
  <2>3. Owner(t)' <=> ~turnNotes.live
    BY <1>0, <2>1, <2>2 DEF Owner
  <2>4. ~Owner(t) BY <2>1 DEF Owner
  <2>5. \A u \in Turns \ {t} : Owner(u)' <=> Owner(u)
    BY <1>0, <2>1, <2>2 DEF Owner
  <2>6. turnNotes'.live
    BY <1>1 DEF TurnArrives, SessionInv, TypeOK
  <2>. QED BY <1>0, <2>3, <2>4, <2>5, <2>6 DEF OneOwner
<1>2. ASSUME NEW t \in Turns, FinishTurn(t) PROVE OneOwner'
  <2>1. pc[t] = "ending" /\ (Owner(t) <=> turn[t].owns)
    BY <1>2 DEF FinishTurn, Owner
  <2>2. ~Owner(t)'
    BY <1>0, <1>2 DEF FinishTurn, Owner, Goto
  <2>3. \A u \in Turns \ {t} : Owner(u)' <=> Owner(u)
    BY <1>0, <1>2 DEF FinishTurn, Owner, Goto
  <2>4. CASE turn[t].owns
    <3>1. turnNotes' = NoQueue BY <1>2, <2>4 DEF FinishTurn
    <3>2. \A u \in Turns \ {t} : ~Owner(u) BY <1>0, <2>1, <2>4 DEF OneOwner
    <3>. QED BY <2>2, <2>3, <3>1, <3>2 DEF OneOwner, NoQueue
  <2>5. CASE ~turn[t].owns
    <3>1. turnNotes' = turnNotes /\ ~Owner(t) BY <1>2, <2>1, <2>5 DEF FinishTurn
    <3>. QED BY <1>0, <2>2, <2>3, <3>1 DEF OneOwner
  <2>. QED BY <2>4, <2>5
<1>3. ASSUME NEW t \in Turns, FlushNotes(t) PROVE OneOwner'
  <2>1. \A u \in Turns : Owner(u)' <=> Owner(u)
    BY <1>0, <1>3 DEF FlushNotes, Owner, Goto
  <2>. QED BY <1>0, <1>3, <2>1 DEF OneOwner, FlushNotes
<1>4. ASSUME NEW n \in Notes, NoteArrives(n) PROVE OneOwner'
  <2>1. \A u \in Turns : Owner(u)' <=> Owner(u)
    BY <1>4, OtherOwners DEF NoteArrives
  <2>2. turnNotes'.live = turnNotes.live /\ (~turnNotes.live => turnNotes' = turnNotes)
    BY <1>4 DEF NoteArrives, SessionInv, TypeOK
  <2>. QED BY <1>0, <2>1, <2>2 DEF OneOwner
<1>5. ASSUME NEW n \in Notes, NoteLoaded(n) PROVE OneOwner'
  <2>1. \A u \in Turns : Owner(u)' <=> Owner(u)
    BY <1>5, OtherOwners DEF NoteLoaded
  <2>. QED BY <1>0, <1>5, <2>1 DEF OneOwner, NoteLoaded
<1>6. ASSUME NEW e \in Ends, EndArrives(e) \/ EndStep(e) PROVE OneOwner'
  <2>1. \A u \in Turns : Owner(u)' <=> Owner(u)
    BY <1>6, OtherOwners DEF EndArrives, EndStep, EndLoaded, EndDeleted
  <2>2. turnNotes' = turnNotes
    BY <1>6 DEF EndArrives, EndStep, EndLoaded, EndDeleted
  <2>. QED BY <1>0, <2>1, <2>2 DEF OneOwner
<1>. QED BY <1>1, <1>2, <1>3, <1>4, <1>5, <1>6, MoveKeepsOwner DEF Next, TurnStep, TurnMoves

\* A step of a frame that does not wait, before or after it, leaves the waiting turns
\* and the table alone.
LEMMA QuietStep ==
  ASSUME SessionInv, NEW f \in Frames, NEW label, Goto(f, label),
         f \in Turns => pc[f] # "waiting" /\ label # "waiting",
         UNCHANGED <<pendingHostActions, dropped>>,
         \A u \in Turns : turn'[u].calls = turn[u].calls
  PROVE  WaitersAnswerable'
<1>1. pc \in [Frames -> Labels] /\ Turns \subseteq Frames /\ pendingHostActions \subseteq CallIds
  BY DEF SessionInv, TypeOK, Frames
<1>2. \A t \in Turns : pc'[t] = "waiting" <=> pc[t] = "waiting"
  BY <1>1 DEF Goto
<1>3. \A c \in pendingHostActions : c[1] \in Turns
  BY <1>1 DEF CallIds
<1>. QED BY <1>2, <1>3 DEF SessionInv, WaitersAnswerable

LEMMA WaiterStep ==
  ASSUME SessionInv, Next
  PROVE  WaitersAnswerable'
<1>0. /\ turn \in [Turns -> Turn] /\ pc \in [Frames -> Labels] /\ Turns \subseteq Frames
      /\ pendingHostActions \subseteq CallIds /\ WaitersAnswerable
  BY DEF SessionInv, TypeOK, Frames
<1>1. ASSUME NEW t \in Turns, TurnArrives(t) PROVE WaitersAnswerable'
  <2>1. PICK k \in Kinds : turn' = [turn EXCEPT ![t].kind = k, ![t].owns = OwnsQueue]
    BY <1>1 DEF TurnArrives
  <2>2. \A u \in Turns : turn'[u].calls = turn[u].calls
    BY <1>0, <2>1 DEF Turn
  <2>3. pc[t] = "new" /\ Goto(t, "loading") /\ UNCHANGED <<pendingHostActions, dropped>>
    BY <1>1 DEF TurnArrives
  <2>. QED BY <1>0, <2>2, <2>3, QuietStep
<1>2. ASSUME NEW t \in Turns,
             TurnLoaded(t) \/ SaveTurn(t) \/ ExecutorError(t) \/ TurnThrows(t) \/ Classify(t)
               \/ FlushNotes(t)
      PROVE  WaitersAnswerable'
  <2>1. UNCHANGED <<turn, pendingHostActions, dropped>>
    BY <1>2 DEF TurnLoaded, SaveTurn, ExecutorError, TurnThrows, Classify, FlushNotes
  <2>2. pc[t] # "waiting"
    BY <1>2 DEF TurnLoaded, SaveTurn, ExecutorError, TurnThrows, Classify, FlushNotes
  <2>3. \E label \in Labels \ {"waiting"} : Goto(t, label)
    BY <1>2 DEF TurnLoaded, SaveTurn, ExecutorError, TurnThrows, Classify, FlushNotes,
                AfterRun, Labels
  <2>. QED BY <1>0, <2>1, <2>2, <2>3, QuietStep
<1>3. ASSUME NEW t \in Turns, MerchantLoaded(t) PROVE WaitersAnswerable'
  <2>1. \A u \in Turns : turn'[u].calls = turn[u].calls
    BY <1>0, <1>3 DEF MerchantLoaded, Turn
  <2>2. \E label \in Labels \ {"waiting"} : Goto(t, label)
    BY <1>3, MerchantLabel DEF Labels
  <2>3. pc[t] # "waiting" /\ UNCHANGED <<pendingHostActions, dropped>>
    BY <1>3 DEF MerchantLoaded
  <2>. QED BY <1>0, <2>1, <2>2, <2>3, QuietStep
<1>4. ASSUME NEW t \in Turns, TapCart(t) PROVE WaitersAnswerable'
  <2>1. \A u \in Turns : turn'[u].calls = turn[u].calls
    BY <1>0, <1>4 DEF TapCart, Turn
  <2>2. pc[t] # "waiting" /\ Goto(t, "thinking") /\ UNCHANGED <<pendingHostActions, dropped>>
    BY <1>4 DEF TapCart
  <2>. QED BY <1>0, <2>1, <2>2, QuietStep
<1>5. ASSUME NEW t \in Turns, DispatchHostAction(t) PROVE WaitersAnswerable'
  <2>1. /\ pc[t] = "thinking" /\ pc' = [pc EXCEPT ![t] = "waiting"] /\ UNCHANGED dropped
        /\ pendingHostActions' = pendingHostActions \cup {<<t, turn[t].calls + 1>>}
    BY <1>5 DEF DispatchHostAction, Goto
  <2>2. /\ turn'[t].calls = turn[t].calls + 1
        /\ \A u \in Turns \ {t} : turn'[u] = turn[u]
    BY <1>0, <1>5 DEF DispatchHostAction, Turn
  <2>3. \A u \in Turns : pc'[u] = "waiting" => <<u, turn'[u].calls>> \in pendingHostActions' \cup dropped'
    BY <1>0, <2>1, <2>2 DEF WaitersAnswerable
  <2>4. \A c \in pendingHostActions : c[1] \in Turns \ {t}
    BY <1>0, <2>1 DEF CallIds, WaitersAnswerable
  <2>5. \A c \in pendingHostActions' : pc'[c[1]] = "waiting" /\ turn'[c[1]].calls = c[2]
    BY <1>0, <2>1, <2>2, <2>4 DEF WaitersAnswerable
  <2>. QED BY <2>3, <2>5 DEF WaitersAnswerable
<1>6. ASSUME NEW t \in Turns, HostActionResult(t) \/ HostActionTimeout(t) PROVE WaitersAnswerable'
  <2>1. /\ pc' = [pc EXCEPT ![t] = "thinking"] /\ UNCHANGED dropped
        /\ pendingHostActions' = pendingHostActions \ {<<t, turn[t].calls>>}
    BY <1>6 DEF HostActionResult, HostActionTimeout, Resolve, Goto
  <2>2. \A u \in Turns : turn'[u].calls = turn[u].calls
    <3>1. UNCHANGED turn \/ \E b : turn' = [turn EXCEPT ![t].acted = b]
      BY <1>6 DEF HostActionResult, HostActionTimeout
    <3>. QED BY ZenonT(30), <1>0, <3>1 DEF Turn
  <2>3. \A c \in pendingHostActions' : c[1] \in Turns \ {t}
    BY <1>0, <2>1 DEF CallIds, WaitersAnswerable
  <2>4. \A c \in pendingHostActions' : pc'[c[1]] = "waiting" /\ turn'[c[1]].calls = c[2]
    BY <1>0, <2>1, <2>2, <2>3 DEF WaitersAnswerable
  <2>5. \A u \in Turns : pc'[u] = "waiting" => <<u, turn'[u].calls>> \in pendingHostActions' \cup dropped'
    BY <1>0, <2>1, <2>2 DEF WaitersAnswerable
  <2>. QED BY <2>4, <2>5 DEF WaitersAnswerable
<1>7. ASSUME NEW t \in Turns, FinishTurn(t) PROVE WaitersAnswerable'
  <2>1. \A u \in Turns : turn'[u].calls = turn[u].calls
    <3>1. UNCHANGED turn \/ turn' = [turn EXCEPT ![t].batch = turnNotes.notes]
      BY <1>7 DEF FinishTurn
    <3>. QED BY ZenonT(30), <1>0, <3>1 DEF Turn
  <2>2. \E label \in Labels \ {"waiting"} : Goto(t, label)
    BY <1>7 DEF FinishTurn, Labels
  <2>3. pc[t] # "waiting" /\ UNCHANGED <<pendingHostActions, dropped>>
    BY <1>7 DEF FinishTurn
  <2>. QED BY <1>0, <2>1, <2>2, <2>3, QuietStep
<1>8. ASSUME NEW n \in Notes, NoteArrives(n) \/ NoteLoaded(n) PROVE WaitersAnswerable'
  <2>1. n \in Frames \ Turns BY TextSessionAssumption DEF Frames
  <2>2. UNCHANGED <<turn, pendingHostActions, dropped>> /\ \E label : Goto(n, label)
    BY <1>8 DEF NoteArrives, NoteLoaded
  <2>. QED BY <2>1, <2>2, QuietStep
<1>9. ASSUME NEW e \in Ends, EndArrives(e) \/ EndLoaded(e) PROVE WaitersAnswerable'
  <2>1. e \in Frames \ Turns BY TextSessionAssumption DEF Frames
  <2>2. UNCHANGED <<turn, pendingHostActions, dropped>> /\ \E label : Goto(e, label)
    BY <1>9 DEF EndArrives, EndLoaded
  <2>. QED BY <2>1, <2>2, QuietStep
<1>10. ASSUME NEW e \in Ends, EndDeleted(e) PROVE WaitersAnswerable'
  <2>1. e \in Frames \ Turns BY TextSessionAssumption DEF Frames
  <2>2. \A u \in Turns : pc'[u] = pc[u]
    BY <1>0, <1>10, <2>1 DEF EndDeleted, Goto
  <2>. QED BY <1>0, <1>10, <2>2 DEF EndDeleted, WaitersAnswerable
<1>. QED BY <1>1, <1>2, <1>3, <1>4, <1>5, <1>6, <1>7, <1>8, <1>9, <1>10
         DEF Next, TurnStep, EndStep

LEMMA SessionAlways == Spec => []SessionInv
<1>1. Init => SessionInv
  <2>1. Init => TypeOK
    BY TextSessionAssumption DEF Init, TypeOK, Session, NoSession, NoQueue, Turn, Kinds,
       Labels, Frames, CallIds
  <2>2. Init => OneOwner /\ WaitersAnswerable
    BY DEF Init, OneOwner, Owner, NoQueue, WaitersAnswerable, Frames
  <2>. QED BY <2>1, <2>2 DEF SessionInv
<1>2. SessionInv /\ [Next]_vars => SessionInv'
  <2>1. ASSUME SessionInv, Next PROVE SessionInv'
    BY <2>1, TurnTypes, NoteAndEndTypes, OwnerStep, WaiterStep DEF SessionInv, Next
  <2>2. ASSUME SessionInv, UNCHANGED vars PROVE SessionInv'
    <3>1. TypeOK' BY <2>2 DEF SessionInv, TypeOK, vars
    <3>2. OneOwner' BY <2>2 DEF SessionInv, OneOwner, Owner, vars
    <3>3. WaitersAnswerable' BY <2>2 DEF SessionInv, WaitersAnswerable, vars
    <3>. QED BY <3>1, <3>2, <3>3 DEF SessionInv
  <2>. QED BY <2>1, <2>2
<1>. QED BY <1>1, <1>2, PTL DEF Spec

\* However turns, notes and session_end frames interleave, one turn at most owns the
\* queue of notes, and a queue exists exactly while it has its owner (the turnNotes map of
\* index.ts).
THEOREM QueueHasOneOwner == Spec => []OneOwner
<1>1. SessionInv => OneOwner BY DEF SessionInv
<1>. QED BY <1>1, SessionAlways, PTL

\* A turn that waits for the widget can be woken, or a session_end threw its call away; and
\* no call is kept that nobody awaits (the pendingHostActions map of index.ts).
THEOREM WaitersCanBeWoken == Spec => []WaitersAnswerable
<1>1. SessionInv => WaitersAnswerable BY DEF SessionInv
<1>. QED BY <1>1, SessionAlways, PTL

-------------------------------------------------------------------------------
\* A dropped call was made before, and is not in the table any more.
DroppedCalls ==
  /\ \A c \in dropped : c[2] <= turn[c[1]].calls
  /\ pendingHostActions \cap dropped = {}

\* What the refinement of PendingCalls reads of a step.
CallsKept ==
  /\ UNCHANGED <<pendingHostActions, dropped>>
  /\ \A u \in Turns : turn'[u].calls = turn[u].calls

\* Replacing another field of a turn's record makes no call.
LEMMA OtherFieldsKeepCalls ==
  ASSUME turn \in [Turns -> Turn], NEW t \in Turns, NEW b,
         \/ turn' = [turn EXCEPT ![t].rec = b]
         \/ turn' = [turn EXCEPT ![t].acted = b]
         \/ turn' = [turn EXCEPT ![t].batch = b]
  PROVE  \A u \in Turns : turn'[u].calls = turn[u].calls
<1>1. turn[t] \in Turn OBVIOUS
<1>2. CASE turn' = [turn EXCEPT ![t].rec = b] BY <1>1, <1>2 DEF Turn
<1>3. CASE turn' = [turn EXCEPT ![t].acted = b] BY <1>1, <1>3 DEF Turn
<1>4. CASE turn' = [turn EXCEPT ![t].batch = b] BY <1>1, <1>4 DEF Turn
<1>. QED BY <1>2, <1>3, <1>4

LEMMA KeptIsStutter ==
  ASSUME SessionInv, DroppedCalls, CallsKept
  PROVE  DroppedCalls' /\ UNCHANGED Calls!callVars
<1>1. \A c \in CallIds : turn'[c[1]].calls = turn[c[1]].calls
  BY DEF CallsKept, CallIds
<1>2. dropped \subseteq CallIds BY DEF SessionInv, TypeOK
<1>. QED BY <1>1, <1>2 DEF CallsKept, DroppedCalls, Calls!callVars

LEMMA DispatchIssues ==
  ASSUME SessionInv, DroppedCalls, NEW t \in Turns, DispatchHostAction(t)
  PROVE  DroppedCalls' /\ \E c \in CallIds : Calls!Issue(c)
<1>0. /\ turn \in [Turns -> Turn] /\ pendingHostActions \subseteq CallIds /\ dropped \subseteq CallIds
      /\ WaitersAnswerable /\ turn[t].calls \in 0..MaxCalls
  BY DEF SessionInv, TypeOK, Turn
<1>. DEFINE new == <<t, turn[t].calls + 1>>
<1>1. /\ pc[t] = "thinking" /\ turn[t].calls < MaxCalls /\ UNCHANGED dropped
      /\ pendingHostActions' = pendingHostActions \cup {new}
  BY DEF DispatchHostAction, MayCallTool
<1>2. /\ turn'[t].calls = turn[t].calls + 1
      /\ \A u \in Turns \ {t} : turn'[u].calls = turn[u].calls
  BY <1>0 DEF DispatchHostAction, Turn
<1>3. new \in CallIds
  BY <1>0, <1>1, TextSessionAssumption DEF CallIds
<1>4. new \notin pendingHostActions
  BY <1>1 DEF SessionInv, WaitersAnswerable
<1>5. new \notin dropped
  BY <1>0 DEF DroppedCalls
<1>6. \A c \in CallIds : c[2] <= turn'[c[1]].calls <=> c[2] <= turn[c[1]].calls \/ c = new
  BY <1>0, <1>2, TextSessionAssumption DEF CallIds
<1>7. ~(new[2] <= turn[new[1]].calls) BY <1>0
<1>8. Calls!Issue(new)
  BY <1>1, <1>3, <1>4, <1>5, <1>6, <1>7 DEF Calls!Issue
<1>9. DroppedCalls'
  BY <1>0, <1>1, <1>5, <1>6 DEF DroppedCalls
<1>. QED BY <1>3, <1>8, <1>9

LEMMA ResolveSettles ==
  ASSUME SessionInv, DroppedCalls, NEW t \in Turns, Resolve(t), UNCHANGED dropped,
         \A u \in Turns : turn'[u].calls = turn[u].calls
  PROVE  DroppedCalls' /\ \E c \in CallIds : Calls!Settle(c)
<1>0. pendingHostActions \subseteq CallIds /\ dropped \subseteq CallIds
  BY DEF SessionInv, TypeOK
<1>1. PICK c \in CallIds : c = <<t, turn[t].calls>> BY <1>0 DEF Resolve
<1>2. c \in pendingHostActions /\ pendingHostActions' = pendingHostActions \ {c}
  BY <1>1 DEF Resolve
<1>3. c \notin dropped BY <1>2 DEF DroppedCalls
<1>4. \A d \in CallIds : turn'[d[1]].calls = turn[d[1]].calls BY DEF CallIds
<1>5. c[2] <= turn[c[1]].calls
  BY <1>1, TextSessionAssumption DEF SessionInv, TypeOK, Turn
<1>6. Calls!Settle(c)
  BY <1>2, <1>3, <1>4, <1>5 DEF Calls!Settle
<1>7. DroppedCalls' BY <1>0, <1>2, <1>4 DEF DroppedCalls
<1>. QED BY <1>6, <1>7

LEMMA EndDrops ==
  ASSUME SessionInv, DroppedCalls, NEW e \in Ends, EndDeleted(e)
  PROVE  DroppedCalls' /\ (Calls!DropAll \/ UNCHANGED Calls!callVars)
<1>0. pendingHostActions \subseteq CallIds /\ dropped \subseteq CallIds /\ WaitersAnswerable
  BY DEF SessionInv, TypeOK
<1>1. turn' = turn /\ pendingHostActions' = {} /\ dropped' = dropped \cup pendingHostActions
  BY DEF EndDeleted
<1>2. CASE pendingHostActions = {}
  BY <1>1, <1>2 DEF Calls!callVars, DroppedCalls
<1>3. CASE pendingHostActions # {}
  <2>1. Calls!DropAll BY <1>1, <1>3 DEF Calls!DropAll
  <2>2. \A c \in pendingHostActions : turn[c[1]].calls \in Nat /\ c[2] = turn[c[1]].calls
    BY <1>0, TextSessionAssumption DEF WaitersAnswerable, SessionInv, TypeOK, Turn, CallIds
  <2>3. DroppedCalls' BY <1>1, <2>2 DEF DroppedCalls
  <2>. QED BY <2>1, <2>3
<1>. QED BY <1>2, <1>3

\* Whatever interleaves, a call to the widget is made once and has one fate: answered,
\* timed out or dropped with the session (the pendingHostActions map of index.ts).
THEOREM CallsImplement == Spec => CallsKeptOnce
<1>1. Init => Calls!CallsInit /\ DroppedCalls
  BY TextSessionAssumption DEF Init, DroppedCalls, Calls!CallsInit, CallIds
<1>2. ASSUME SessionInv, DroppedCalls, [Next]_vars
      PROVE  DroppedCalls' /\ [Calls!CallsNext]_(Calls!callVars)
  <2>0. turn \in [Turns -> Turn] BY <1>2 DEF SessionInv, TypeOK
  <2>1. ASSUME NEW t \in Turns, TurnArrives(t) PROVE CallsKept
    <3>1. PICK k \in Kinds : turn' = [turn EXCEPT ![t].kind = k, ![t].owns = OwnsQueue]
      BY <2>1 DEF TurnArrives
    <3>2. \A u \in Turns : turn'[u].calls = turn[u].calls
      BY <2>0, <3>1 DEF Turn
    <3>. QED BY <2>1, <3>2 DEF TurnArrives, CallsKept
  <2>2. ASSUME NEW t \in Turns,
               TurnLoaded(t) \/ SaveTurn(t) \/ ExecutorError(t) \/ TurnThrows(t) \/ Classify(t)
                 \/ FlushNotes(t)
        PROVE  CallsKept
    BY <2>2 DEF CallsKept, TurnLoaded, SaveTurn, ExecutorError, TurnThrows, Classify, FlushNotes
  <2>3. ASSUME NEW t \in Turns, MerchantLoaded(t) \/ TapCart(t) \/ FinishTurn(t) PROVE CallsKept
    <3>1. \/ UNCHANGED turn
          \/ turn' = [turn EXCEPT ![t].rec = recorder']
          \/ \E ok : turn' = [turn EXCEPT ![t].acted = ok]
          \/ turn' = [turn EXCEPT ![t].batch = turnNotes.notes]
      BY <2>3 DEF MerchantLoaded, TapCart, FinishTurn
    <3>2. \A u \in Turns : turn'[u].calls = turn[u].calls
      BY <2>0, <3>1, OtherFieldsKeepCalls
    <3>. QED BY <2>3, <3>2 DEF MerchantLoaded, TapCart, FinishTurn, CallsKept
  <2>4. ASSUME NEW t \in Turns, HostActionResult(t) \/ HostActionTimeout(t)
        PROVE  DroppedCalls' /\ \E c \in CallIds : Calls!Settle(c)
    <3>1. UNCHANGED turn \/ \E b : turn' = [turn EXCEPT ![t].acted = b]
      BY <2>4 DEF HostActionResult, HostActionTimeout
    <3>2. \A u \in Turns : turn'[u].calls = turn[u].calls
      BY <2>0, <3>1, OtherFieldsKeepCalls
    <3>3. Resolve(t) /\ UNCHANGED dropped
      BY <2>4 DEF HostActionResult, HostActionTimeout
    <3>. QED BY <1>2, <3>2, <3>3, ResolveSettles
  <2>5. ASSUME \/ \E n \in Notes : NoteArrives(n) \/ NoteLoaded(n)
               \/ \E e \in Ends : EndArrives(e) \/ EndLoaded(e)
               \/ UNCHANGED vars
        PROVE  CallsKept
    BY <2>5 DEF CallsKept, NoteArrives, NoteLoaded, EndArrives, EndLoaded, vars
  <2>6. ASSUME CallsKept PROVE DroppedCalls' /\ [Calls!CallsNext]_(Calls!callVars)
    BY <1>2, <2>6, KeptIsStutter
  <2>. QED BY <1>2, <2>1, <2>2, <2>3, <2>4, <2>5, <2>6, DispatchIssues, EndDrops
           DEF Next, TurnStep, EndStep, Calls!CallsNext
<1>3. Spec => []SessionInv BY SessionAlways
<1>. QED BY <1>1, <1>2, <1>3, PTL DEF Spec, CallsKeptOnce, Calls!CallsSpec

-------------------------------------------------------------------------------
\* Recorder numbers are never reused: what was recorded and what is live were created.
RecordersCreated ==
  /\ recorder <= created
  /\ \A i \in DOMAIN emitted : 0 < emitted[i] /\ emitted[i] <= created

\* A conversation is recorded once, however often session_end arrives and however
\* turns overlap (the recorders map of index.ts).
THEOREM ConversationRecordedOnce == Spec => []RecordedOnce
<1>. DEFINE Inv == RecordersCreated /\ RecordedOnce
<1>1. Init => Inv
  BY DEF Init, RecordersCreated, RecordedOnce, Range
<1>2. ASSUME TypeOK, Inv, [Next]_vars PROVE Inv'
  <2>0. emitted \in Seq(Nat) /\ recorder \in Nat /\ created \in Nat BY <1>2 DEF TypeOK
  <2>1. CASE UNCHANGED <<recorder, created, emitted>>
    BY <1>2, <2>1 DEF RecordersCreated, RecordedOnce, Range
  <2>2. ASSUME NEW t \in Turns, MerchantLoaded(t) PROVE Inv'
    <3>1. CASE recorder # 0 BY <2>1, <2>2, <3>1 DEF MerchantLoaded
    <3>2. CASE recorder = 0
      <4>1. recorder' = created + 1 /\ created' = created + 1 /\ emitted' = emitted
        BY <2>2, <3>2 DEF MerchantLoaded
      <4>. QED BY <1>2, <2>0, <4>1 DEF RecordersCreated, RecordedOnce, Range
    <3>. QED BY <3>1, <3>2
  <2>3. ASSUME NEW e \in Ends, EndDeleted(e) PROVE Inv'
    <3>0. recorder' = 0 /\ created' = created BY <2>3 DEF EndDeleted
    <3>1. CASE recorder = 0
      <4>1. emitted' = emitted BY <2>3, <3>1 DEF EndDeleted
      <4>. QED BY <1>2, <2>0, <3>0, <4>1 DEF RecordersCreated, RecordedOnce, Range
    <3>2. CASE recorder # 0
      <4>1. emitted' = Append(emitted, recorder) BY <2>3, <3>2 DEF EndDeleted
      <4>2. /\ DOMAIN emitted' = 1..(Len(emitted) + 1) /\ DOMAIN emitted = 1..Len(emitted)
            /\ \A i \in DOMAIN emitted : emitted'[i] = emitted[i]
            /\ emitted'[Len(emitted) + 1] = recorder
            /\ Len(emitted) \in Nat
        BY <2>0, <4>1
      <4>3. \A i \in DOMAIN emitted : emitted[i] # recorder
        BY <1>2 DEF RecordedOnce, Range
      <4>4. \A i \in DOMAIN emitted' : 0 < emitted'[i] /\ emitted'[i] <= created
        BY <1>2, <2>0, <3>2, <4>2 DEF RecordersCreated
      <4>5. \A i, j \in DOMAIN emitted' : emitted'[i] = emitted'[j] => i = j
        BY <1>2, <4>2, <4>3 DEF RecordedOnce
      <4>. QED BY <2>0, <3>0, <4>4, <4>5 DEF RecordersCreated, RecordedOnce, Range
    <3>. QED BY <3>1, <3>2
  <2>4. ASSUME \/ \E t \in Turns :
                    \/ TurnArrives(t) \/ HostActionResult(t) \/ TurnLoaded(t) \/ TapCart(t)
                    \/ DispatchHostAction(t) \/ HostActionTimeout(t) \/ SaveTurn(t)
                    \/ ExecutorError(t) \/ TurnThrows(t) \/ Classify(t) \/ FinishTurn(t)
                    \/ FlushNotes(t)
               \/ \E n \in Notes : NoteArrives(n) \/ NoteLoaded(n)
               \/ \E e \in Ends : EndArrives(e) \/ EndLoaded(e)
               \/ UNCHANGED vars
        PROVE  Inv'
    <3>1. UNCHANGED <<recorder, created, emitted>>
      BY <2>4 DEF TurnArrives, HostActionResult, TurnLoaded, TapCart, DispatchHostAction,
         HostActionTimeout, SaveTurn, ExecutorError, TurnThrows, Classify, FinishTurn,
         FlushNotes, NoteArrives, NoteLoaded, EndArrives, EndLoaded, vars
    <3>. QED BY <2>1, <3>1
  <2>. QED BY <1>2, <2>2, <2>3, <2>4 DEF Next, TurnStep, EndStep
<1>3. Inv => RecordedOnce OBVIOUS
<1>. HIDE DEF Inv
<1>. QED BY <1>1, <1>2, <1>3, TypeCorrect, PTL DEF Spec

-------------------------------------------------------------------------------
(* The history of a session and its copies *)

NoRepeats(q) == \A i, j \in DOMAIN q : q[i] = q[j] => i = j

\* What a copy of the session must satisfy, given the turns that have saved (or failed to)
\* and the notes that nobody is going to write any more.
CopySound(s, saved, gone) ==
  /\ NoRepeats(s.hist)
  /\ Range(s.hist) \subseteq saved \cup gone
  /\ s.turnCount = Cardinality(Range(s.hist) \cap Turns)

Alike(s, r) == s.hist = r.hist /\ s.turnCount = r.turnCount

LEMMA RangeOfAppend ==
  ASSUME NEW S, NEW q \in Seq(S), NEW x \in S
  PROVE  Range(Append(q, x)) = Range(q) \cup {x}
<1>1. /\ DOMAIN q = 1..Len(q) /\ DOMAIN Append(q, x) = 1..(Len(q) + 1) /\ Len(q) \in Nat
      /\ \A i \in 1..Len(q) : Append(q, x)[i] = q[i]
      /\ Append(q, x)[Len(q) + 1] = x
  OBVIOUS
<1>. QED BY <1>1 DEF Range

LEMMA RangeOfConcat ==
  ASSUME NEW S, NEW q \in Seq(S), NEW r \in Seq(S)
  PROVE  Range(q \o r) = Range(q) \cup Range(r)
<1>1. /\ DOMAIN q = 1..Len(q) /\ DOMAIN r = 1..Len(r) /\ DOMAIN (q \o r) = 1..(Len(q) + Len(r))
      /\ Len(q) \in Nat /\ Len(r) \in Nat
      /\ \A i \in 1..Len(q) : (q \o r)[i] = q[i]
      /\ \A i \in 1..Len(r) : (q \o r)[Len(q) + i] = r[i]
  OBVIOUS
<1>2. Range(q \o r) \subseteq Range(q) \cup Range(r)
  <2>. SUFFICES ASSUME NEW k \in 1..(Len(q) + Len(r)) PROVE (q \o r)[k] \in Range(q) \cup Range(r)
    BY <1>1 DEF Range
  <2>1. CASE k \in 1..Len(q) BY <1>1, <2>1 DEF Range
  <2>2. CASE k \notin 1..Len(q)
    <3>1. k - Len(q) \in 1..Len(r) /\ Len(q) + (k - Len(q)) = k BY <1>1, <2>2
    <3>. QED BY <1>1, <3>1 DEF Range
  <2>. QED BY <2>1, <2>2
<1>3. Range(q) \subseteq Range(q \o r) BY <1>1 DEF Range
<1>4. Range(r) \subseteq Range(q \o r)
  <2>. SUFFICES ASSUME NEW k \in 1..Len(r) PROVE r[k] \in Range(q \o r)
    BY <1>1 DEF Range
  <2>1. Len(q) + k \in 1..(Len(q) + Len(r)) BY <1>1
  <2>. QED BY <1>1, <2>1 DEF Range
<1>. QED BY <1>2, <1>3, <1>4

\* A list without repeats keeps none when what it does not hold is put behind it.
LEMMA AppendNoRepeats ==
  ASSUME NEW S, NEW q \in Seq(S), NEW x \in S, NoRepeats(q), x \notin Range(q)
  PROVE  NoRepeats(Append(q, x))
<1>1. /\ DOMAIN q = 1..Len(q) /\ DOMAIN Append(q, x) = 1..(Len(q) + 1) /\ Len(q) \in Nat
      /\ \A i \in 1..Len(q) : Append(q, x)[i] = q[i]
      /\ Append(q, x)[Len(q) + 1] = x
  OBVIOUS
<1>2. \A i \in 1..Len(q) : q[i] # x BY <1>1 DEF Range
<1>. QED BY <1>1, <1>2 DEF NoRepeats

LEMMA ConcatNoRepeats ==
  ASSUME NEW S, NEW q \in Seq(S), NEW r \in Seq(S), NoRepeats(q), NoRepeats(r),
         Range(q) \cap Range(r) = {}
  PROVE  NoRepeats(q \o r)
<1>. DEFINE c == q \o r
<1>1. /\ DOMAIN q = 1..Len(q) /\ DOMAIN r = 1..Len(r) /\ DOMAIN c = 1..(Len(q) + Len(r))
      /\ Len(q) \in Nat /\ Len(r) \in Nat
      /\ \A i \in 1..Len(q) : c[i] = q[i]
      /\ \A i \in (Len(q) + 1)..(Len(q) + Len(r)) : c[i] = r[i - Len(q)]
  OBVIOUS
<1>2. \A i \in 1..Len(q), j \in 1..Len(r) : q[i] # r[j] BY <1>1 DEF Range
<1>. HIDE DEF c
<1>. SUFFICES ASSUME NEW i \in 1..(Len(q) + Len(r)), NEW j \in 1..(Len(q) + Len(r)), c[i] = c[j]
              PROVE  i = j
  BY <1>1 DEF NoRepeats, c
<1>3. CASE i <= Len(q) /\ j <= Len(q) BY <1>1, <1>3 DEF NoRepeats
<1>4. CASE i <= Len(q) /\ j > Len(q)
  <2>1. j - Len(q) \in 1..Len(r) BY <1>1, <1>4
  <2>. QED BY <1>1, <1>2, <1>4, <2>1
<1>5. CASE i > Len(q) /\ j <= Len(q)
  <2>1. i - Len(q) \in 1..Len(r) BY <1>1, <1>5
  <2>. QED BY <1>1, <1>2, <1>5, <2>1
<1>6. CASE i > Len(q) /\ j > Len(q)
  <2>1. i - Len(q) \in 1..Len(r) /\ j - Len(q) \in 1..Len(r) BY <1>1, <1>6
  <2>2. r[i - Len(q)] = r[j - Len(q)] BY <1>1, <1>6
  <2>3. i - Len(q) = j - Len(q) BY <1>1, <2>1, <2>2 DEF NoRepeats
  <2>. QED BY <1>1, <2>3
<1>. QED BY <1>1, <1>3, <1>4, <1>5, <1>6

LEMMA CopyGrows ==
  ASSUME NEW s, NEW r, Alike(s, r), NEW A, NEW B, NEW A2, NEW B2,
         CopySound(r, A, B), A \subseteq A2, B \subseteq B2
  PROVE  CopySound(s, A2, B2)
BY DEF CopySound, Alike

LEMMA EmptyCopy ==
  ASSUME NEW A, NEW B
  PROVE  CopySound(NoSession, A, B)
<1>1. Range(NoSession.hist) = {} BY DEF Range, NoSession
<1>. QED BY <1>1, FS_EmptySet DEF CopySound, NoSession, NoRepeats

\* One exchange more is one turn more in the count.
LEMMA CopyWithExchange ==
  ASSUME NEW s \in Session, NEW A, NEW B, CopySound(s, A, B), NEW t \in Turns,
         t \notin A \cup B
  PROVE  CopySound(WithExchange(s, t), A \cup {t}, B)
<1>. DEFINE e == WithExchange(s, t)
<1>1. s.hist \in Seq(Turns \cup Notes) /\ s.turnCount \in Nat BY DEF Session
<1>2. e.hist = Append(s.hist, t) /\ e.turnCount = s.turnCount + 1
  BY DEF WithExchange, Session
<1>. HIDE DEF e
<1>3. t \notin Range(s.hist) BY DEF CopySound
<1>4. Range(e.hist) = Range(s.hist) \cup {t} BY <1>1, <1>2, RangeOfAppend
<1>5. NoRepeats(e.hist) BY <1>1, <1>2, <1>3, AppendNoRepeats DEF CopySound
<1>6. e.turnCount = Cardinality(Range(e.hist) \cap Turns)
  <2>1. IsFiniteSet(Range(s.hist) \cap Turns)
    BY TextSessionAssumption, FS_Subset
  <2>2. Range(e.hist) \cap Turns = (Range(s.hist) \cap Turns) \cup {t} BY <1>4
  <2>3. Cardinality((Range(s.hist) \cap Turns) \cup {t}) = Cardinality(Range(s.hist) \cap Turns) + 1
    BY <1>3, <2>1, FS_AddElement
  <2>. QED BY <1>2, <2>2, <2>3 DEF CopySound
<1>7. Range(e.hist) \subseteq (A \cup {t}) \cup B BY <1>4 DEF CopySound
<1>. QED BY <1>5, <1>6, <1>7 DEF CopySound, e

\* Notes behind the history are no exchanges.
LEMMA CopyWithNotes ==
  ASSUME NEW s \in Session, NEW A, NEW B, CopySound(s, A, B), NEW q \in Seq(Notes),
         NoRepeats(q), Range(q) \cap (A \cup B) = {}, NEW r, r.hist = s.hist \o q,
         r.turnCount = s.turnCount
  PROVE  CopySound(r, A, B \cup Range(q))
<1>1. s.hist \in Seq(Turns \cup Notes) /\ q \in Seq(Turns \cup Notes) BY DEF Session
<1>2. Range(r.hist) = Range(s.hist) \cup Range(q) BY <1>1, RangeOfConcat
<1>3. NoRepeats(r.hist)
  <2>1. Range(s.hist) \cap Range(q) = {} BY DEF CopySound
  <2>. QED BY <1>1, <2>1, ConcatNoRepeats DEF CopySound
<1>4. Range(q) \cap Turns = {}
  <2>1. Range(q) \subseteq Notes BY DEF Range
  <2>. QED BY <2>1, TextSessionAssumption
<1>5. Range(r.hist) \cap Turns = Range(s.hist) \cap Turns BY <1>2, <1>4
<1>. QED BY <1>2, <1>3, <1>5 DEF CopySound

-------------------------------------------------------------------------------
Past  == {"classifying", "ending", "flushing", "done"}
Saved == {t \in Turns : pc[t] \in Past}

\* The notes a turn still holds: it took them out of the queue and has not written them.
Batch(t) == IF pc[t] = "flushing" THEN Range(turn[t].batch) ELSE {}
Held == Range(turnNotes.notes) \cup UNION {Batch(t) : t \in Turns}
Gone == {n \in Notes : pc[n] = "done" /\ n \notin Held}

\* A note is queued once or held by one turn, and its own handler is through.
NotesApart ==
  /\ NoRepeats(turnNotes.notes)
  /\ \A t \in Turns : pc[t] = "flushing" => NoRepeats(turn[t].batch)
  /\ \A t \in Turns : Batch(t) \cap Range(turnNotes.notes) = {}
  /\ \A t, u \in Turns : t # u => Batch(t) \cap Batch(u) = {}
  /\ \A n \in Held : pc[n] = "done"

\* The saved session and every loaded copy of it: nothing twice, nothing early, the count right.
CopiesSound ==
  /\ CopySound(store, Saved, Gone)
  /\ \A f \in Frames : CopySound(snap[f], Saved, Gone)

\* Whatever a step does, one handler goes on, and none goes back.
LEMMA OneMoves ==
  ASSUME SessionInv, Next
  PROVE  \E f \in Frames, label \in Labels \ {"new"} :
           Goto(f, label) /\ pc[f] # "done" /\ (pc[f] \in Past => label \in Past)
<1>0. Turns \subseteq Frames /\ Notes \subseteq Frames /\ Ends \subseteq Frames BY DEF Frames
<1>1. ASSUME NEW t \in Turns, TurnMoves(t) PROVE \E label \in Labels \ {"new"} :
           Goto(t, label) /\ pc[t] # "done" /\ (pc[t] \in Past => label \in Past)
  <2>1. PICK label \in Active : Goto(t, label) BY <1>1, MovesWithin
  <2>2. pc[t] \in Active BY <1>1, MovesWithin
  <2>3. CASE pc[t] \in {"classifying", "ending"}
    <3>1. pc[t] # "waiting" /\ ~Resolve(t)
      BY <2>3 DEF SessionInv, WaitersAnswerable, Resolve
    <3>2. Classify(t)
      BY <1>1, <2>3, <3>1 DEF TurnMoves, TurnLoaded, MerchantLoaded, TapCart, DispatchHostAction,
         HostActionResult, HostActionTimeout, SaveTurn, ExecutorError, TurnThrows
    <3>. QED BY <2>3, <3>2 DEF Classify, Labels, Past
  <2>4. CASE pc[t] \notin {"classifying", "ending"}
    BY <2>1, <2>2, <2>4 DEF Active, Past, Labels
  <2>. QED BY <2>3, <2>4
<1>2. ASSUME NEW t \in Turns, TurnArrives(t) PROVE Goto(t, "loading") /\ pc[t] = "new"
  BY <1>2 DEF TurnArrives
<1>3. ASSUME NEW t \in Turns, FinishTurn(t)
      PROVE  pc[t] = "ending" /\ \E label \in {"flushing", "done"} : Goto(t, label)
  BY <1>3 DEF FinishTurn
<1>4. ASSUME NEW t \in Turns, FlushNotes(t) PROVE Goto(t, "done") /\ pc[t] = "flushing"
  BY <1>4 DEF FlushNotes
<1>5. ASSUME NEW n \in Notes, NoteArrives(n)
      PROVE  pc[n] = "new" /\ \E label \in {"loading", "done"} : Goto(n, label)
  BY <1>5 DEF NoteArrives
<1>6. ASSUME NEW n \in Notes, NoteLoaded(n) PROVE pc[n] = "loading" /\ Goto(n, "done")
  BY <1>6 DEF NoteLoaded
<1>7. ASSUME NEW e \in Ends, EndArrives(e) PROVE pc[e] = "new" /\ Goto(e, "loading")
  BY <1>7 DEF EndArrives
<1>8. ASSUME NEW e \in Ends, EndLoaded(e) PROVE pc[e] = "loading" /\ Goto(e, "deleting")
  BY <1>8 DEF EndLoaded
<1>9. ASSUME NEW e \in Ends, EndDeleted(e) PROVE pc[e] = "deleting" /\ Goto(e, "done")
  BY <1>9 DEF EndDeleted
<1>. QED BY <1>0, <1>1, <1>2, <1>3, <1>4, <1>5, <1>6, <1>7, <1>8, <1>9
         DEF Next, TurnStep, EndStep, TurnMoves, Past, Labels

\* What a handler holds of the session is what it held, or the session as it is.
LEMMA CopyStep ==
  ASSUME SessionInv, Next, NEW f \in Frames
  PROVE  \/ snap'[f] \in Session /\ Alike(snap'[f], snap[f])
         \/ snap'[f] = store
<1>0. snap \in [Frames -> Session] /\ store \in Session BY DEF SessionInv, TypeOK
<1>1. CASE snap' = snap BY <1>0, <1>1 DEF Alike
<1>2. CASE \E g \in Frames : SendGet(g) BY <1>0, <1>2 DEF SendGet, Alike
<1>3. CASE \E t \in Turns : TurnLoaded(t)
  <2>1. PICK t \in Turns : snap' = [snap EXCEPT ![t].live = TRUE] BY <1>3 DEF TurnLoaded
  <2>. QED BY <1>0, <2>1 DEF Session, Alike
<1>4. CASE \E t \in Turns : MerchantLoaded(t)
  <2>1. PICK t \in Turns : snap' = [snap EXCEPT ![t].steer = IF liveKey # NoSteer THEN liveKey ELSE @]
    BY <1>4 DEF MerchantLoaded
  <2>2. liveKey \in Steers \cup {NoSteer} BY DEF SessionInv, TypeOK
  <2>. QED BY <1>0, <2>1, <2>2 DEF Session, Alike
<1>5. \/ \E t \in Turns : TurnLoaded(t) \/ MerchantLoaded(t)
      \/ \E g \in Frames : SendGet(g)
      \/ snap' = snap
  BY DEF Next, TurnStep, EndStep, TurnArrives, HostActionResult, TapCart, DispatchHostAction,
     HostActionTimeout, SaveTurn, ExecutorError, TurnThrows, Classify, FinishTurn, FlushNotes,
     NoteArrives, NoteLoaded, EndArrives, EndLoaded, EndDeleted, Frames
<1>. QED BY <1>1, <1>2, <1>3, <1>4, <1>5

\* Who writes the session.
LEMMA StoreStep ==
  ASSUME Next
  PROVE  \/ store' = store
         \/ \E e \in Ends : EndLoaded(e)
         \/ \E t \in Turns : SaveTurn(t)
         \/ \E t \in Turns : FlushNotes(t) /\ snap[t].live
         \/ \E n \in Notes : NoteLoaded(n) /\ snap[n].live
BY DEF Next, TurnStep, EndStep, TurnArrives, HostActionResult, TurnLoaded, MerchantLoaded,
   TapCart, DispatchHostAction, HostActionTimeout, ExecutorError, TurnThrows, Classify,
   FinishTurn, FlushNotes, NoteArrives, NoteLoaded, EndArrives, EndDeleted

LEMMA SavedGrows ==
  ASSUME SessionInv, Next
  PROVE  Saved \subseteq Saved'
<1>1. pc \in [Frames -> Labels] /\ Turns \subseteq Frames BY DEF SessionInv, TypeOK, Frames
<1>. QED BY <1>1, OneMoves DEF Saved, Goto

\* A step that leaves the queue and the batches as they are.
NotesStay ==
  /\ turnNotes'.notes = turnNotes.notes
  /\ \A t \in Turns : pc'[t] = "flushing" <=> pc[t] = "flushing"
  /\ \A t \in Turns : turn'[t].batch = turn[t].batch

LEMMA StayingApart ==
  ASSUME SessionInv, NotesApart, Next, NotesStay
  PROVE  NotesApart' /\ Gone \subseteq Gone'
<1>1. \A t \in Turns : Batch(t)' = Batch(t) BY DEF NotesStay, Batch
<1>2. Held' = Held BY <1>1 DEF NotesStay, Held
<1>3. \A f \in Frames : pc[f] = "done" => pc'[f] = "done"
  BY OneMoves DEF SessionInv, TypeOK, Goto
<1>4. Held \subseteq Notes
  <2>1. Range(turnNotes.notes) \subseteq Notes BY DEF SessionInv, TypeOK, Range
  <2>2. \A t \in Turns : Batch(t) \subseteq Notes BY DEF SessionInv, TypeOK, Turn, Batch, Range
  <2>. QED BY <2>1, <2>2 DEF Held
<1>5. NotesApart' BY <1>1, <1>2, <1>3, <1>4 DEF NotesApart, NotesStay, Frames
<1>. QED BY <1>2, <1>3, <1>5 DEF Gone, Frames

\* Most steps are such.
LEMMA MostStay ==
  ASSUME SessionInv, NEW f \in Frames,
         \/ f \in Turns /\ (TurnArrives(f) \/ TurnMoves(f))
         \/ f \in Notes /\ NoteLoaded(f)
         \/ f \in Notes /\ NoteArrives(f) /\ ~turnNotes.live
         \/ f \in Ends /\ (EndArrives(f) \/ EndStep(f))
  PROVE  NotesStay
<1>0. turn \in [Turns -> Turn] /\ pc \in [Frames -> Labels] /\ Turns \subseteq Frames
  BY DEF SessionInv, TypeOK, Frames
<1>1. CASE f \in Turns /\ TurnArrives(f)
  <2>1. PICK k \in Kinds : turn' = [turn EXCEPT ![f].kind = k, ![f].owns = OwnsQueue]
    BY <1>1 DEF TurnArrives
  <2>2. \A t \in Turns : turn'[t].batch = turn[t].batch BY <1>0, <2>1 DEF Turn
  <2>3. turnNotes'.notes = turnNotes.notes BY <1>1 DEF TurnArrives, SessionInv, TypeOK
  <2>4. pc[f] = "new" /\ pc' = [pc EXCEPT ![f] = "loading"] BY <1>1 DEF TurnArrives, Goto
  <2>. QED BY <1>0, <2>2, <2>3, <2>4 DEF NotesStay
<1>2. CASE f \in Turns /\ TurnMoves(f)
  <2>1. turnNotes' = turnNotes BY <1>2, MovesWithin
  <2>2. \A t \in Turns : pc'[t] = "flushing" <=> pc[t] = "flushing"
    BY <1>0, <1>2, MovesWithin DEF Goto, Active
  <2>3. \/ turn' = turn
        \/ \E b : turn' = [turn EXCEPT ![f].rec = b]
        \/ \E b : turn' = [turn EXCEPT ![f].acted = b]
        \/ \E b : turn' = [turn EXCEPT ![f].calls = b]
    BY <1>2 DEF TurnMoves, TurnLoaded, MerchantLoaded, TapCart, DispatchHostAction,
       HostActionResult, HostActionTimeout, SaveTurn, ExecutorError, TurnThrows, Classify
  <2>4. \A t \in Turns : turn'[t].batch = turn[t].batch
    <3>1. CASE turn' = turn BY <3>1
    <3>2. ASSUME NEW b, turn' = [turn EXCEPT ![f].rec = b] PROVE turn'[f].batch = turn[f].batch
      BY <1>0, <1>2, <3>2 DEF Turn
    <3>3. ASSUME NEW b, turn' = [turn EXCEPT ![f].acted = b] PROVE turn'[f].batch = turn[f].batch
      BY <1>0, <1>2, <3>3 DEF Turn
    <3>4. ASSUME NEW b, turn' = [turn EXCEPT ![f].calls = b] PROVE turn'[f].batch = turn[f].batch
      BY <1>0, <1>2, <3>4 DEF Turn
    <3>5. \A t \in Turns \ {f} : turn'[t] = turn[t] BY <1>0, <2>3
    <3>. QED BY <2>3, <3>1, <3>2, <3>3, <3>4, <3>5
  <2>. QED BY <2>1, <2>2, <2>4 DEF NotesStay
<1>3. CASE f \in Notes /\ (NoteLoaded(f) \/ (NoteArrives(f) /\ ~turnNotes.live))
  <2>1. f \notin Turns BY <1>3, TextSessionAssumption
  <2>2. UNCHANGED <<turn, turnNotes>> /\ \E label : Goto(f, label)
    BY <1>3 DEF NoteLoaded, NoteArrives
  <2>. QED BY <1>0, <2>1, <2>2 DEF NotesStay, Goto
<1>4. CASE f \in Ends /\ (EndArrives(f) \/ EndStep(f))
  <2>1. f \notin Turns BY <1>4, TextSessionAssumption
  <2>2. UNCHANGED <<turn, turnNotes>> /\ \E label : Goto(f, label)
    BY <1>4 DEF EndArrives, EndStep, EndLoaded, EndDeleted
  <2>. QED BY <1>0, <2>1, <2>2 DEF NotesStay, Goto
<1>. QED BY <1>1, <1>2, <1>3, <1>4

LEMMA HeldAreNotes ==
  ASSUME SessionInv
  PROVE  Held \subseteq Notes /\ \A t \in Turns : Batch(t) \subseteq Notes
<1>1. Range(turnNotes.notes) \subseteq Notes BY DEF SessionInv, TypeOK, Range
<1>2. \A t \in Turns : Batch(t) \subseteq Notes BY DEF SessionInv, TypeOK, Turn, Batch, Range
<1>. QED BY <1>1, <1>2 DEF Held

\* A note joins the queue behind a turn.
LEMMA QueueingApart ==
  ASSUME SessionInv, NotesApart, NEW n \in Notes, NoteArrives(n), turnNotes.live
  PROVE  NotesApart' /\ Gone \subseteq Gone'
<1>0. /\ turn' = turn /\ pc' = [pc EXCEPT ![n] = "done"] /\ pc[n] = "new"
      /\ turnNotes' = [turnNotes EXCEPT !.notes = Append(turnNotes.notes, n)]
      /\ pc \in [Frames -> Labels] /\ Turns \subseteq Frames /\ n \in Frames /\ n \notin Turns
      /\ turnNotes.notes \in Seq(Notes)
      /\ turnNotes \in [live : BOOLEAN, notes : Seq(Notes)]
  BY TextSessionAssumption DEF NoteArrives, Goto, SessionInv, TypeOK, Frames
<1>1. \A t \in Turns : Batch(t)' = Batch(t) BY <1>0 DEF Batch
<1>2. turnNotes'.notes = Append(turnNotes.notes, n) BY <1>0
<1>3. Range(turnNotes'.notes) = Range(turnNotes.notes) \cup {n}
  BY <1>0, <1>2, RangeOfAppend
<1>4. n \notin Held BY <1>0 DEF NotesApart
<1>5. Held' = Held \cup {n} BY <1>1, <1>3 DEF Held
<1>6. NoRepeats(turnNotes'.notes)
  BY <1>0, <1>2, <1>4, AppendNoRepeats DEF NotesApart, Held
<1>7. NotesApart'
  <2>1. \A t \in Turns : Batch(t)' \cap Range(turnNotes'.notes) = {}
    BY <1>1, <1>3, <1>4 DEF NotesApart, Held
  <2>2. \A m \in Held' : pc'[m] = "done" BY <1>0, <1>5, HeldAreNotes DEF NotesApart, Frames
  <2>3. \A t \in Turns : pc'[t] = "flushing" => NoRepeats(turn'[t].batch)
    BY <1>0 DEF NotesApart
  <2>. QED BY <1>1, <1>6, <2>1, <2>2, <2>3 DEF NotesApart
<1>8. Gone \subseteq Gone' BY <1>0, <1>5 DEF Gone, Frames
<1>. QED BY <1>7, <1>8

\* The owner's finally block takes the queue as its batch, or finds it empty.
LEMMA FinishingApart ==
  ASSUME SessionInv, NotesApart, NEW t \in Turns, FinishTurn(t)
  PROVE  NotesApart' /\ Gone \subseteq Gone'
<1>0. /\ pc \in [Frames -> Labels] /\ Turns \subseteq Frames /\ Notes \subseteq Frames
      /\ turn \in [Turns -> Turn] /\ pc[t] = "ending" /\ t \notin Notes
  BY TextSessionAssumption DEF FinishTurn, SessionInv, TypeOK, Frames
<1>1. Batch(t) = {} BY <1>0 DEF Batch
<1>2. \A u \in Turns \ {t} : turn'[u] = turn[u] /\ pc'[u] = pc[u]
  BY <1>0 DEF FinishTurn, Goto
<1>3. \A u \in Turns \ {t} : Batch(u)' = Batch(u) BY <1>2 DEF Batch
<1>4. \A n \in Notes : pc'[n] = pc[n] BY <1>0 DEF FinishTurn, Goto
<1>5. CASE turn[t].owns /\ turnNotes.notes # <<>>
  <2>1. turn'[t].batch = turnNotes.notes
    <3>1. turn' = [turn EXCEPT ![t].batch = turnNotes.notes] BY <1>5 DEF FinishTurn
    <3>. QED BY <1>0, <3>1 DEF Turn
  <2>2. pc'[t] = "flushing" /\ turnNotes' = NoQueue BY <1>0, <1>5 DEF FinishTurn, Goto
  <2>3. Batch(t)' = Range(turnNotes.notes) /\ Range(turnNotes'.notes) = {}
    BY <2>1, <2>2 DEF Batch, NoQueue, Range
  <2>4. Held' = Held BY <1>1, <1>3, <2>3 DEF Held
  <2>5. NoRepeats(turnNotes'.notes) BY <2>2 DEF NoQueue, NoRepeats
  <2>6. \A u \in Turns : pc'[u] = "flushing" => NoRepeats(turn'[u].batch)
    BY <1>2, <2>1 DEF NotesApart
  <2>7. \A u, w \in Turns : u # w => Batch(u)' \cap Batch(w)' = {}
    BY <1>3, <2>3 DEF NotesApart
  <2>8. \A n \in Held' : pc'[n] = "done" BY <1>4, <2>4, HeldAreNotes DEF NotesApart
  <2>9. Gone \subseteq Gone' BY <1>4, <2>4 DEF Gone
  <2>. QED BY <2>3, <2>5, <2>6, <2>7, <2>8, <2>9 DEF NotesApart
<1>6. CASE ~(turn[t].owns /\ turnNotes.notes # <<>>)
  <2>1. turnNotes'.notes = turnNotes.notes /\ pc'[t] = "done"
    BY <1>0, <1>6 DEF FinishTurn, Goto, NoQueue
  <2>2. Batch(t)' = {} BY <2>1 DEF Batch
  <2>3. \A u \in Turns : Batch(u)' = Batch(u) BY <1>1, <1>3, <2>2
  <2>4. Held' = Held BY <2>1, <2>3 DEF Held
  <2>5. \A u \in Turns : pc'[u] = "flushing" => NoRepeats(turn'[u].batch)
    BY <1>2, <2>1 DEF NotesApart
  <2>6. \A n \in Held' : pc'[n] = "done" BY <1>4, <2>4, HeldAreNotes DEF NotesApart
  <2>7. Gone \subseteq Gone' BY <1>4, <2>4 DEF Gone
  <2>. QED BY <2>1, <2>3, <2>5, <2>6, <2>7 DEF NotesApart
<1>. QED BY <1>5, <1>6

\* A flush puts its batch down for good.
LEMMA FlushingApart ==
  ASSUME SessionInv, NotesApart, NEW t \in Turns, FlushNotes(t)
  PROVE  NotesApart' /\ Gone \cup Range(turn[t].batch) \subseteq Gone'
<1>0. /\ pc \in [Frames -> Labels] /\ Turns \subseteq Frames /\ Notes \subseteq Frames
      /\ turn' = turn /\ turnNotes' = turnNotes /\ pc[t] = "flushing" /\ t \notin Notes
      /\ pc' = [pc EXCEPT ![t] = "done"]
  BY TextSessionAssumption DEF FlushNotes, SessionInv, TypeOK, Frames, Goto
<1>1. Batch(t) = Range(turn[t].batch) /\ Batch(t)' = {} BY <1>0 DEF Batch
<1>2. \A u \in Turns \ {t} : Batch(u)' = Batch(u) BY <1>0 DEF Batch
<1>3. Held' = Held \ Batch(t)
  <2>1. Batch(t) \cap Range(turnNotes.notes) = {} /\ \A u \in Turns \ {t} : Batch(t) \cap Batch(u) = {}
    BY DEF NotesApart
  <2>. QED BY <1>0, <1>1, <1>2, <2>1 DEF Held
<1>4. \A n \in Notes : pc'[n] = pc[n] BY <1>0
<1>5. NotesApart'
  <2>1. \A n \in Held' : pc'[n] = "done" BY <1>3, <1>4, HeldAreNotes DEF NotesApart
  <2>2. \A u \in Turns : pc'[u] = "flushing" => NoRepeats(turn'[u].batch)
    BY <1>0 DEF NotesApart
  <2>3. \A u, w \in Turns : u # w => Batch(u)' \cap Batch(w)' = {}
    BY <1>1, <1>2 DEF NotesApart
  <2>4. \A u \in Turns : Batch(u)' \cap Range(turnNotes'.notes) = {}
    BY <1>0, <1>1, <1>2 DEF NotesApart
  <2>. QED BY <1>0, <2>1, <2>2, <2>3, <2>4 DEF NotesApart
<1>6. Batch(t) \subseteq Held BY DEF Held
<1>7. \A n \in Batch(t) : n \in Notes /\ pc[n] = "done"
  BY <1>6, HeldAreNotes DEF NotesApart
<1>8. Gone \cup Batch(t) \subseteq Gone' BY <1>3, <1>4, <1>7 DEF Gone
<1>. QED BY <1>1, <1>5, <1>8

LEMMA ApartStep ==
  ASSUME SessionInv, NotesApart, Next
  PROVE  NotesApart' /\ Gone \subseteq Gone'
<1>1. CASE NotesStay BY <1>1, StayingApart
<1>2. CASE \E t \in Turns : TurnArrives(t) \/ TurnMoves(t) BY <1>1, <1>2, MostStay DEF Frames
<1>3. CASE \E t \in Turns : FinishTurn(t) BY <1>3, FinishingApart
<1>4. CASE \E t \in Turns : FlushNotes(t) BY <1>4, FlushingApart
<1>5. CASE \E n \in Notes : NoteLoaded(n) BY <1>1, <1>5, MostStay DEF Frames
<1>6. CASE \E n \in Notes : NoteArrives(n) BY <1>1, <1>6, MostStay, QueueingApart DEF Frames
<1>7. CASE \E e \in Ends : EndArrives(e) \/ EndStep(e) BY <1>1, <1>7, MostStay DEF Frames
<1>. QED BY <1>2, <1>3, <1>4, <1>5, <1>6, <1>7 DEF Next, TurnStep, TurnMoves

LEMMA CopiesStep ==
  ASSUME SessionInv, NotesApart, CopiesSound, Next
  PROVE  CopiesSound'
<1>0. /\ Saved \subseteq Saved' /\ Gone \subseteq Gone'
      /\ snap \in [Frames -> Session] /\ store \in Session /\ pc \in [Frames -> Labels]
      /\ turn \in [Turns -> Turn]
      /\ Turns \subseteq Frames /\ Notes \subseteq Frames /\ Turns \cap Notes = {}
  BY SavedGrows, ApartStep, TextSessionAssumption DEF SessionInv, TypeOK, Frames
<1>1. CopySound(store, Saved', Gone')
  BY <1>0, CopyGrows DEF CopiesSound, Alike
<1>2. ASSUME NEW f \in Frames PROVE CopySound(snap'[f], Saved', Gone')
  <2>1. CASE Alike(snap'[f], snap[f])
    <3>1. CopySound(snap[f], Saved, Gone) BY DEF CopiesSound
    <3>. QED BY <1>0, <2>1, <3>1, CopyGrows
  <2>2. CASE snap'[f] = store BY <1>1, <2>2
  <2>. QED BY <2>1, <2>2, CopyStep
<1>3. CopySound(store', Saved', Gone')
  <2>1. CASE store' = store BY <1>1, <2>1
  <2>2. CASE \E e \in Ends : EndLoaded(e)
    <3>1. store' = NoSession BY <2>2 DEF EndLoaded
    <3>. QED BY <3>1, EmptyCopy
  <2>3. CASE \E t \in Turns : SaveTurn(t)
    <3>1. PICK t \in Turns : SaveTurn(t) BY <2>3
    <3>2. store' = WithExchange(snap[t], t) /\ pc[t] = "thinking" /\ pc'[t] \in {"classifying", "ending"}
      BY <1>0, <3>1 DEF SaveTurn, Goto, AfterRun
    <3>3. t \notin Saved \cup Gone /\ t \in Saved' BY <1>0, <3>2 DEF Saved, Gone, Past
    <3>4. CopySound(WithExchange(snap[t], t), Saved \cup {t}, Gone)
      BY <1>0, <3>3, CopyWithExchange DEF CopiesSound
    <3>5. CopySound(store', Saved \cup {t}, Gone) /\ Alike(store', store') BY <3>2, <3>4 DEF Alike
    <3>6. Saved \cup {t} \subseteq Saved' BY <1>0, <3>3
    <3>. QED BY <1>0, <3>5, <3>6, CopyGrows
  <2>4. CASE \E t \in Turns : FlushNotes(t) /\ snap[t].live
    <3>1. PICK t \in Turns : FlushNotes(t) /\ snap[t].live BY <2>4
    <3>2. store' = [snap[t] EXCEPT !.hist = snap[t].hist \o turn[t].batch] /\ pc[t] = "flushing"
      BY <3>1 DEF FlushNotes
    <3>3. turn[t].batch \in Seq(Notes) /\ NoRepeats(turn[t].batch) /\ snap[t] \in Session
      BY <1>0, <3>2 DEF NotesApart, Turn
    <3>4. Range(turn[t].batch) \cap (Saved \cup Gone) = {}
      <4>1. Batch(t) = Range(turn[t].batch) BY <3>2 DEF Batch
      <4>2. Batch(t) \subseteq Notes /\ Batch(t) \subseteq Held BY HeldAreNotes DEF Held
      <4>. QED BY <1>0, <4>1, <4>2 DEF Saved, Gone
    <3>5. store'.hist = snap[t].hist \o turn[t].batch /\ store'.turnCount = snap[t].turnCount
      BY <3>2, <3>3 DEF Session
    <3>6. CopySound(store', Saved, Gone \cup Range(turn[t].batch))
      BY <1>0, <3>3, <3>4, <3>5, CopyWithNotes DEF CopiesSound
    <3>7. Gone \cup Range(turn[t].batch) \subseteq Gone' BY <3>1, FlushingApart
    <3>. QED BY <1>0, <3>6, <3>7, CopyGrows DEF Alike
  <2>5. CASE \E n \in Notes : NoteLoaded(n) /\ snap[n].live
    <3>1. PICK n \in Notes : NoteLoaded(n) /\ snap[n].live BY <2>5
    <3>2. /\ store' = [snap[n] EXCEPT !.hist = Append(snap[n].hist, n)]
          /\ pc[n] = "loading" /\ pc' = [pc EXCEPT ![n] = "done"]
          /\ turn' = turn /\ turnNotes' = turnNotes
      BY <3>1 DEF NoteLoaded, Goto
    <3>. DEFINE q == <<n>>
    <3>3. q \in Seq(Notes) /\ NoRepeats(q) /\ Range(q) = {n} BY DEF NoRepeats, Range
    <3>4. snap[n] \in Session /\ snap[n].hist \in Seq(Turns \cup Notes) BY <1>0 DEF Session
    <3>5. store'.hist = snap[n].hist \o q /\ store'.turnCount = snap[n].turnCount
      BY <3>2, <3>4 DEF Session
    <3>. HIDE DEF q
    <3>6. n \notin Held BY <3>2 DEF NotesApart
    <3>7. n \in Gone'
      <4>1. \A t \in Turns : Batch(t)' = Batch(t) BY <1>0, <3>2 DEF Batch
      <4>2. Held' = Held BY <3>2, <4>1 DEF Held
      <4>. QED BY <1>0, <3>2, <3>6, <4>2 DEF Gone
    <3>8. n \notin Saved \cup Gone BY <1>0, <3>2 DEF Saved, Gone
    <3>9. CopySound(store', Saved, Gone \cup Range(q))
      BY <1>0, <3>3, <3>4, <3>5, <3>8, CopyWithNotes DEF CopiesSound
    <3>10. Gone \cup Range(q) \subseteq Gone' BY <1>0, <3>3, <3>7
    <3>. QED BY <1>0, <3>9, <3>10, CopyGrows DEF Alike
  <2>. QED BY <2>1, <2>2, <2>3, <2>4, <2>5, StoreStep
<1>. QED BY <1>2, <1>3 DEF CopiesSound

HistoryInv == NotesApart /\ CopiesSound

LEMMA HistoryAlways == Spec => []HistoryInv
<1>1. Init => HistoryInv
  <2>1. ASSUME Init PROVE NotesApart
    <3>1. \A t \in Turns : Batch(t) = {} BY <2>1 DEF Init, Batch, Frames
    <3>2. Range(turnNotes.notes) = {} BY <2>1 DEF Init, NoQueue, Range
    <3>3. Held = {} BY <3>1, <3>2 DEF Held
    <3>. QED BY <2>1, <3>1, <3>2, <3>3 DEF Init, NotesApart, NoQueue, NoRepeats, Frames
  <2>2. ASSUME Init PROVE CopiesSound
    BY <2>2, EmptyCopy DEF Init, CopiesSound
  <2>. QED BY <2>1, <2>2 DEF HistoryInv
<1>2. SessionInv /\ HistoryInv /\ [Next]_vars => HistoryInv'
  <2>1. ASSUME SessionInv, HistoryInv, Next PROVE HistoryInv'
    BY <2>1, ApartStep, CopiesStep DEF HistoryInv
  <2>2. ASSUME HistoryInv, UNCHANGED vars PROVE HistoryInv'
    BY <2>2 DEF HistoryInv, NotesApart, CopiesSound, Held, Batch, Saved, Gone, vars
  <2>. QED BY <2>1, <2>2
<1>. QED BY <1>1, <1>2, SessionAlways, PTL DEF Spec

\* Whatever turns, queued notes, notes written directly and stale copies do to the saved
\* session, no exchange and no note gets into its history twice.
THEOREM NothingTwice == Spec => []HistoryNoRepeats
<1>1. HistoryInv => HistoryNoRepeats
  BY DEF HistoryInv, CopiesSound, CopySound, NoRepeats, HistoryNoRepeats
<1>. QED BY <1>1, HistoryAlways, PTL

\* The count the turn cap is checked against is the number of exchanges in the saved
\* history, at whatever pace the visitor sends and whoever's copy was saved last.
THEOREM CountIsExchanges == Spec => []CountMatchesHistory
<1>1. HistoryInv => CountMatchesHistory
  BY DEF HistoryInv, CopiesSound, CopySound, CountMatchesHistory
<1>. QED BY <1>1, HistoryAlways, PTL

-------------------------------------------------------------------------------
(* A visitor who waits for each handler *)

\* Where a handler works on a copy of the session that it has not written back.
Unsaved == {"loading", "merchant", "tapping", "thinking", "waiting", "flushing"}
\* Where a turn is once its copy has been read.
Thinks == Active \ {"loading"}
NoEndYet == \A e \in Ends : pc[e] = "new"
Exchanges(s) == Range(s.hist) \cap Turns

\* What a visitor who waits for each handler can rely on: turns take turns, each owns the
\* queue, no note is written while a turn thinks, and every copy that will be written has
\* the exchanges of the saved session.
TurnsApart  == \A t, u \in Running : t = u
EachOwns    == \A t \in Turns : pc[t] \in Active => turn[t].owns
InLine ==
  /\ \A i \in DOMAIN replies : pc[replies[i]] # "new"
  /\ \A n \in Notes : pc[n] = "loading" => n \in Range(replies)
  /\ \A t \in Turns : pc[t] = "loading" =>
       \A i \in DOMAIN replies : replies[i] = t => i = Len(replies)
NoteLabels == \A n \in Notes : pc[n] \in {"new", "loading", "done"}
NoOtherCopy == \A t \in Turns : pc[t] \in Thinks => \A n \in Notes : pc[n] # "loading"
CopiesAgree == \A f \in Frames : pc[f] \in Unsaved => Exchanges(snap[f]) = Exchanges(store)

SettledInv == TurnsApart /\ EachOwns /\ InLine /\ NoteLabels /\ NoOtherCopy /\ CopiesAgree

\* How a handler uses the connection.
Sends(f) ==
  /\ SendGet(f)
  /\ \/ pc[f] = "new" /\ Goto(f, "loading")
     \/ pc[f] = "ending" /\ Goto(f, "flushing")
Takes(f) ==
  /\ TakeReply(f)
  /\ \/ pc[f] = "loading" /\ \E label \in {"merchant", "ending", "done"} : Goto(f, label)
     \/ pc[f] = "flushing" /\ Goto(f, "done")
Works(f) ==
  /\ UNCHANGED replies
  /\ \/ pc[f] = "new" /\ Goto(f, "done")
     \/ pc[f] \in Thinks \cap Unsaved /\ \E label \in Thinks : Goto(f, label)
     \/ pc[f] \in {"classifying", "ending"} /\ \E label \in {"ending", "done"} : Goto(f, label)

LEMMA TurnUses ==
  ASSUME SessionInv, NEW t \in Turns, TurnArrives(t) \/ HostActionResult(t) \/ TurnStep(t)
  PROVE  Sends(t) \/ Takes(t) \/ Works(t)
<1>1. CASE TurnArrives(t) BY <1>1 DEF TurnArrives, Sends
<1>2. CASE TurnLoaded(t) BY <1>2 DEF TurnLoaded, Takes
<1>3. CASE FinishTurn(t) BY <1>3 DEF FinishTurn, Sends, Works
<1>4. CASE FlushNotes(t) BY <1>4 DEF FlushNotes, Takes
<1>5. CASE HostActionResult(t) \/ HostActionTimeout(t)
  <2>1. pc[t] = "waiting"
    BY <1>5 DEF SessionInv, WaitersAnswerable, HostActionResult, HostActionTimeout, Resolve
  <2>. QED BY <1>5, <2>1 DEF HostActionResult, HostActionTimeout, Resolve, Works, Thinks, Active, Unsaved
<1>6. CASE \/ MerchantLoaded(t) \/ TapCart(t) \/ DispatchHostAction(t)
           \/ SaveTurn(t) \/ ExecutorError(t) \/ TurnThrows(t)
  <2>1. UNCHANGED replies /\ pc[t] \in {"merchant", "tapping", "thinking"}
    BY <1>6 DEF MerchantLoaded, TapCart, DispatchHostAction, SaveTurn, ExecutorError, TurnThrows
  <2>2. \E label \in Thinks : Goto(t, label)
    BY <1>6 DEF MerchantLoaded, TapCart, DispatchHostAction, SaveTurn, ExecutorError, TurnThrows,
       AfterRun, Thinks, Active
  <2>. QED BY <2>1, <2>2 DEF Works, Thinks, Active, Unsaved
<1>7. CASE Classify(t) BY <1>7 DEF Classify, Works
<1>. QED BY <1>1, <1>2, <1>3, <1>4, <1>5, <1>6, <1>7 DEF TurnStep

LEMMA NoteUses ==
  ASSUME NEW n \in Notes, NoteArrives(n) \/ NoteLoaded(n)
  PROVE  Sends(n) \/ Takes(n) \/ Works(n)
<1>1. CASE NoteArrives(n) BY <1>1 DEF NoteArrives, Sends, Works
<1>2. CASE NoteLoaded(n) BY <1>2 DEF NoteLoaded, Takes
<1>. QED BY <1>1, <1>2

\* Before any session_end, every step is one of a turn or a note.
LEMMA BeforeEnds ==
  ASSUME SessionInv, Next, NoEndYet'
  PROVE  /\ NoEndYet
         /\ \/ \E t \in Turns : TurnArrives(t) \/ HostActionResult(t) \/ TurnStep(t)
            \/ \E n \in Notes : NoteArrives(n) \/ NoteLoaded(n)
<1>0. pc \in [Frames -> Labels] /\ Ends \subseteq Frames BY DEF SessionInv, TypeOK, Frames
<1>1. NoEndYet BY <1>0, OneMoves DEF NoEndYet, Goto
<1>2. ASSUME NEW e \in Ends, EndArrives(e) \/ EndStep(e) PROVE FALSE
  BY <1>0, <1>1, <1>2 DEF NoEndYet, EndArrives, EndStep, EndLoaded, EndDeleted, Goto
<1>. QED BY <1>1, <1>2 DEF Next

\* A frame that loads the session and is not a turn's finds no turn under way; a turn that
\* does is the only one.
LEMMA SendsAlone ==
  ASSUME SessionInv, SettledInv, Pace = "settled", NoEndYet', Next, NEW f \in Frames, Sends(f)
  PROVE  \A u \in Turns \ {f} : pc'[u] \notin Active
<1>0. pc \in [Frames -> Labels] /\ Turns \subseteq Frames /\ Turns \cap Notes = {}
  BY TextSessionAssumption DEF SessionInv, TypeOK, Frames
<1>1. PICK label \in {"loading", "flushing"} : pc' = [pc EXCEPT ![f] = label]
  BY DEF Sends, Goto
<1>2. pc'[f] # pc[f] BY <1>0, <1>1 DEF Sends
<1>3. \A u \in Turns \ {f} : pc'[u] = pc[u] BY <1>0, <1>1
<1>4. CASE f \in Turns /\ pc[f] = "ending"
  BY <1>3, <1>4 DEF SettledInv, TurnsApart, Running, Active
<1>5. CASE f \in Turns /\ pc[f] = "new"
  <2>1. PICK t \in Turns : TurnArrives(t)
    BY <1>0, <1>1, <1>2, <1>5, BeforeEnds DEF TurnStep, TurnLoaded, MerchantLoaded, TapCart, DispatchHostAction,
       HostActionTimeout, SaveTurn, ExecutorError, TurnThrows, Classify, FinishTurn, FlushNotes,
       HostActionResult, Resolve, NoteArrives, NoteLoaded, Goto, SessionInv, WaitersAnswerable
  <2>2. Running = {} BY <2>1 DEF TurnArrives, PaceAllows
  <2>. QED BY <1>3, <2>2 DEF Running, Active
<1>6. CASE f \notin Turns
  <2>1. PICK n \in Notes : NoteArrives(n) \/ NoteLoaded(n)
    BY <1>0, <1>2, <1>6, BeforeEnds, TurnUses DEF Sends, Takes, Works, Goto
  <2>2. f = n BY <1>0, <1>2, <2>1 DEF NoteArrives, NoteLoaded, Goto, Frames
  <2>3. ~turnNotes.live BY <1>0, <1>1, <2>1, <2>2 DEF NoteArrives, NoteLoaded, Goto, Frames
  <2>4. \A u \in Turns : ~Owner(u) BY <2>3 DEF SessionInv, OneOwner
  <2>. QED BY <1>3, <2>4 DEF Owner, SettledInv, EachOwns, Active
<1>. QED BY <1>4, <1>5, <1>6 DEF Sends

\* What the parts of the invariant read of a step.
Leisure == SessionInv /\ SettledInv /\ Pace = "settled" /\ NoEndYet' /\ Next

LEMMA OneUses ==
  ASSUME Leisure
  PROVE  \E f \in Turns \cup Notes :
           /\ Sends(f) \/ Takes(f) \/ Works(f)
           /\ pc' = [pc EXCEPT ![f] = pc'[f]]
           /\ pc[f] = "new" /\ f \in Turns => TurnArrives(f)
<1>0. pc \in [Frames -> Labels] /\ Turns \subseteq Frames /\ Notes \subseteq Frames
      /\ Turns \cap Notes = {}
  BY TextSessionAssumption DEF Leisure, SessionInv, TypeOK, Frames
<1>1. ASSUME NEW t \in Turns, TurnArrives(t) \/ HostActionResult(t) \/ TurnStep(t), pc[t] = "new"
      PROVE  TurnArrives(t)
  BY <1>1 DEF Leisure, TurnStep, TurnLoaded, MerchantLoaded, TapCart, DispatchHostAction,
     HostActionTimeout, SaveTurn, ExecutorError, TurnThrows, Classify, FinishTurn, FlushNotes,
     HostActionResult, Resolve, SessionInv, WaitersAnswerable
<1>2. PICK f \in Turns \cup Notes :
        /\ Sends(f) \/ Takes(f) \/ Works(f)
        /\ pc[f] = "new" /\ f \in Turns => TurnArrives(f)
  BY <1>0, <1>1, BeforeEnds, TurnUses, NoteUses DEF Leisure
<1>3. pc' = [pc EXCEPT ![f] = pc'[f]]
  <2>1. PICK label \in Labels : pc' = [pc EXCEPT ![f] = label]
    BY <1>2 DEF Sends, Takes, Works, Goto, Labels, Thinks, Active
  <2>2. pc'[f] = label BY <1>0, <2>1
  <2>. QED BY <2>1, <2>2
<1>. QED BY <1>2, <1>3

\* A handler's label before and after its step.
LEMMA UseLabels ==
  ASSUME Leisure, NEW f \in Frames
  PROVE  /\ Sends(f) => \/ pc[f] = "new" /\ pc'[f] = "loading"
                        \/ pc[f] = "ending" /\ pc'[f] = "flushing"
         /\ Takes(f) => \/ pc[f] = "loading" /\ pc'[f] \in {"merchant", "ending", "done"}
                        \/ pc[f] = "flushing" /\ pc'[f] = "done"
         /\ Works(f) => \/ pc[f] = "new" /\ pc'[f] = "done"
                        \/ pc[f] \in Thinks \cap Unsaved /\ pc'[f] \in Thinks
                        \/ pc[f] \in {"classifying", "ending"} /\ pc'[f] \in {"ending", "done"}
BY DEF Leisure, SessionInv, TypeOK, Sends, Takes, Works, Goto

LEMMA TurnsApartStep ==
  ASSUME Leisure
  PROVE  TurnsApart'
<1>1. PICK f \in Turns \cup Notes :
        /\ pc' = [pc EXCEPT ![f] = pc'[f]]
        /\ pc[f] = "new" /\ f \in Turns => TurnArrives(f)
        /\ Sends(f) \/ Takes(f) \/ Works(f)
  BY OneUses
<1>2. pc \in [Frames -> Labels] /\ Turns \subseteq Frames /\ Turns \cap Notes = {} /\ f \in Frames
  BY TextSessionAssumption DEF Leisure, SessionInv, TypeOK, Frames
<1>3. Running' \subseteq Running \/ (f \in Turns /\ TurnArrives(f) /\ Running' \subseteq Running \cup {f})
  <2>1. \A u \in Turns \ {f} : pc'[u] = pc[u] BY <1>1, <1>2
  <2>2. pc[f] # "done" BY <1>1, <1>2, UseLabels DEF Thinks, Active
  <2>. QED BY <1>1, <2>1, <2>2 DEF Running
<1>4. TurnArrives(f) => Running = {} BY DEF TurnArrives, PaceAllows, Leisure
<1>. QED BY <1>3, <1>4 DEF TurnsApart, Leisure, SettledInv

LEMMA NoteLabelsStep ==
  ASSUME Leisure
  PROVE  NoteLabels'
<1>0. /\ pc \in [Frames -> Labels] /\ Turns \subseteq Frames /\ Notes \subseteq Frames
      /\ Turns \cap Notes = {} /\ NoteLabels
  BY TextSessionAssumption DEF Leisure, SessionInv, TypeOK, Frames, SettledInv
<1>1. CASE \E n \in Notes : NoteArrives(n) \/ NoteLoaded(n)
  BY <1>0, <1>1 DEF NoteArrives, NoteLoaded, Goto, NoteLabels
<1>2. CASE \E t \in Turns : TurnArrives(t) \/ HostActionResult(t) \/ TurnStep(t)
  <2>1. PICK t \in Turns : \E label : Goto(t, label)
    BY <1>2, TurnUses DEF Leisure, Sends, Takes, Works
  <2>. QED BY <1>0, <2>1 DEF Goto, NoteLabels
<1>. QED BY <1>1, <1>2, BeforeEnds DEF Leisure

LEMMA EachOwnsStep ==
  ASSUME Leisure
  PROVE  EachOwns'
<1>0. /\ pc \in [Frames -> Labels] /\ Turns \subseteq Frames /\ Notes \subseteq Frames
      /\ Turns \cap Notes = {} /\ turn \in [Turns -> Turn] /\ SessionInv /\ EachOwns
  BY TextSessionAssumption DEF Leisure, SessionInv, TypeOK, Frames, SettledInv
<1>1. ASSUME NEW t \in Turns, TurnArrives(t) PROVE EachOwns'
  <2>1. Running = {} BY <1>1 DEF TurnArrives, PaceAllows, Leisure
  <2>2. \A u \in Turns : ~Owner(u) BY <2>1 DEF Owner, Running
  <2>3. OwnsQueue = TRUE BY <1>0, <2>2 DEF OwnsQueue, SessionInv, OneOwner, TypeOK
  <2>4. turn'[t].owns
    <3>1. PICK k \in Kinds : turn' = [turn EXCEPT ![t].kind = k, ![t].owns = OwnsQueue]
      BY <1>1 DEF TurnArrives
    <3>. QED BY <1>0, <2>3, <3>1 DEF Turn
  <2>5. \A u \in Turns \ {t} : pc'[u] \notin Active
    BY <1>0, <1>1, <2>1 DEF TurnArrives, Goto, Running, Active
  <2>. QED BY <2>4, <2>5 DEF EachOwns
<1>2. ASSUME NEW t \in Turns, TurnMoves(t) PROVE EachOwns'
  BY <1>0, <1>2, MovesWithin DEF EachOwns, Goto
<1>3. ASSUME NEW t \in Turns, FinishTurn(t) \/ FlushNotes(t) PROVE EachOwns'
  <2>1. \A u \in Turns \ {t} : turn'[u] = turn[u] /\ pc'[u] = pc[u]
    BY <1>0, <1>3 DEF FinishTurn, FlushNotes, Goto
  <2>2. pc'[t] \notin Active BY <1>0, <1>3 DEF FinishTurn, FlushNotes, Goto, Active
  <2>. QED BY <1>0, <2>1, <2>2 DEF EachOwns
<1>4. ASSUME NEW n \in Notes, NoteArrives(n) \/ NoteLoaded(n) PROVE EachOwns'
  <2>1. turn' = turn /\ \A u \in Turns : pc'[u] = pc[u]
    BY <1>0, <1>4 DEF NoteArrives, NoteLoaded, Goto
  <2>. QED BY <1>0, <2>1 DEF EachOwns
<1>. QED BY <1>1, <1>2, <1>3, <1>4, BeforeEnds DEF Leisure, TurnStep, TurnMoves

LEMMA InLineStep ==
  ASSUME Leisure
  PROVE  InLine'
<1>1. PICK f \in Turns \cup Notes :
        pc' = [pc EXCEPT ![f] = pc'[f]] /\ (Sends(f) \/ Takes(f) \/ Works(f))
  BY OneUses
<1>2. /\ pc \in [Frames -> Labels] /\ Turns \subseteq Frames /\ Notes \subseteq Frames
      /\ Turns \cap Notes = {} /\ f \in Frames /\ replies \in Seq(Frames) /\ InLine
      /\ \A g \in Frames \ {f} : pc'[g] = pc[g]
  <2>1. /\ pc \in [Frames -> Labels] /\ Turns \subseteq Frames /\ Notes \subseteq Frames
        /\ Turns \cap Notes = {} /\ f \in Frames /\ replies \in Seq(Frames) /\ InLine
    BY TextSessionAssumption DEF Leisure, SessionInv, TypeOK, Frames, SettledInv
  <2>. QED BY <1>1, <2>1
<1>. DEFINE n == Len(replies)
<1>3. n \in Nat /\ DOMAIN replies = 1..n /\ \A i \in 1..n : replies[i] \in Frames BY <1>2
<1>4. \A g \in Frames : pc'[g] = "new" => pc[g] = "new" BY <1>1, <1>2, UseLabels DEF Thinks, Active
<1>5. CASE Sends(f)
  <2>1. /\ DOMAIN replies' = 1..(n + 1) /\ replies'[n + 1] = f
        /\ \A i \in 1..n : replies'[i] = replies[i]
        /\ Len(replies') = n + 1 /\ Range(replies') = Range(replies) \cup {f}
    BY <1>2, <1>5, RangeOfAppend DEF Sends, SendGet
  <2>2. pc[f] # "loading" /\ pc'[f] # "new" BY <1>2, <1>5, UseLabels
  <2>3. \A i \in DOMAIN replies' : pc'[replies'[i]] # "new"
    BY <1>2, <1>3, <1>4, <2>1, <2>2 DEF InLine
  <2>4. \A m \in Notes : pc'[m] = "loading" => m \in Range(replies')
    BY <1>2, <2>1 DEF InLine
  <2>5. \A t \in Turns : pc'[t] = "loading" =>
          \A i \in DOMAIN replies' : replies'[i] = t => i = Len(replies')
    <3>. SUFFICES ASSUME NEW t \in Turns, pc'[t] = "loading", NEW i \in 1..(n + 1), replies'[i] = t
                  PROVE  i = n + 1
      BY <2>1
    <3>1. t = f BY <1>2, <1>5, SendsAlone DEF Leisure, Active
    <3>2. pc[f] = "new" BY <1>2, <1>5, <3>1, UseLabels
    <3>3. \A k \in 1..n : replies[k] # f BY <1>2, <1>3, <3>2 DEF InLine
    <3>. QED BY <1>3, <2>1, <3>1, <3>3
  <2>. QED BY <2>3, <2>4, <2>5 DEF InLine
<1>6. CASE Takes(f)
  <2>1. /\ n > 0 /\ replies[1] = f /\ DOMAIN replies' = 1..(n - 1) /\ Len(replies') = n - 1
        /\ \A i \in 1..(n - 1) : replies'[i] = replies[i + 1]
    BY <1>2, <1>6 DEF Takes, TakeReply
  <2>2. pc'[f] \notin {"new", "loading"} BY <1>2, <1>6, UseLabels
  <2>3. \A i \in DOMAIN replies' : pc'[replies'[i]] # "new"
    BY <1>2, <1>3, <1>4, <2>1 DEF InLine
  <2>4. \A m \in Notes : pc'[m] = "loading" => m \in Range(replies')
    <3>. SUFFICES ASSUME NEW m \in Notes, pc'[m] = "loading" PROVE m \in Range(replies') OBVIOUS
    <3>1. m # f /\ pc[m] = "loading" BY <1>2, <2>2
    <3>2. PICK i \in 1..n : replies[i] = m BY <1>2, <1>3, <3>1 DEF InLine, Range
    <3>3. i - 1 \in 1..(n - 1) /\ (i - 1) + 1 = i BY <1>3, <2>1, <3>1, <3>2
    <3>. QED BY <2>1, <3>2, <3>3 DEF Range
  <2>5. \A t \in Turns : pc'[t] = "loading" =>
          \A i \in DOMAIN replies' : replies'[i] = t => i = Len(replies')
    <3>. SUFFICES ASSUME NEW t \in Turns, pc'[t] = "loading", NEW i \in 1..(n - 1), replies'[i] = t
                  PROVE  i = n - 1
      BY <2>1
    <3>1. t # f /\ pc[t] = "loading" BY <1>2, <2>2
    <3>2. i + 1 \in 1..n /\ replies[i + 1] = t BY <1>3, <2>1
    <3>3. i + 1 = n BY <1>2, <1>3, <3>1, <3>2 DEF InLine
    <3>4. n \in Nat BY <1>3
    <3>. QED BY <3>3, <3>4
  <2>. QED BY <2>3, <2>4, <2>5 DEF InLine
<1>7. CASE Works(f)
  <2>1. replies' = replies BY <1>7 DEF Works
  <2>2. pc'[f] \notin {"new", "loading"} BY <1>2, <1>7, UseLabels DEF Thinks, Active
  <2>. QED BY <1>2, <1>3, <1>4, <2>1, <2>2 DEF InLine
<1>. QED BY <1>1, <1>5, <1>6, <1>7

\* A turn begins to think when all who loaded before it have written.
LEMMA NoOtherStep ==
  ASSUME Leisure
  PROVE  NoOtherCopy'
<1>1. PICK f \in Turns \cup Notes :
        pc' = [pc EXCEPT ![f] = pc'[f]] /\ (Sends(f) \/ Takes(f) \/ Works(f))
  BY OneUses
<1>2. /\ pc \in [Frames -> Labels] /\ Turns \subseteq Frames /\ Notes \subseteq Frames
      /\ Turns \cap Notes = {} /\ f \in Frames /\ replies \in Seq(Frames)
      /\ InLine /\ NoOtherCopy
  BY TextSessionAssumption DEF Leisure, SessionInv, TypeOK, Frames, SettledInv
<1>. SUFFICES ASSUME NEW t \in Turns, pc'[t] \in Thinks, NEW m \in Notes, pc'[m] = "loading"
              PROVE  FALSE
  BY DEF NoOtherCopy
<1>3. CASE Sends(f)
  <2>1. f = t BY <1>2, <1>1, <1>3, SendsAlone DEF Leisure, Thinks
  <2>. QED BY <1>2, <1>3, <2>1, UseLabels DEF Thinks, Active
<1>4. CASE Takes(f)
  <2>1. m # f /\ pc[m] = "loading" BY <1>1, <1>2, <1>4, UseLabels
  <2>2. CASE t # f BY <1>1, <1>2, <2>1, <2>2 DEF NoOtherCopy
  <2>3. CASE t = f
    <3>1. CASE pc[t] = "loading"
      <4>1. replies # <<>> /\ replies[1] = t BY <1>2, <1>4, <2>3 DEF Takes, TakeReply
      <4>2. Len(replies) \in Nat /\ DOMAIN replies = 1..Len(replies) BY <1>2
      <4>3. Len(replies) # 0 BY <1>2, <4>1
      <4>4. 1 = Len(replies) BY <1>2, <3>1, <4>1, <4>2, <4>3 DEF InLine
      <4>5. m \in Range(replies) BY <1>2, <2>1 DEF InLine
      <4>6. PICK i \in DOMAIN replies : replies[i] = m BY <4>5 DEF Range
      <4>7. i = 1
        <5>1. DOMAIN replies = 1..1 BY <4>2, <4>4
        <5>. QED BY <5>1
      <4>. QED BY <2>1, <2>3, <4>1, <4>6, <4>7
    <3>. QED BY <1>2, <1>4, <2>3, <3>1, UseLabels DEF Thinks, Active
  <2>. QED BY <2>2, <2>3
<1>5. CASE Works(f)
  <2>1. m # f /\ pc[m] = "loading" BY <1>1, <1>2, <1>5, UseLabels DEF Thinks, Active
  <2>2. CASE t # f BY <1>1, <1>2, <2>1, <2>2 DEF NoOtherCopy
  <2>3. CASE t = f
    <3>1. pc[t] \notin Thinks BY <1>2, <2>1 DEF NoOtherCopy
    <3>. QED BY <1>2, <1>5, <2>3, <3>1, UseLabels DEF Thinks, Active
  <2>. QED BY <2>2, <2>3
<1>. QED BY <1>1, <1>3, <1>4, <1>5

\* The copies that will be written keep the exchanges of the saved session: only a turn that
\* saves changes them, and nobody else has a copy then.
LEMMA CopiesAgreeStep ==
  ASSUME Leisure, HistoryInv
  PROVE  CopiesAgree'
<1>1. PICK f \in Turns \cup Notes :
        pc' = [pc EXCEPT ![f] = pc'[f]] /\ (Sends(f) \/ Takes(f) \/ Works(f))
  BY OneUses
<1>2. /\ pc \in [Frames -> Labels] /\ Turns \subseteq Frames /\ Notes \subseteq Frames
      /\ Turns \cap Notes = {} /\ f \in Frames /\ SessionInv /\ CopiesAgree
      /\ snap \in [Frames -> Session] /\ turn \in [Turns -> Turn] /\ NoEndYet
      /\ Frames = Turns \cup Notes \cup Ends
  BY TextSessionAssumption, BeforeEnds DEF Leisure, SessionInv, TypeOK, Frames, SettledInv
\* Whoever works on a copy after the step did before, or loads it in the step.
<1>3. \A g \in Frames : pc'[g] \in Unsaved => (g = f /\ Sends(f)) \/ pc[g] \in Unsaved
  <2>1. \A g \in Frames \ {f} : pc'[g] = pc[g] BY <1>1, <1>2
  <2>2. Takes(f) => pc[f] \in Unsaved BY DEF Takes, Unsaved
  <2>3. Works(f) /\ pc'[f] \in Unsaved => pc[f] \in Unsaved
    BY <1>2, UseLabels DEF Unsaved
  <2>. QED BY <1>1, <2>1, <2>2, <2>3
<1>4. CASE Exchanges(store') = Exchanges(store)
  <2>. SUFFICES ASSUME NEW g \in Frames, pc'[g] \in Unsaved
                PROVE  Exchanges(snap'[g]) = Exchanges(store')
    BY DEF CopiesAgree
  <2>1. CASE g = f /\ Sends(f)
    <3>1. snap'[g] = store BY <1>2, <2>1 DEF Sends, SendGet
    <3>. QED BY <1>4, <3>1
  <2>2. CASE pc[g] \in Unsaved
    <3>1. Exchanges(snap[g]) = Exchanges(store) BY <1>2, <2>2 DEF CopiesAgree
    <3>. QED BY <1>4, <3>1, CopyStep DEF Leisure, Alike, Exchanges
  <2>. QED BY <1>3, <2>1, <2>2
<1>5. CASE \E t \in Turns : SaveTurn(t)
  <2>1. PICK t \in Turns : SaveTurn(t) BY <1>5
  <2>2. pc[t] = "thinking" /\ pc'[t] \in {"classifying", "ending"}
    BY <1>2, <2>1 DEF SaveTurn, Goto, AfterRun
  <2>3. \A g \in Frames \ {t} : pc'[g] = pc[g] BY <1>2, <2>1 DEF SaveTurn, Goto
  <2>4. \A n \in Notes : pc[n] \notin Unsaved
    BY <2>2 DEF Leisure, SettledInv, NoteLabels, NoOtherCopy, Thinks, Active, Unsaved
  <2>5. \A u \in Turns \ {t} : pc[u] \notin Unsaved
    BY <2>2 DEF Leisure, SettledInv, TurnsApart, Running, Unsaved
  <2>6. \A e \in Ends : pc[e] \notin Unsaved BY <1>2 DEF NoEndYet, Unsaved
  <2>. QED BY <1>2, <2>2, <2>3, <2>4, <2>5, <2>6 DEF CopiesAgree, Unsaved
<1>6. \A s \in Session : \A q \in Seq(Notes) : \A r :
        r.hist = s.hist \o q => Exchanges(r) = Exchanges(s)
  <2>. SUFFICES ASSUME NEW s \in Session, NEW q \in Seq(Notes), NEW r, r.hist = s.hist \o q
                PROVE  Exchanges(r) = Exchanges(s)
    OBVIOUS
  <2>1. s.hist \in Seq(Turns \cup Notes) /\ q \in Seq(Turns \cup Notes) BY DEF Session
  <2>2. Range(r.hist) = Range(s.hist) \cup Range(q) BY <2>1, RangeOfConcat
  <2>3. Range(q) \subseteq Notes BY DEF Range
  <2>. QED BY <1>2, <2>2, <2>3 DEF Exchanges
<1>7. CASE \E t \in Turns : FlushNotes(t) /\ snap[t].live
  <2>1. PICK t \in Turns : FlushNotes(t) /\ snap[t].live BY <1>7
  <2>2. pc[t] = "flushing" /\ store' = [snap[t] EXCEPT !.hist = snap[t].hist \o turn[t].batch]
    BY <2>1 DEF FlushNotes
  <2>3. snap[t] \in Session /\ turn[t].batch \in Seq(Notes) BY <1>2 DEF Turn
  <2>4. store'.hist = snap[t].hist \o turn[t].batch BY <2>2, <2>3 DEF Session
  <2>5. Exchanges(store') = Exchanges(snap[t]) BY <1>6, <2>3, <2>4
  <2>. QED BY <1>2, <1>4, <2>2, <2>5 DEF CopiesAgree, Unsaved
<1>8. CASE \E n \in Notes : NoteLoaded(n) /\ snap[n].live
  <2>1. PICK n \in Notes : NoteLoaded(n) /\ snap[n].live BY <1>8
  <2>2. pc[n] = "loading" /\ store' = [snap[n] EXCEPT !.hist = Append(snap[n].hist, n)]
    BY <2>1 DEF NoteLoaded
  <2>3. snap[n] \in Session /\ snap[n].hist \in Seq(Turns \cup Notes) BY <1>2 DEF Session
  <2>4. store'.hist = Append(snap[n].hist, n) BY <2>2, <2>3 DEF Session
  <2>5. Range(store'.hist) = Range(snap[n].hist) \cup {n} BY <2>3, <2>4, RangeOfAppend
  <2>6. Exchanges(store') = Exchanges(snap[n]) BY <1>2, <2>5 DEF Exchanges
  <2>. QED BY <1>2, <1>4, <2>2, <2>6 DEF CopiesAgree, Unsaved
<1>9. ASSUME NEW e \in Ends, EndLoaded(e) PROVE FALSE BY <1>2, <1>9 DEF EndLoaded, NoEndYet
<1>10. CASE store' = store BY <1>4, <1>10
<1>. QED BY <1>5, <1>7, <1>8, <1>9, <1>10, StoreStep DEF Leisure

LEMMA SettledAlways ==
  ASSUME Pace = "settled"
  PROVE  Spec => [](NoEndYet => SettledInv)
<1>1. Init => SettledInv
  <2>. SUFFICES ASSUME Init PROVE SettledInv OBVIOUS
  <2>1. \A f \in Frames : pc[f] = "new" BY DEF Init
  <2>2. replies = <<>> BY DEF Init
  <2>3. Turns \subseteq Frames /\ Notes \subseteq Frames BY DEF Frames
  <2>4. TurnsApart /\ EachOwns /\ NoteLabels /\ NoOtherCopy /\ CopiesAgree
    BY <2>1, <2>3 DEF TurnsApart, Running, EachOwns, Active, NoteLabels, NoOtherCopy, Thinks,
       CopiesAgree, Unsaved
  <2>5. InLine BY <2>1, <2>2, <2>3 DEF InLine
  <2>. QED BY <2>4, <2>5 DEF SettledInv
<1>2. SessionInv /\ HistoryInv /\ (NoEndYet => SettledInv) /\ [Next]_vars
        => (NoEndYet => SettledInv)'
  <2>1. ASSUME SessionInv, HistoryInv, NoEndYet => SettledInv, Next, NoEndYet'
        PROVE  SettledInv'
    <3>1. NoEndYet BY <2>1, BeforeEnds
    <3>2. Leisure BY <2>1, <3>1 DEF Leisure
    <3>. QED BY <2>1, <3>2, TurnsApartStep, EachOwnsStep, InLineStep, NoteLabelsStep, NoOtherStep,
                CopiesAgreeStep DEF SettledInv
  <2>2. ASSUME NoEndYet => SettledInv, UNCHANGED vars PROVE (NoEndYet => SettledInv)'
    BY <2>2 DEF NoEndYet, SettledInv, TurnsApart, Running, EachOwns, InLine, NoteLabels,
       NoOtherCopy, CopiesAgree, vars
  <2>. QED BY <2>1, <2>2
<1>. QED BY <1>1, <1>2, SessionAlways, HistoryAlways, PTL DEF Spec

\* As long as no session_end has arrived, what is saved for a visitor who waits until the
\* previous turn's handler is through keeps every exchange: the late notes, the finally
\* block's flush and the next turn all write copies that have them.
THEOREM ExchangesKeptUntilEnd ==
  ASSUME Pace = "settled"
  PROVE  Spec => [][NoEndYet => Range(store.hist) \cap Turns \subseteq Range(store'.hist)]_vars
<1>1. ASSUME SessionInv, NoEndYet => SettledInv, [Next]_vars
      PROVE  [NoEndYet => Range(store.hist) \cap Turns \subseteq Range(store'.hist)]_vars
  <2>. SUFFICES ASSUME Next, NoEndYet, SettledInv
                PROVE  Exchanges(store) \subseteq Range(store'.hist)
    BY <1>1 DEF Exchanges
  <2>0. /\ snap \in [Frames -> Session] /\ turn \in [Turns -> Turn] /\ CopiesAgree
        /\ Turns \subseteq Frames /\ Notes \subseteq Frames
    BY <1>1 DEF SessionInv, TypeOK, Frames, SettledInv
  <2>1. CASE store' = store BY <2>1 DEF Exchanges
  <2>2. ASSUME NEW e \in Ends, EndLoaded(e) PROVE FALSE BY <2>2 DEF EndLoaded, NoEndYet
  <2>3. ASSUME NEW t \in Turns, SaveTurn(t) PROVE Exchanges(store) \subseteq Range(store'.hist)
    <3>1. store' = WithExchange(snap[t], t) /\ pc[t] = "thinking" BY <2>3 DEF SaveTurn
    <3>2. snap[t] \in Session /\ snap[t].hist \in Seq(Turns \cup Notes) BY <2>0 DEF Session
    <3>3. store'.hist = Append(snap[t].hist, t)
      BY <3>1, <3>2 DEF WithExchange, Session
    <3>4. Range(store'.hist) = Range(snap[t].hist) \cup {t} BY <3>2, <3>3, RangeOfAppend
    <3>. QED BY <2>0, <3>1, <3>4 DEF CopiesAgree, Exchanges, Unsaved
  <2>4. ASSUME NEW t \in Turns, FlushNotes(t), snap[t].live
        PROVE  Exchanges(store) \subseteq Range(store'.hist)
    <3>1. pc[t] = "flushing" /\ store' = [snap[t] EXCEPT !.hist = snap[t].hist \o turn[t].batch]
      BY <2>4 DEF FlushNotes
    <3>2. /\ snap[t] \in Session /\ snap[t].hist \in Seq(Turns \cup Notes)
          /\ turn[t].batch \in Seq(Turns \cup Notes)
      BY <2>0 DEF Session, Turn
    <3>3. store'.hist = snap[t].hist \o turn[t].batch BY <3>1, <3>2 DEF Session
    <3>4. Range(snap[t].hist) \subseteq Range(store'.hist) BY <3>2, <3>3, RangeOfConcat
    <3>. QED BY <2>0, <3>1, <3>4 DEF CopiesAgree, Exchanges, Unsaved
  <2>5. ASSUME NEW n \in Notes, NoteLoaded(n), snap[n].live
        PROVE  Exchanges(store) \subseteq Range(store'.hist)
    <3>1. pc[n] = "loading" /\ store' = [snap[n] EXCEPT !.hist = Append(snap[n].hist, n)]
      BY <2>5 DEF NoteLoaded
    <3>2. snap[n] \in Session /\ snap[n].hist \in Seq(Turns \cup Notes) BY <2>0 DEF Session
    <3>3. store'.hist = Append(snap[n].hist, n) BY <3>1, <3>2 DEF Session
    <3>4. Range(snap[n].hist) \subseteq Range(store'.hist) BY <3>2, <3>3, RangeOfAppend
    <3>. QED BY <2>0, <3>1, <3>4 DEF CopiesAgree, Exchanges, Unsaved
  <2>. QED BY <2>1, <2>2, <2>3, <2>4, <2>5, StoreStep
<1>. QED BY <1>1, SessionAlways, SettledAlways, PTL DEF Spec

\* So for a visitor who never ends the session, no exchange is lost at all.
THEOREM ExchangesKept ==
  ASSUME Pace = "settled", Ends = {}
  PROVE  Spec => ExchangeKept
<1>1. NoEndYet BY DEF NoEndYet
<1>2. ASSUME [NoEndYet => Range(store.hist) \cap Turns \subseteq Range(store'.hist)]_vars
      PROVE  [store.live /\ store'.live
                => Range(store.hist) \cap Turns \subseteq Range(store'.hist)]_vars
  BY <1>1, <1>2
<1>. QED BY <1>2, ExchangesKeptUntilEnd, PTL DEF ExchangeKept
===============================================================================
