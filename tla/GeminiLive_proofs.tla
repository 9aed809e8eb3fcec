---------------------------- MODULE GeminiLive_proofs ----------------------------
(***************************************************************************)
(* Proofs about GeminiLive, for any amount of speech, replies, tool calls  *)
(* and sessions.                                                           *)
(*                                                                         *)
(* NoCallForgotten is inductive.  DroppedIsNeverHeard is not: it rests on  *)
(* what Gemini can still send (Answering).  A reply can be in the middle   *)
(* of its words when it is dropped, and the flag that drops the rest of it *)
(* comes down at the end of the visitor's turn; that is safe only because  *)
(* Gemini has noticed the turn by then and gives no reply (TurnMeans), and *)
(* the next reply is a new one (Numbered).                                 *)
(***************************************************************************)
EXTENDS GeminiLive, TLAPS

-------------------------------------------------------------------------------
(* Types: one lemma for each variable *)

LEMMA Limits ==
  /\ Fragments \in Nat /\ MaxReplies \in Nat /\ MaxCalls \in Nat
  /\ MaxSessions \in Nat \ {0} /\ MaxReconnects \in Nat
BY GeminiAssumption DEF GeminiAssumption

LEMMA ReleaseTypes ==
  ASSUME LineTypeOK, NEW rs \in SUBSET Replies, NEW cs \in SUBSET Calls, ReleaseWith(rs, cs)
  PROVE  hold' \in Hold /\ words' \in Words /\ calls' \in [Calls -> CallState] /\ hist' \in Hist
<1>. USE DEF LineTypeOK, ReleaseWith
<1>1. hold' \in Hold BY DEF Hold
<1>2. words' \in Words
  <2>1. words \in Words /\ words' = [words EXCEPT !.handed = @ \o words.buf, !.buf = <<>>, !.quiet = FALSE]
    BY DEF Flushed
  <2>2. words.handed \o words.buf \in Seq(1..Fragments) /\ << >> \in Seq(1..Fragments)
    BY <2>1 DEF Words
  <2>. QED BY <2>1, <2>2 DEF Words
<1>3. calls' \in [Calls -> CallState] BY DEF CallState
<1>4. hist' \in Hist BY DEF Hist, Hold
<1>. QED BY <1>1, <1>2, <1>3, <1>4

LEMMA FlushedType == ASSUME words \in Words PROVE Flushed(words) \in Words
<1>1. words.handed \o words.buf \in Seq(1..Fragments) /\ << >> \in Seq(1..Fragments) BY DEF Words
<1>. QED BY <1>1 DEF Flushed, Words

LEMMA HeardType ==
  ASSUME LineTypeOK, gem.spoken < Fragments
  PROVE  Append(gem.wire, gem.spoken + 1) \in Seq(1..Fragments) /\ gem.spoken + 1 \in 0..Fragments
<1>1. gem.wire \in Seq(1..Fragments) /\ gem.spoken \in 0..Fragments BY DEF LineTypeOK, Gem
<1>2. gem.spoken + 1 \in 1..Fragments BY <1>1, Limits
<1>. QED BY <1>1, <1>2

LEMMA Silence == 0 \in 0..MaxReplies BY Limits

\* A connect() is only made while the model has a session left.
RoomToOpen == net.opening => net.used < MaxSessions

LEMMA RoomStays == ASSUME LineTypeOK, RoomToOpen, [LineNext]_lineVars PROVE RoomToOpen'
<1>. USE DEF RoomToOpen, LineTypeOK
<1>1. CASE UNCHANGED net BY <1>1
<1>2. CASE Visitor
  BY <1>2 DEF Visitor, TurnStart, TurnContinues, TurnResumes, TurnPauses, FinishTurn,
              SpeakToFallback, HangUp, Net
<1>3. CASE Timers
  BY <1>3 DEF Timers, JudgeTimer, ReleaseTimer, CaptionTimer, QuietTimer, StallTimer, Reconnect,
              HealthyTimer, Net
<1>4. CASE Gemini
  <2>1. ASSUME NEW quota \in BOOLEAN, SessionCloses(quota) PROVE RoomToOpen'
    BY <2>1 DEF SessionCloses, Net
  <2>2. CASE Connected \/ ConnectFails BY <2>2 DEF Connected, ConnectFails, Net
  <2>. QED BY <1>1, <1>4, <2>1, <2>2 DEF Gemini, Transcribe, NoticeInterrupt, ReplyEnds, GeminiSpeaks, GeminiCalls
<1>. QED BY <1>1, <1>2, <1>3, <1>4 DEF LineNext, RespondTool, lineVars

LEMMA VisitorTypes == ASSUME LineTypeOK, Visitor PROVE LineTypeOK'
<1>. USE Limits DEF LineTypeOK
<1>1. CASE TurnStart
  <2>1. gem.spoken < Fragments BY <1>1 DEF TurnStart, CanSpeak
  <2>2. gem' \in Gem BY <1>1, <2>1, HeardType DEF TurnStart, Gem
  <2>3. ask' \in Ask BY <1>1 DEF TurnStart, Ask
  <2>. QED BY <1>1, <2>2, <2>3 DEF TurnStart
<1>2. CASE TurnContinues
  <2>1. gem.spoken < Fragments BY <1>2 DEF TurnContinues, CanSpeak
  <2>2. gem' \in Gem BY <1>2, <2>1, HeardType DEF TurnContinues, Gem
  <2>3. ask' \in Ask BY <1>2 DEF TurnContinues, Ask
  <2>4. hold' \in Hold BY <1>2 DEF TurnContinues, Hold
  <2>5. calls' \in [Calls -> CallState] BY <1>2 DEF TurnContinues, skipTools, CallState
  <2>6. hist' \in Hist BY <1>2 DEF TurnContinues, Hist, Hold
  <2>. QED BY <1>2, <2>2, <2>3, <2>4, <2>5, <2>6 DEF TurnContinues, DiscardOutput
<1>3. CASE TurnResumes
  <2>1. gem.spoken < Fragments BY <1>3 DEF TurnResumes, CanSpeak
  <2>2. gem' \in Gem BY <1>3, <2>1, HeardType DEF TurnResumes, Say, Gem
  <2>. QED BY <1>3, <2>2 DEF TurnResumes
<1>4. CASE TurnPauses BY <1>4 DEF TurnPauses
<1>5. CASE FinishTurn
  <2>1. hold' \in Hold BY <1>5 DEF FinishTurn, Hold
  <2>2. ask' \in Ask BY <1>5 DEF FinishTurn, Ask
  <2>. DEFINE due == gem.replies < MaxReplies
  <2>4. due \in BOOLEAN /\ gem' = [gem EXCEPT !.due = due] BY <1>5 DEF FinishTurn
  <2>3. gem' \in Gem
    <3>. HIDE DEF due
    <3>. QED BY <2>4 DEF Gem
  <2>. QED BY <1>5, <2>1, <2>2, <2>3 DEF FinishTurn
<1>6. CASE SpeakToFallback
  <2>1. gem.spoken < Fragments BY <1>6 DEF SpeakToFallback, CanSpeak
  <2>. DEFINE due == gem.replies < MaxReplies
  <2>3. /\ due \in BOOLEAN
        /\ gem' = [gem EXCEPT !.spoken = @ + 1, !.wire = Append(@, gem.spoken + 1), !.reply = 0, !.due = due]
    BY <1>6 DEF SpeakToFallback
  <2>2. gem' \in Gem
    <3>. HIDE DEF due
    <3>. QED BY <2>1, <2>3, HeardType, Silence DEF Gem
  <2>. QED BY <1>6, <2>2 DEF SpeakToFallback
<1>7. CASE HangUp
  <2>1. net' \in Net BY <1>7 DEF HangUp, Net
  <2>2. ask' \in Ask BY <1>7 DEF HangUp, Ask
  <2>0. << >> \in Seq(1..Fragments) OBVIOUS
  <2>3. words' \in Words BY <1>7, <2>0 DEF HangUp, Words
  <2>4. gem' \in Gem BY <1>7, <2>0, Silence DEF HangUp, Gem
  <2>. QED BY <1>7, <2>1, <2>2, <2>3, <2>4 DEF HangUp
<1>. QED BY <1>1, <1>2, <1>3, <1>4, <1>5, <1>6, <1>7 DEF Visitor

LEMMA TimerTypes == ASSUME LineTypeOK, Timers PROVE LineTypeOK'
<1>. USE Limits DEF LineTypeOK
<1>1. CASE JudgeTimer
  <2>1. hold' \in Hold BY <1>1 DEF JudgeTimer, AfterVerdict, ArmRelease, Hold
  <2>. QED BY <1>1, <2>1 DEF JudgeTimer
<1>2. CASE ReleaseTimer BY <1>2, ReleaseTypes DEF ReleaseTimer
<1>3. CASE CaptionTimer
  <2>1. words' \in Words
    <3>1. (IF Active THEN words ELSE Flushed(words)) \in Words BY FlushedType
    <3>2. words' = [(IF Active THEN words ELSE Flushed(words)) EXCEPT !.caption = FALSE]
      BY <1>3 DEF CaptionTimer
    <3>. QED BY <3>1, <3>2 DEF Words
  <2>. QED BY <1>3, <2>1 DEF CaptionTimer
<1>4. CASE QuietTimer BY <1>4, FlushedType DEF QuietTimer
<1>5. CASE StallTimer
  <2>1. ask' \in Ask /\ net' \in Net BY ZenonT(30), <1>5 DEF StallTimer, Ask, Net
  <2>. QED BY <1>5, <2>1 DEF StallTimer
<1>6. CASE Reconnect
  <2>1. net' \in Net BY <1>6 DEF Reconnect, Net
  <2>. QED BY <1>6, <2>1 DEF Reconnect
<1>7. CASE HealthyTimer
  <2>1. net' \in Net BY <1>7 DEF HealthyTimer, Net
  <2>. QED BY <1>7, <2>1 DEF HealthyTimer
<1>. QED BY <1>1, <1>2, <1>3, <1>4, <1>5, <1>6, <1>7 DEF Timers

\* What Gemini sends: its own record, and where the visitor's words stand.
LEMMA SpeakTypes ==
  ASSUME LineTypeOK, NEW r \in Replies, NEW clarify \in BOOLEAN, GeminiSpeaks(r, clarify)
  PROVE  LineTypeOK'
<1>. USE Limits DEF LineTypeOK
<1>0. r \in 0..MaxReplies BY DEF Replies
<1>1. gem' \in Gem BY <1>0 DEF GeminiSpeaks, Gem
<1>2. ask' \in Ask BY DEF GeminiSpeaks, Ask
<1>3. UNCHANGED <<net, model, turn, discard>> BY DEF GeminiSpeaks
<1>4. hold' \in Hold /\ words' \in Words /\ calls' \in [Calls -> CallState] /\ hist' \in Hist
  <2>1. CASE discard /\ hist' = [hist EXCEPT !.dropped = @ \cup {r}] /\ UNCHANGED <<words, hold, calls>>
    BY <2>1 DEF Hist
  <2>2. CASE words' = BeforeSpeech /\ hist' = [hist EXCEPT !.heard = @ \cup {r}] /\ UNCHANGED <<hold, calls>>
    BY <2>2, FlushedType DEF Hist, BeforeSpeech, WordsFirst
  <2>3. CASE hold' = [hold EXCEPT !.replies = @ \cup {r}] /\ UNCHANGED <<words, calls, hist>>
    BY <2>3 DEF Hold
  <2>4. CASE /\ hold' = [hold EXCEPT !.replies = @ \cup {r}, !.awaitFirstWords = FALSE, !.timer = "release"]
             /\ UNCHANGED <<words, calls, hist>>
    BY <2>4 DEF Hold
  <2>5. CASE ReleaseWith({r}, {}) BY <2>5, ReleaseTypes
  <2>. QED BY <2>1, <2>2, <2>3, <2>4, <2>5 DEF GeminiSpeaks
<1>. QED BY <1>1, <1>2, <1>3, <1>4

LEMMA CallTypes ==
  ASSUME LineTypeOK, NEW r \in Replies, NEW c \in Calls, GeminiCalls(r, c)
  PROVE  LineTypeOK'
<1>. USE Limits DEF LineTypeOK
<1>0. r \in 0..MaxReplies /\ c \in 0..MaxCalls BY DEF Replies, Calls
<1>1. gem' \in Gem BY <1>0 DEF GeminiCalls, Gem
<1>2. ask' \in Ask BY DEF GeminiCalls, Ask
<1>3. UNCHANGED <<net, model, turn, discard>> BY DEF GeminiCalls
<1>4. hold' \in Hold /\ words' \in Words /\ calls' \in [Calls -> CallState] /\ hist' \in Hist
  <2>1. CASE calls' \in {[calls EXCEPT ![c] = "done"], [calls EXCEPT ![c] = "running"]}
             /\ UNCHANGED <<words, hold, hist>>
    BY <2>1 DEF CallState
  <2>2. CASE /\ hold' = [hold EXCEPT !.calls = @ \cup {c}]
             /\ calls' = [calls EXCEPT ![c] = "waiting"] /\ UNCHANGED <<words, hist>>
    BY <2>2 DEF CallState, Hold
  <2>3. CASE ReleaseWith({}, {c}) BY <2>3, ReleaseTypes
  <2>. QED BY <2>1, <2>2, <2>3 DEF GeminiCalls
<1>. QED BY <1>1, <1>2, <1>3, <1>4

LEMMA GeminiTypes == ASSUME LineTypeOK, RoomToOpen, Gemini \/ \E c \in Calls : RespondTool(c) PROVE LineTypeOK'
<1>. USE Limits DEF LineTypeOK
<1>1. CASE Transcribe
  <2>1. gem.wire \in Seq(1..Fragments) /\ gem.wire # << >> BY <1>1 DEF Transcribe, Gem
  <2>2. Tail(gem.wire) \in Seq(1..Fragments) /\ Head(gem.wire) \in 1..Fragments
    <3>1. ASSUME NEW S, NEW w \in Seq(S), w # << >> PROVE Tail(w) \in Seq(S) /\ Head(w) \in S BY <3>1
    <3>. QED BY <2>1, <3>1
  <2>3. gem' \in Gem BY <1>1, <2>2 DEF Transcribe, Gem
  <2>4. ask' \in Ask BY <1>1 DEF Transcribe, Ask
  <2>5. words' \in Words
    <3>. DEFINE soon == words.caption \/ (~hold.on /\ manualTurns /\ ~Active)
    <3>1. soon \in BOOLEAN /\ Append(words.buf, Head(gem.wire)) \in Seq(1..Fragments)
      BY <2>2 DEF Words, Hold, manualTurns, Active
    <3>2. words' = [words EXCEPT !.buf = Append(@, Head(gem.wire)), !.quiet = TRUE, !.caption = soon]
      BY <1>1 DEF Transcribe
    <3>. HIDE DEF soon
    <3>. QED BY <3>1, <3>2 DEF Words
  <2>6. hold' \in Hold BY <1>1 DEF Transcribe, Hold
  <2>. QED BY <1>1, <2>3, <2>4, <2>5, <2>6 DEF Transcribe
<1>2. CASE NoticeInterrupt
  <2>1. gem' \in Gem BY <1>2, Silence DEF NoticeInterrupt, Gem
  <2>2. calls' \in [Calls -> CallState] BY <1>2 DEF NoticeInterrupt, CallState
  <2>. QED BY <1>2, <2>1, <2>2 DEF NoticeInterrupt
<1>3. CASE ReplyEnds
  <2>1. gem' \in Gem BY <1>3, Silence DEF ReplyEnds, Gem
  <2>. QED BY <1>3, <2>1, FlushedType DEF ReplyEnds, WordsFirst
<1>4. CASE Connected
  <2>1. net.used + 1 \in Sessions /\ net.used + 1 \in 0..MaxSessions
    BY <1>4 DEF Connected, Net, Sessions, RoomToOpen
  <2>2. net' \in Net BY <1>4, <2>1 DEF Connected, Net
  <2>3. ask' \in Ask BY <1>4 DEF Connected, Ask, AsksAgain, ReAsk
  <2>4. gem' \in Gem
    <3>. DEFINE due == AsksAgain /\ net.call = "on" /\ gem.replies < MaxReplies
    <3>1. due \in BOOLEAN /\ gem' = [gem EXCEPT !.due = due] BY <1>4 DEF Connected
    <3>. HIDE DEF due
    <3>. QED BY <3>1 DEF Gem
  <2>. QED BY <1>4, <2>2, <2>3, <2>4 DEF Connected
<1>5. CASE ConnectFails
  <2>1. net' \in Net BY <1>5 DEF ConnectFails, Net
  <2>. QED BY <1>5, <2>1 DEF ConnectFails
<1>6. ASSUME NEW quota \in BOOLEAN, SessionCloses(quota) PROVE LineTypeOK'
  <2>1. net' \in Net
    <3>. DEFINE again == net.budget < MaxReconnects
    <3>1. again \in BOOLEAN /\ (again => net.budget + 1 \in 0..MaxReconnects) BY DEF Net
    <3>2. net' = [net EXCEPT !.session = 0, !.closing = FALSE, !.open = @ \ {net.session},
                             !.retry = again, !.budget = IF again THEN @ + 1 ELSE @]
      BY <1>6 DEF SessionCloses, TriesAgain
    <3>. HIDE DEF again
    <3>. QED BY <3>1, <3>2 DEF Net
  <2>2. ask' \in Ask BY <1>6 DEF SessionCloses, Ask
  <2>3. << >> \in Seq(1..Fragments) OBVIOUS
  <2>4. gem' \in Gem BY <1>6, <2>3, Silence DEF SessionCloses, Gem
  <2>5. calls' \in [Calls -> CallState] BY <1>6 DEF SessionCloses, CallState
  <2>. QED BY <1>6, <2>1, <2>2, <2>4, <2>5 DEF SessionCloses
<1>7. ASSUME NEW c \in Calls, RespondTool(c) PROVE LineTypeOK'
  BY <1>7 DEF RespondTool, CallState
<1>. QED BY <1>1, <1>2, <1>3, <1>4, <1>5, <1>6, <1>7, SpeakTypes, CallTypes DEF Gemini

LEMMA LineTypes == LineTypeOK /\ RoomToOpen /\ [LineNext]_lineVars => LineTypeOK'
<1>1. LineTypeOK /\ UNCHANGED lineVars => LineTypeOK' BY DEF LineTypeOK, lineVars
<1>. QED BY <1>1, VisitorTypes, TimerTypes, GeminiTypes DEF LineNext

-------------------------------------------------------------------------------
(* What a turn of the visitor means *)

\* Only the primary model has turns of ours, and only on a session; while one is under
\* way nothing is held, Gemini owes no answer, and once it has noticed the turn it gives none.
TurnMeans ==
  /\ model = "fallback" => turn = "idle"
  /\ net.session = 0 /\ net.call = "on" => turn = "idle"
  /\ net.retry \/ net.opening => net.session = 0
  /\ ~(net.retry /\ net.opening)
  /\ turn # "idle" => ~hold.on /\ ~gem.due
  /\ turn # "idle" /\ ~gem.interrupt => gem.reply = 0

LEMMA VisitorMeans == ASSUME LineTypeOK, TurnMeans, Visitor PROVE TurnMeans'
<1>. USE DEF LineTypeOK, TurnMeans
<1>1. CASE TurnStart BY <1>1 DEF TurnStart, CanSpeak, Up, manualTurns, Gem
<1>2. CASE TurnContinues BY <1>2 DEF TurnContinues, CanSpeak, Up, manualTurns, Gem, Hold
<1>3. CASE TurnResumes BY <1>3 DEF TurnResumes, CanSpeak, Up, Say, Gem
<1>4. CASE TurnPauses BY <1>4 DEF TurnPauses, Up, Active
<1>5. CASE FinishTurn BY <1>5 DEF FinishTurn
<1>6. CASE SpeakToFallback BY <1>6 DEF SpeakToFallback, manualTurns, Gem
<1>7. CASE HangUp BY <1>7 DEF HangUp, Gem, Net
<1>. QED BY <1>1, <1>2, <1>3, <1>4, <1>5, <1>6, <1>7 DEF Visitor

LEMMA TimersMean == ASSUME LineTypeOK, TurnMeans, Timers PROVE TurnMeans'
<1>. USE DEF LineTypeOK, TurnMeans
<1>1. CASE JudgeTimer BY <1>1 DEF JudgeTimer, Hold
<1>2. CASE ReleaseTimer BY <1>2 DEF ReleaseTimer, ReleaseWith
<1>3. CASE CaptionTimer \/ QuietTimer BY <1>3 DEF CaptionTimer, QuietTimer
<1>4. CASE StallTimer BY <1>4 DEF StallTimer, Net
<1>5. CASE Reconnect BY <1>5 DEF Reconnect, Net
<1>6. CASE HealthyTimer BY <1>6 DEF HealthyTimer, Net
<1>. QED BY <1>1, <1>2, <1>3, <1>4, <1>5, <1>6 DEF Timers

LEMMA GeminiMeans == ASSUME LineTypeOK, TurnMeans, Gemini PROVE TurnMeans'
<1>. USE DEF LineTypeOK, TurnMeans
<1>1. CASE Transcribe BY <1>1 DEF Transcribe, Gem, Hold
<1>2. CASE NoticeInterrupt BY <1>2 DEF NoticeInterrupt, Gem
<1>3. CASE ReplyEnds BY <1>3 DEF ReplyEnds, Gem
<1>4. CASE Connected
  <2>1. turn = "idle" \/ net.call # "on" BY <1>4 DEF Connected
  <2>. QED BY <1>4, <2>1 DEF Connected, Gem, Net
<1>5. CASE ConnectFails BY <1>5 DEF ConnectFails, Net
<1>6. ASSUME NEW quota \in BOOLEAN, SessionCloses(quota) PROVE TurnMeans'
  <2>1. net'.session = 0 /\ ~net.opening /\ net'.opening = net.opening /\ net'.call = net.call
        /\ turn' = "idle"
    BY <1>6 DEF SessionCloses, Net
  <2>. QED BY <2>1
<1>7. ASSUME NEW r \in Replies, Answering(r), turn # "idle" PROVE gem.interrupt
  BY <1>7 DEF Answering, Replies, Gem
<1>8. ASSUME NEW r \in Replies, NEW clarify \in BOOLEAN, GeminiSpeaks(r, clarify) PROVE TurnMeans'
  <2>1. UNCHANGED <<net, model, turn>> /\ gem'.interrupt = gem.interrupt /\ gem'.due = FALSE
    BY <1>8 DEF GeminiSpeaks, Gem
  <2>2. hold'.on => hold.on
    <3>1. CASE UNCHANGED hold BY <3>1
    <3>2. CASE Kept BY <3>2 DEF Kept
    <3>. QED BY <1>8, <3>1, <3>2 DEF GeminiSpeaks
  <2>. QED BY <1>7, <1>8, <2>1, <2>2 DEF GeminiSpeaks
<1>9. ASSUME NEW r \in Replies, NEW c \in Calls, GeminiCalls(r, c) PROVE TurnMeans'
  <2>1. UNCHANGED <<net, model, turn>> /\ gem'.interrupt = gem.interrupt /\ gem'.due = FALSE
        /\ (hold'.on => hold.on)
    BY <1>9 DEF GeminiCalls, ReleaseWith, Gem, Hold
  <2>. QED BY <1>7, <1>9, <2>1 DEF GeminiCalls
<1>. QED BY <1>1, <1>2, <1>3, <1>4, <1>5, <1>6, <1>8, <1>9 DEF Gemini

LEMMA TurnStep == LineTypeOK /\ TurnMeans /\ [LineNext]_lineVars => TurnMeans'
<1>1. TurnMeans /\ UNCHANGED lineVars => TurnMeans' BY DEF TurnMeans, lineVars
<1>2. ASSUME TurnMeans, NEW c \in Calls, RespondTool(c) PROVE TurnMeans'
  BY <1>2 DEF TurnMeans, RespondTool
<1>. QED BY <1>1, <1>2, VisitorMeans, TimersMean, GeminiMeans DEF LineNext

-------------------------------------------------------------------------------
(* Where a reply can be *)

\* Replies are numbered as Gemini begins them; the one it is giving is the last.
Numbered ==
  /\ gem.reply \in {0, gem.replies}
  /\ hist.heard \cup hist.dropped \cup hold.replies \subseteq 1..gem.replies

\* Heard, dropped and held replies are apart; what is being given can still be heard, or
\* dropped, according to where its beginning went.
Apart ==
  /\ hist.heard \cap hist.dropped = {}
  /\ hold.replies \cap (hist.heard \cup hist.dropped) = {}
  /\ ~hold.on => hold.replies = {}
  /\ discard => ~hold.on
  /\ gem.reply # 0 /\ ~discard => gem.reply \notin hist.dropped
  /\ gem.reply # 0 /\ (hold.on \/ discard) => gem.reply \notin hist.heard

ReplyInv == Numbered /\ Apart

LEMMA VisitorReplies == ASSUME LineTypeOK, TurnMeans, ReplyInv, Visitor PROVE ReplyInv'
<1>. USE DEF LineTypeOK, ReplyInv, Numbered, Apart
<1>1. CASE TurnStart BY <1>1 DEF TurnStart, Gem
<1>2. CASE TurnContinues
  <2>1. /\ gem'.reply = gem.reply /\ gem'.replies = gem.replies
        /\ hold'.on = FALSE /\ hold'.replies = {} /\ discard' = TRUE /\ hold.on
        /\ hist'.heard = hist.heard /\ hist'.dropped = hist.dropped \cup hold.replies
    BY <1>2 DEF TurnContinues, DiscardOutput, Gem, Hold, Hist
  <2>. QED BY <2>1
<1>3. CASE TurnResumes BY <1>3 DEF TurnResumes, Say, Gem
<1>4. CASE TurnPauses BY <1>4 DEF TurnPauses
<1>5. CASE FinishTurn
  <2>1. gem.reply = 0 /\ ~hold.on BY <1>5 DEF FinishTurn, TurnMeans
  <2>. QED BY <1>5, <2>1 DEF FinishTurn, Gem, Hold
<1>6. CASE SpeakToFallback BY <1>6 DEF SpeakToFallback, Gem
<1>7. CASE HangUp BY <1>7 DEF HangUp, Gem
<1>. QED BY <1>1, <1>2, <1>3, <1>4, <1>5, <1>6, <1>7 DEF Visitor

LEMMA TimerReplies == ASSUME LineTypeOK, ReplyInv, Timers PROVE ReplyInv'
<1>. USE DEF LineTypeOK, ReplyInv, Numbered, Apart
<1>1. CASE JudgeTimer BY <1>1 DEF JudgeTimer, Hold
<1>2. CASE ReleaseTimer
  <2>1. /\ hold'.on = FALSE /\ hold'.replies = {} /\ hist'.dropped = hist.dropped
        /\ hist'.heard = hist.heard \cup hold.replies /\ UNCHANGED <<gem, discard>>
    BY <1>2 DEF ReleaseTimer, ReleaseWith, Hist
  <2>2. CASE hold.on BY <2>1, <2>2
  <2>3. CASE ~hold.on BY <2>1, <2>3
  <2>. QED BY <2>2, <2>3
<1>3. CASE CaptionTimer \/ QuietTimer BY <1>3 DEF CaptionTimer, QuietTimer
<1>4. CASE StallTimer \/ Reconnect \/ HealthyTimer BY <1>4 DEF StallTimer, Reconnect, HealthyTimer
<1>. QED BY <1>1, <1>2, <1>3, <1>4 DEF Timers

LEMMA SpeakReplies ==
  ASSUME LineTypeOK, ReplyInv, NEW r \in Replies, NEW clarify \in BOOLEAN, GeminiSpeaks(r, clarify)
  PROVE  ReplyInv'
<1>. USE DEF LineTypeOK, ReplyInv, Numbered, Apart
<1>1. /\ gem'.reply = r /\ gem'.replies = r /\ discard' = discard
      /\ r \in Nat \ {0} /\ gem.replies \in Nat
      /\ (gem.reply = r /\ gem.replies = r) \/ r = gem.replies + 1
  BY DEF GeminiSpeaks, Answering, Gem, Replies
<1>2. /\ 1..gem.replies \subseteq 1..r
      /\ ~discard => r \notin hist.dropped
      /\ hold.on \/ discard => r \notin hist.heard
  BY <1>1
<1>3. CASE discard /\ hist' = [hist EXCEPT !.dropped = @ \cup {r}] /\ UNCHANGED hold
  <2>1. hist'.dropped = hist.dropped \cup {r} /\ hist'.heard = hist.heard BY <1>3 DEF Hist
  <2>. QED BY <1>1, <1>2, <1>3, <2>1
<1>4. CASE Passes /\ hist' = [hist EXCEPT !.heard = @ \cup {r}] /\ UNCHANGED hold
  <2>1. hist'.heard = hist.heard \cup {r} /\ hist'.dropped = hist.dropped BY <1>4 DEF Hist
  <2>. QED BY <1>1, <1>2, <1>4, <2>1 DEF Passes
<1>5. CASE Kept /\ hold'.on = TRUE /\ hold'.replies = hold.replies \cup {r} /\ UNCHANGED hist
  BY <1>1, <1>2, <1>5 DEF Kept
<1>6. CASE Kept /\ ReleaseWith({r}, {})
  <2>1. /\ hist'.heard = hist.heard \cup hold.replies \cup {r} /\ hist'.dropped = hist.dropped
        /\ hold'.on = FALSE /\ hold'.replies = {}
    BY <1>6 DEF ReleaseWith, Hist
  <2>. QED BY <1>1, <1>2, <1>6, <2>1 DEF Kept
<1>. QED BY <1>3, <1>4, <1>5, <1>6 DEF GeminiSpeaks, Kept, Hold

LEMMA CallReplies ==
  ASSUME LineTypeOK, ReplyInv, NEW r \in Replies, NEW c \in Calls, GeminiCalls(r, c)
  PROVE  ReplyInv'
<1>. USE DEF LineTypeOK, ReplyInv, Numbered, Apart
<1>1. /\ gem'.reply = r /\ gem'.replies = r /\ discard' = discard
      /\ r \in Nat \ {0} /\ gem.replies \in Nat
      /\ (gem.reply = r /\ gem.replies = r) \/ r = gem.replies + 1
  BY DEF GeminiCalls, Answering, Gem, Replies
<1>2. /\ 1..gem.replies \subseteq 1..r
      /\ ~discard => r \notin hist.dropped
      /\ hold.on \/ discard => r \notin hist.heard
  BY <1>1
<1>3. CASE UNCHANGED <<hold, hist>> BY <1>1, <1>2, <1>3
<1>4. CASE hold' = [hold EXCEPT !.calls = @ \cup {c}] /\ UNCHANGED hist
  <2>1. hold'.on = hold.on /\ hold'.replies = hold.replies BY <1>4 DEF Hold
  <2>. QED BY <1>1, <1>2, <1>4, <2>1
<1>5. CASE Kept /\ ReleaseWith({}, {c})
  <2>1. /\ hist'.heard = hist.heard \cup hold.replies /\ hist'.dropped = hist.dropped
        /\ hold'.on = FALSE /\ hold'.replies = {}
    BY <1>5 DEF ReleaseWith, Hist
  <2>. QED BY <1>1, <1>2, <1>5, <2>1 DEF Kept
<1>. QED BY <1>3, <1>4, <1>5 DEF GeminiCalls

LEMMA ReplyStep ==
  LineTypeOK /\ TurnMeans /\ ReplyInv /\ [LineNext]_lineVars => ReplyInv'
<1>. SUFFICES ASSUME LineTypeOK, TurnMeans, ReplyInv, [LineNext]_lineVars PROVE ReplyInv'
  OBVIOUS
<1>1. ASSUME UNCHANGED <<hist, discard>>, hold'.on = hold.on, hold'.replies = hold.replies,
             gem'.replies = gem.replies, gem'.reply \in {0, gem.reply}
      PROVE  ReplyInv'
  BY <1>1 DEF ReplyInv, Numbered, Apart
<1>2. CASE Transcribe BY <1>1, <1>2 DEF Transcribe, LineTypeOK, Gem, Hold
<1>3. CASE NoticeInterrupt BY <1>1, <1>3 DEF NoticeInterrupt, LineTypeOK, Gem
<1>4. CASE ReplyEnds BY <1>1, <1>4 DEF ReplyEnds, LineTypeOK, Gem
<1>5. CASE Connected BY <1>1, <1>5 DEF Connected, LineTypeOK, Gem
<1>6. CASE ConnectFails BY <1>1, <1>6 DEF ConnectFails
<1>7. ASSUME NEW quota \in BOOLEAN, SessionCloses(quota) PROVE ReplyInv'
  BY <1>1, <1>7 DEF SessionCloses, LineTypeOK, Gem
<1>8. ASSUME NEW c \in Calls, RespondTool(c) PROVE ReplyInv'
  BY <1>1, <1>8 DEF RespondTool
<1>9. CASE UNCHANGED lineVars BY <1>1, <1>9 DEF lineVars
<1>. QED BY <1>2, <1>3, <1>4, <1>5, <1>6, <1>7, <1>8, <1>9, VisitorReplies, TimerReplies,
           SpeakReplies, CallReplies DEF LineNext, Gemini

-------------------------------------------------------------------------------
(* Tool calls *)

\* A release passes on whatever is held.
LEMMA ReleaseForgetsNone ==
  ASSUME LineTypeOK, NoCallForgotten, NEW rs, NEW cs \in SUBSET Calls, ReleaseWith(rs, cs)
  PROVE  NoCallForgotten'
BY DEF ReleaseWith, NoCallForgotten, LineTypeOK

LEMMA CallStep == LineTypeOK /\ NoCallForgotten /\ [LineNext]_lineVars => NoCallForgotten'
<1>. SUFFICES ASSUME LineTypeOK, NoCallForgotten, [LineNext]_lineVars PROVE NoCallForgotten'
  OBVIOUS
<1>. USE DEF NoCallForgotten, LineTypeOK
<1>1. ASSUME UNCHANGED calls, hold.on => hold'.on, hold'.calls = hold.calls PROVE NoCallForgotten'
  BY <1>1
<1>2. CASE Visitor
  <2>1. CASE TurnContinues BY <2>1 DEF TurnContinues, skipTools
  <2>2. CASE FinishTurn BY <2>2 DEF FinishTurn, Hold
  <2>. QED BY <1>1, <1>2, <2>1, <2>2 DEF Visitor, TurnStart, TurnResumes, TurnPauses, SpeakToFallback, HangUp
<1>3. CASE Timers
  <2>1. CASE JudgeTimer BY <1>1, <2>1 DEF JudgeTimer, Hold
  <2>2. CASE ReleaseTimer BY <2>2, ReleaseForgetsNone DEF ReleaseTimer
  <2>. QED BY <1>1, <1>3, <2>1, <2>2 DEF Timers, CaptionTimer, QuietTimer, StallTimer, Reconnect, HealthyTimer
<1>4. ASSUME NEW r \in Replies, NEW clarify \in BOOLEAN, GeminiSpeaks(r, clarify) PROVE NoCallForgotten'
  <2>1. CASE ReleaseWith({r}, {}) BY <2>1, ReleaseForgetsNone
  <2>2. CASE ~ReleaseWith({r}, {})
    <3>1. UNCHANGED calls BY <1>4, <2>2 DEF GeminiSpeaks
    <3>2. hold'.on = hold.on /\ hold'.calls = hold.calls
      <4>1. CASE hold' = hold BY <4>1
      <4>2. CASE \/ hold' = [hold EXCEPT !.replies = @ \cup {r}]
                 \/ hold' = [hold EXCEPT !.replies = @ \cup {r}, !.awaitFirstWords = FALSE, !.timer = "release"]
        BY <4>2 DEF Hold
      <4>. QED BY <1>4, <2>2, <4>1, <4>2 DEF GeminiSpeaks
    <3>. QED BY <1>1, <3>1, <3>2
  <2>. QED BY <2>1, <2>2
<1>5. ASSUME NEW r \in Replies, NEW c \in Calls, GeminiCalls(r, c) PROVE NoCallForgotten'
  <2>1. CASE ReleaseWith({}, {c}) BY <2>1, ReleaseForgetsNone
  <2>2. CASE Kept /\ hold' = [hold EXCEPT !.calls = @ \cup {c}] /\ calls' = [calls EXCEPT ![c] = "waiting"]
    <3>1. hold'.on /\ hold'.calls = hold.calls \cup {c} BY <2>2 DEF Kept, Hold
    <3>. QED BY <2>2, <3>1
  <2>3. CASE UNCHANGED hold /\ calls' \in {[calls EXCEPT ![c] = "done"], [calls EXCEPT ![c] = "running"]}
    BY <2>3
  <2>. QED BY <1>5, <2>1, <2>2, <2>3 DEF GeminiCalls
<1>6. CASE Transcribe BY <1>1, <1>6 DEF Transcribe, Hold
<1>7. CASE NoticeInterrupt BY <1>7 DEF NoticeInterrupt
<1>8. CASE ReplyEnds \/ Connected \/ ConnectFails BY <1>1, <1>8 DEF ReplyEnds, Connected, ConnectFails
<1>9. ASSUME NEW quota \in BOOLEAN, SessionCloses(quota) PROVE NoCallForgotten'
  BY <1>9 DEF SessionCloses
<1>10. ASSUME NEW c \in Calls, RespondTool(c) PROVE NoCallForgotten'
  BY <1>10 DEF RespondTool
<1>11. CASE UNCHANGED lineVars BY <1>1, <1>11 DEF lineVars
<1>. QED BY <1>2, <1>3, <1>4, <1>5, <1>6, <1>7, <1>8, <1>9, <1>10, <1>11 DEF LineNext, Gemini

-------------------------------------------------------------------------------
(* The theorems *)

LineInv == LineTypeOK /\ RoomToOpen /\ TurnMeans /\ ReplyInv /\ NoCallForgotten

LEMMA LineInitially == ASSUME LineInit PROVE LineInv
<1>1. 1 \in Sessions /\ 0 \in 0..MaxSessions /\ 1 \in 0..MaxSessions BY Limits DEF Sessions
<1>. << >> \in Seq(1..Fragments) OBVIOUS
<1>2. net \in Net BY <1>1, Limits DEF LineInit, Net
<1>3. gem \in Gem BY Limits DEF LineInit, Gem
<1>4. hold \in Hold /\ words \in Words /\ ask \in Ask BY DEF LineInit, Hold, Words, Ask
<1>5. calls \in [Calls -> CallState] /\ hist \in Hist BY DEF LineInit, CallState, Hist
<1>6. LineTypeOK BY <1>2, <1>3, <1>4, <1>5 DEF LineInit, LineTypeOK
<1>7. RoomToOpen /\ TurnMeans BY DEF LineInit, RoomToOpen, TurnMeans
<1>8. ReplyInv BY DEF LineInit, ReplyInv, Numbered, Apart
<1>9. NoCallForgotten BY DEF LineInit, NoCallForgotten
<1>. QED BY <1>6, <1>7, <1>8, <1>9 DEF LineInv

LEMMA LineInvariant == LineSpec => []LineInv
<1>1. LineInit => LineInv BY LineInitially
<1>2. LineInv /\ [LineNext]_lineVars => LineInv'
  <2>. SUFFICES ASSUME LineInv, [LineNext]_lineVars PROVE LineInv' OBVIOUS
  <2>1. LineTypeOK' /\ RoomToOpen' BY LineTypes, RoomStays DEF LineInv
  <2>. QED BY <2>1, TurnStep, ReplyStep, CallStep DEF LineInv
<1>. QED BY <1>1, <1>2, PTL DEF LineSpec

\* The transport's variables keep their types: no sequence of callbacks breaks them.
THEOREM TypeCorrect == LineSpec => []LineTypeOK
<1>1. LineInv => LineTypeOK BY DEF LineInv
<1>. QED BY <1>1, LineInvariant, PTL

\* When the visitor carries on, the reply to the first half of what they said is never
\* heard, whenever its parts, the timers, closes and reconnects come.
THEOREM FirstHalfUnheard == LineSpec => []DroppedIsNeverHeard
<1>1. LineInv => DroppedIsNeverHeard BY DEF LineInv, ReplyInv, Apart, DroppedIsNeverHeard
<1>. QED BY <1>1, LineInvariant, PTL

\* No tool call of Gemini is lost between the hold and the action layer.
THEOREM CallsAccounted == LineSpec => []NoCallForgotten
<1>1. LineInv => NoCallForgotten BY DEF LineInv
<1>. QED BY <1>1, LineInvariant, PTL

\* Olivia's first words never overtake the visitor's words they answer.
THEOREM WordsComeFirst == LineSpec => WordsBeforeReply
<1>1. LineInv /\ [LineNext]_lineVars => [hist'.heard # hist.heard /\ ~Active => words'.buf = << >>]_lineVars
  <2>. SUFFICES ASSUME LineInv, LineNext, hist'.heard # hist.heard, ~Active PROVE words'.buf = << >>
    OBVIOUS
  <2>. USE DEF LineInv, LineTypeOK
  <2>1. ASSUME words' = Flushed(words) PROVE words'.buf = << >> BY <2>1 DEF Flushed, Words
  <2>2. ASSUME NEW rs, NEW cs, ReleaseWith(rs, cs) PROVE words'.buf = << >>
    BY <2>1, <2>2 DEF ReleaseWith
  <2>3. ASSUME UNCHANGED hist PROVE FALSE BY <2>3
  <2>4. CASE Visitor
    <3>1. ~TurnContinues BY DEF TurnContinues, Hist
    <3>. QED BY <2>3, <2>4, <3>1 DEF Visitor, TurnStart, TurnResumes, TurnPauses, FinishTurn, SpeakToFallback, HangUp
  <2>5. CASE Timers
    BY <2>2, <2>3, <2>5 DEF Timers, JudgeTimer, ReleaseTimer, CaptionTimer, QuietTimer, StallTimer,
                           Reconnect, HealthyTimer
  <2>6. ASSUME NEW r \in Replies, NEW clarify \in BOOLEAN, GeminiSpeaks(r, clarify) PROVE words'.buf = << >>
    <3>1. CASE discard /\ hist' = [hist EXCEPT !.dropped = @ \cup {r}] BY <3>1 DEF Hist
    <3>2. CASE Passes /\ words' = BeforeSpeech BY <2>1, <3>2 DEF Passes, BeforeSpeech, WordsFirst
    <3>. QED BY <2>2, <2>3, <2>6, <3>1, <3>2 DEF GeminiSpeaks
  <2>7. ASSUME NEW r \in Replies, NEW c \in Calls, GeminiCalls(r, c) PROVE words'.buf = << >>
    BY <2>2, <2>3, <2>7 DEF GeminiCalls
  <2>8. CASE Transcribe \/ NoticeInterrupt \/ ReplyEnds \/ Connected \/ ConnectFails
    BY <2>3, <2>8 DEF Transcribe, NoticeInterrupt, ReplyEnds, Connected, ConnectFails
  <2>9. ASSUME NEW quota \in BOOLEAN, SessionCloses(quota) PROVE FALSE BY <2>3, <2>9 DEF SessionCloses
  <2>10. ASSUME NEW c \in Calls, RespondTool(c) PROVE FALSE BY <2>3, <2>10 DEF RespondTool
  <2>. QED BY <2>4, <2>5, <2>6, <2>7, <2>8, <2>9, <2>10 DEF LineNext, Gemini
<1>. QED BY <1>1, LineInvariant, PTL DEF LineSpec, WordsBeforeReply
===============================================================================
