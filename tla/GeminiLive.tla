------------------------------- MODULE GeminiLive -------------------------------
(***************************************************************************)
(* The transport of a voice call to the Gemini Live model:                 *)
(* apps/voice-agent/src/geminiSdkTransport.ts with its turn detector and   *)
(* its input flusher.                                                      *)
(*                                                                         *)
(* All of it runs in one thread.  What interleaves are the callbacks: the  *)
(* detector on the visitor's audio, the messages and the close of the      *)
(* Gemini session, and the timers.  A timer is a flag here, an action that *)
(* is enabled while the flag is up and takes it down; no delay is compared *)
(* with another, except where an action says so.  The visitor's speech is  *)
(* a sequence of fragments, and what Olivia says in answer to one turn is  *)
(* a reply.  The audio cue of a pause and the captions are left out.       *)
(***************************************************************************)
EXTENDS Naturals, FiniteSets, Sequences

CONSTANTS
  Fragments,      \* how much the visitor says: fragments 1..Fragments
  MaxReplies,     \* bound on Olivia's replies
  MaxCalls,       \* bound on the tool calls she makes
  MaxSessions,    \* bound on the Gemini sessions of one call
  MaxReconnects   \* MAX_RECONNECTS

ASSUME GeminiAssumption ==
  {Fragments, MaxReplies, MaxCalls, MaxReconnects} \subseteq Nat /\ MaxSessions \in Nat \ {0}

VARIABLES
  net,      \* the connection: session, the reconnect, and what Gemini keeps open
  model,    \* the live model of the call
  turn,     \* the turn detector, and whether the end of a turn awaits its confirmation
  hold,     \* the held reply
  discard,  \* discardOutput
  words,    \* the input flusher
  ask,      \* the stall timer and the question to ask again
  gem,      \* Gemini: what it has yet to transcribe and to say (environment)
  calls,    \* the tool calls, by number: where each one is
  hist      \* what the visitor heard and what was thrown away (history)

lineVars == <<net, model, turn, hold, discard, words, ask, gem, calls, hist>>

Replies == 1..MaxReplies
Calls == 1..MaxCalls
Sessions == 1..MaxSessions
Net == [call    : {"on", "over"},
        session : {0} \cup Sessions,    \* session, 0 for null
        closing : BOOLEAN,              \* we closed it; onclose is to come
        retry   : BOOLEAN,              \* the setTimeout of a reconnect
        opening : BOOLEAN,              \* a connect() that has not resolved
        budget  : 0..MaxReconnects,     \* reconnects
        used    : 0..MaxSessions,
        open    : SUBSET Sessions]      \* what is open at Gemini
Hold == [on : BOOLEAN, awaitFirstWords : BOOLEAN, timer : {"none", "judge", "release"},
         replies : SUBSET Replies, calls : SUBSET Calls]
Words == [buf : Seq(1..Fragments), handed : Seq(1..Fragments), quiet : BOOLEAN, caption : BOOLEAN]
Ask == [stall : BOOLEAN, unanswered : BOOLEAN, pending : BOOLEAN]
Gem == [wire : Seq(1..Fragments),       \* heard, not transcribed yet
        due  : BOOLEAN,                 \* it is to answer
        reply : 0..MaxReplies,          \* the reply it is giving
        interrupt : BOOLEAN,            \* a turn began that it has not noticed yet
        spoken : 0..Fragments, replies : 0..MaxReplies, calls : 0..MaxCalls]  \* used so far
CallState == {"none", "waiting", "running", "done", "lost"}
Hist == [heard : SUBSET Replies, dropped : SUBSET Replies]

LineInit ==
  /\ net = [call |-> "on", session |-> 1, closing |-> FALSE, retry |-> FALSE, opening |-> FALSE,
            budget |-> 0, used |-> 1, open |-> {1}]
  /\ model = "primary" /\ turn = "idle" /\ discard = FALSE
  /\ hold = [on |-> FALSE, awaitFirstWords |-> FALSE, timer |-> "none", replies |-> {}, calls |-> {}]
  /\ words = [buf |-> <<>>, handed |-> <<>>, quiet |-> FALSE, caption |-> FALSE]
  /\ ask = [stall |-> FALSE, unanswered |-> FALSE, pending |-> FALSE]
  /\ gem = [wire |-> <<>>, due |-> FALSE, reply |-> 0, interrupt |-> FALSE,
            spoken |-> 0, replies |-> 0, calls |-> 0]
  /\ calls = [c \in Calls |-> "none"]
  /\ hist = [heard |-> {}, dropped |-> {}]

-------------------------------------------------------------------------------
manualTurns == model = "primary"          \* liveModelOptions: our detector, on the primary only
Active == turn = "open"                   \* turns.active()
Up == net.session # 0 /\ ~net.closing

\* flush: the words so far go to the action layer.
Flushed(w) == [w EXCEPT !.handed = @ \o w.buf, !.buf = <<>>, !.quiet = FALSE]

\* release: the visitor's words first, then what was held, with what settled the turn.
ReleaseWith(replies, cs) ==
  /\ hold' = [on |-> FALSE, awaitFirstWords |-> FALSE, timer |-> "none", replies |-> {}, calls |-> {}]
  /\ words' = Flushed(words)
  /\ calls' = [c \in Calls |-> IF c \in hold.calls \cup cs THEN "running" ELSE calls[c]]
  /\ hist' = [hist EXCEPT !.heard = @ \cup hold.replies \cup replies]

-------------------------------------------------------------------------------
(* The visitor speaks: the turn detector of the primary model *)

Say == gem' = [gem EXCEPT !.spoken = @ + 1, !.wire = Append(@, gem.spoken + 1)]

CanSpeak == net.call = "on" /\ Up /\ gem.spoken < Fragments

\* onStart on a quiet line.
TurnStart ==
  /\ CanSpeak /\ manualTurns /\ turn = "idle" /\ ~hold.on
  /\ turn' = "open"
  /\ ask' = [ask EXCEPT !.stall = FALSE]
  /\ gem' = [gem EXCEPT !.spoken = @ + 1, !.wire = Append(@, gem.spoken + 1),
                        !.interrupt = gem.due \/ gem.reply # 0, !.due = FALSE]
  /\ UNCHANGED <<net, model, hold, discard, words, calls, hist>>

KeepOutput == discard                                                  \* mutant
DiscardOutput == TRUE
SkipNone(cs) == calls                                                  \* mutant
skipTools(cs) == [c \in Calls |-> IF c \in cs THEN "done" ELSE calls[c]]

\* onStart while a reply is held: the visitor carried on, the reply is dropped and
\* its tool calls are answered "skipped".
TurnContinues ==
  /\ CanSpeak /\ manualTurns /\ turn = "idle" /\ hold.on
  /\ turn' = "open"
  /\ hold' = [hold EXCEPT !.on = FALSE, !.timer = "none", !.replies = {}, !.calls = {}]
  /\ discard' = DiscardOutput
  /\ calls' = skipTools(hold.calls)
  /\ hist' = [hist EXCEPT !.dropped = @ \cup hold.replies]
  /\ ask' = [ask EXCEPT !.stall = FALSE]
  /\ gem' = [gem EXCEPT !.spoken = @ + 1, !.wire = Append(@, gem.spoken + 1),
                        !.interrupt = gem.due \/ gem.reply # 0, !.due = FALSE]
  /\ UNCHANGED <<net, model, words>>

\* onStart before the end was confirmed: the same turn goes on.
TurnResumes ==
  /\ CanSpeak /\ manualTurns /\ turn = "ending"
  /\ turn' = "open"
  /\ Say
  /\ UNCHANGED <<net, model, hold, discard, words, ask, calls, hist>>

\* onEnd after a silence: the end awaits its confirmation.
TurnPauses ==
  /\ Up /\ net.call = "on" /\ Active
  /\ turn' = "ending"
  /\ UNCHANGED <<net, model, hold, discard, words, ask, gem, calls, hist>>

\* finishTurn, when the end is confirmed, or at once after the longest turn.  Gemini has
\* noticed the start of a turn (tens of milliseconds) when its end is sent (0.8 s or more).
FinishTurn ==
  /\ Up /\ net.call = "on" /\ turn \in {"ending", "open"} /\ manualTurns /\ ~gem.interrupt
  /\ turn' = "idle"
  /\ discard' = FALSE
  /\ hold' = [hold EXCEPT !.on = TRUE, !.timer = "release"]
  /\ ask' = [ask EXCEPT !.stall = TRUE]
  /\ gem' = [gem EXCEPT !.due = gem.replies < MaxReplies]
  /\ UNCHANGED <<net, model, words, calls, hist>>

\* On the fallback model the frames go to Gemini, which finds the turns itself.
SpeakToFallback ==
  /\ CanSpeak /\ ~manualTurns
  /\ gem' = [gem EXCEPT !.spoken = @ + 1, !.wire = Append(@, gem.spoken + 1),
                        !.reply = 0, !.due = gem.replies < MaxReplies]
  /\ UNCHANGED <<net, model, turn, hold, discard, words, ask, calls, hist>>

-------------------------------------------------------------------------------
(* The timers of the hold and of the flusher *)

\* 120 ms after a piece of transcript: does the visitor sound finished?  The verdict
\* (utteranceHold) is left open.
ArmRelease == "release"
ArmNothing == "none"                                                   \* mutant
AfterVerdict == ArmRelease

JudgeTimer ==
  /\ hold.timer = "judge"
  /\ \/ hold' = [hold EXCEPT !.awaitFirstWords = TRUE, !.timer = AfterVerdict]
     \/ hold' = [hold EXCEPT !.timer = "release"]
  /\ UNCHANGED <<net, model, turn, discard, words, ask, gem, calls, hist>>

ReleaseTimer ==
  /\ hold.timer = "release"
  /\ ReleaseWith({}, {})
  /\ UNCHANGED <<net, model, turn, discard, ask, gem>>

\* captionTimer.
CaptionTimer ==
  /\ words.caption
  /\ words' = [(IF Active THEN words ELSE Flushed(words)) EXCEPT !.caption = FALSE]
  /\ UNCHANGED <<net, model, turn, hold, discard, ask, gem, calls, hist>>

\* The quiet fallback re-arms while the visitor may be in the middle of a turn.
stillSpeaking == hold.on \/ discard \/ (manualTurns /\ Active)

QuietTimer ==
  /\ words.quiet /\ ~stillSpeaking
  /\ words' = Flushed(words)
  /\ UNCHANGED <<net, model, turn, hold, discard, ask, gem, calls, hist>>

-------------------------------------------------------------------------------
(* Messages of Gemini; a session that we closed may still deliver some.  What a session *)
(* sends that opens after the visitor hung up is left out. *)

Delivers == net.session # 0 /\ net.call = "on"

\* A piece of transcript.
Transcribe ==
  /\ Delivers /\ gem.wire # <<>>
  /\ gem' = [gem EXCEPT !.wire = Tail(@)]
  /\ ask' = [ask EXCEPT !.unanswered = TRUE]
  /\ words' = [words EXCEPT !.buf = Append(@, Head(gem.wire)), !.quiet = TRUE,
                            !.caption = @ \/ (~hold.on /\ manualTurns /\ ~Active)]
  /\ hold' = IF hold.on THEN [hold EXCEPT !.timer = "judge"] ELSE hold
  /\ UNCHANGED <<net, model, turn, discard, calls, hist>>

\* It notices that the visitor spoke over its reply: it stops, and cancels what it asked for.
NoticeInterrupt ==
  /\ Delivers /\ gem.interrupt
  /\ gem' = [gem EXCEPT !.interrupt = FALSE, !.reply = 0]
  /\ calls' = [c \in Calls |-> IF calls[c] = "running" THEN "done" ELSE calls[c]]
  /\ UNCHANGED <<net, model, turn, hold, discard, words, ask, hist>>

\* What becomes of output: dropped while discardOutput is up, held while the turn is
\* judged (unless it settles the turn), and emitted otherwise.
Passes == ~discard /\ ~hold.on
Kept   == ~discard /\ hold.on

Answering(r) ==
  \/ gem.reply = r
  \/ gem.reply = 0 /\ (gem.due \/ gem.interrupt) /\ r = gem.replies + 1

WordsLater == words                                                    \* mutant
WordsFirst == IF ~hold.on /\ ~discard /\ ~Active THEN Flushed(words) ELSE words
BeforeSpeech == WordsFirst

\* Words and audio of reply r; with "clarify" she asks the visitor to repeat.
GeminiSpeaks(r, clarify) ==
  /\ Delivers /\ Answering(r)
  /\ gem' = [gem EXCEPT !.reply = r, !.replies = r, !.due = FALSE]
  /\ ask' = [ask EXCEPT !.stall = FALSE, !.unanswered = FALSE]          \* gotReply
  /\ \/ /\ discard
        /\ hist' = [hist EXCEPT !.dropped = @ \cup {r}]
        /\ UNCHANGED <<words, hold, calls>>
     \/ /\ Passes
        /\ words' = BeforeSpeech
        /\ hist' = [hist EXCEPT !.heard = @ \cup {r}]
        /\ UNCHANGED <<hold, calls>>
     \/ /\ Kept                       \* also while words are awaited: audio, or too few
        /\ hold' = [hold EXCEPT !.replies = @ \cup {r}]
        /\ UNCHANGED <<words, calls, hist>>
     \/ /\ Kept /\ hold.awaitFirstWords /\ clarify
        /\ hold' = [hold EXCEPT !.replies = @ \cup {r}, !.awaitFirstWords = FALSE, !.timer = "release"]
        /\ UNCHANGED <<words, calls, hist>>
     \/ /\ Kept /\ hold.awaitFirstWords /\ ~clarify
        /\ ReleaseWith({r}, {})
  /\ UNCHANGED <<net, model, turn, discard>>

\* A tool call, a part of reply r.
GeminiCalls(r, c) ==
  /\ Delivers /\ Answering(r) /\ c = gem.calls + 1
  /\ gem' = [gem EXCEPT !.reply = r, !.replies = r, !.due = FALSE, !.calls = c]
  /\ ask' = [ask EXCEPT !.stall = FALSE]                               \* gotReply
  /\ \/ /\ discard
        /\ calls' = [calls EXCEPT ![c] = "done"]
        /\ UNCHANGED <<words, hold, hist>>
     \/ /\ Passes
        /\ calls' = [calls EXCEPT ![c] = "running"]
        /\ UNCHANGED <<words, hold, hist>>
     \/ /\ Kept /\ ~hold.awaitFirstWords
        /\ hold' = [hold EXCEPT !.calls = @ \cup {c}]
        /\ calls' = [calls EXCEPT ![c] = "waiting"]
        /\ UNCHANGED <<words, hist>>
     \/ /\ Kept /\ hold.awaitFirstWords
        /\ ReleaseWith({}, {c})
  /\ UNCHANGED <<net, model, turn, discard>>

\* turnComplete.
ReplyEnds ==
  /\ Delivers /\ gem.reply # 0
  /\ gem' = [gem EXCEPT !.reply = 0]
  /\ words' = WordsFirst
  /\ UNCHANGED <<net, model, turn, hold, discard, ask, calls, hist>>

\* The action layer has run a tool call: respondTool.
RespondTool(c) ==
  /\ calls[c] = "running"
  /\ calls' = [calls EXCEPT ![c] = "done"]
  /\ UNCHANGED <<net, model, turn, hold, discard, words, ask, gem, hist>>

-------------------------------------------------------------------------------
(* Stalls, closes and reconnects *)

\* No reply to words of the visitor: on to the fallback model, in a fresh session.  With
\* no words (a cough) nothing happens.
StallTimer ==
  /\ ask.stall
  /\ IF Up /\ net.call = "on" /\ ask.unanswered
     THEN /\ ask' = [ask EXCEPT !.stall = FALSE, !.pending = TRUE]
          /\ model' = "fallback" /\ turn' = "idle"
          /\ net' = [net EXCEPT !.closing = TRUE]
     ELSE /\ ask' = [ask EXCEPT !.stall = FALSE]
          /\ UNCHANGED <<model, turn, net>>
  /\ UNCHANGED <<hold, discard, words, gem, calls, hist>>

TriesAgain == net.budget < MaxReconnects

\* onclose, while the call is on; a reason that names the quota moves the call to the fallback.
SessionCloses(quota) ==
  /\ net.call = "on" /\ net.session # 0
  /\ model' = IF quota THEN "fallback" ELSE model
  /\ turn' = "idle"
  /\ net' = [net EXCEPT !.session = 0, !.closing = FALSE, !.open = @ \ {net.session},
                        !.retry = TriesAgain, !.budget = IF TriesAgain THEN @ + 1 ELSE @]
  /\ ask' = [ask EXCEPT !.stall = FALSE]
  /\ gem' = [gem EXCEPT !.wire = <<>>, !.due = FALSE, !.reply = 0, !.interrupt = FALSE]
  /\ calls' = [c \in Calls |-> IF calls[c] = "running" THEN "lost" ELSE calls[c]]
  /\ UNCHANGED <<hold, discard, words, hist>>

\* The setTimeout of a reconnect: nothing looks whether the call is still on.
Reconnect ==
  /\ net.retry /\ net.used < MaxSessions
  /\ net' = [net EXCEPT !.retry = FALSE, !.opening = TRUE]
  /\ UNCHANGED <<model, turn, hold, discard, words, ask, gem, calls, hist>>

NoReAsk == FALSE                                                       \* mutant
ReAsk == ask.pending
AsksAgain == ReAsk

Connected ==
  /\ net.opening
  /\ net' = [net EXCEPT !.opening = FALSE, !.session = net.used + 1, !.used = @ + 1,
                        !.open = @ \cup {net.used + 1}]
  /\ ask' = [ask EXCEPT !.pending = @ /\ ~AsksAgain]
  /\ gem' = [gem EXCEPT !.due = AsksAgain /\ net.call = "on" /\ gem.replies < MaxReplies]
  /\ UNCHANGED <<model, turn, hold, discard, words, calls, hist>>

\* A failed reconnect is not tried again.
ConnectFails ==
  /\ net.opening
  /\ net' = [net EXCEPT !.opening = FALSE]
  /\ UNCHANGED <<model, turn, hold, discard, words, ask, gem, calls, hist>>

\* 60 s after the last onopen.
HealthyTimer ==
  /\ net.session # 0 /\ net.budget > 0
  /\ net' = [net EXCEPT !.budget = 0]
  /\ UNCHANGED <<model, turn, hold, discard, words, ask, gem, calls, hist>>

\* close(): the visitor hung up.  The timers of the hold and of a reconnect stay.
HangUp ==
  /\ net.call = "on"
  /\ net' = [net EXCEPT !.call = "over", !.session = 0, !.closing = FALSE, !.open = @ \ {net.session}]
  /\ turn' = IF turn = "ending" THEN "idle" ELSE turn
  /\ ask' = [ask EXCEPT !.stall = FALSE]
  /\ words' = [words EXCEPT !.buf = <<>>, !.quiet = FALSE, !.caption = FALSE]
  /\ gem' = [gem EXCEPT !.wire = <<>>, !.due = FALSE, !.reply = 0, !.interrupt = FALSE]
  /\ UNCHANGED <<model, hold, discard, calls, hist>>

-------------------------------------------------------------------------------
Visitor == \/ TurnStart \/ TurnContinues \/ TurnResumes \/ TurnPauses \/ FinishTurn
           \/ SpeakToFallback \/ HangUp
Timers  == JudgeTimer \/ ReleaseTimer \/ CaptionTimer \/ QuietTimer \/ StallTimer \/ Reconnect \/ HealthyTimer
Gemini  == \/ Transcribe \/ NoticeInterrupt \/ ReplyEnds \/ Connected \/ ConnectFails
           \/ \E r \in Replies : (\E clarify \in BOOLEAN : GeminiSpeaks(r, clarify))
                                 \/ \E c \in Calls : GeminiCalls(r, c)
           \/ \E quota \in BOOLEAN : SessionCloses(quota)

LineNext == Visitor \/ Timers \/ Gemini \/ \E c \in Calls : RespondTool(c)

\* Timers fire, a session that was told to close does, and a connect() resolves or fails.
LineFairness ==
  /\ WF_lineVars(JudgeTimer) /\ WF_lineVars(ReleaseTimer) /\ WF_lineVars(Reconnect)
  /\ WF_lineVars(Connected \/ ConnectFails)
  /\ WF_lineVars(net.closing /\ SessionCloses(FALSE))

LineSpec == LineInit /\ [][LineNext]_lineVars /\ LineFairness

-------------------------------------------------------------------------------
(* Properties *)

LineTypeOK ==
  /\ net \in Net /\ model \in {"primary", "fallback"} /\ turn \in {"idle", "open", "ending"}
  /\ hold \in Hold /\ discard \in BOOLEAN /\ words \in Words /\ ask \in Ask /\ gem \in Gem
  /\ calls \in [Calls -> CallState] /\ hist \in Hist

\* When the visitor carries on, the reply to the first half of what they said is never
\* heard: neither what was held nor what Gemini sends of it later.
DroppedIsNeverHeard == hist.heard \cap hist.dropped = {}

\* Gemini waits for an answer to every tool call: one that is neither answered nor
\* with the action layer is held, and its hold will end.
NoCallForgotten ==
  \A c \in Calls : calls[c] = "waiting" => hold.on /\ c \in hold.calls

\* The action layer has every word of the visitor that was transcribed before it hears
\* Olivia's first words of an answer, unless the visitor is talking over her.
WordsBeforeReply == [][hist'.heard # hist.heard /\ ~Active => words'.buf = <<>>]_lineVars

\* A held reply is heard or dropped in the end: some timer always runs.
HoldEnds == hold.on ~> ~hold.on

LineDown == net.session = 0 /\ ~net.retry /\ ~net.opening
OutOfSessions == net.retry /\ net.used = MaxSessions     \* the bound of the model

\* A question that Gemini left unanswered is asked again in a fresh session, unless the
\* line is down for good or the visitor hung up.
StalledIsAskedAgain == ask.pending ~> (~ask.pending \/ LineDown \/ net.call = "over" \/ OutOfSessions)
===============================================================================
