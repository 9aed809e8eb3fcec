-------------------------------- MODULE CallLife --------------------------------
(***************************************************************************)
(* How a voice call comes to be and how it ends: the voice modes of the    *)
(* widget (packages/widget/src/audio/voiceModeWs.ts, voiceModeLiveKit.ts   *)
(* and their wrapper voiceModeFallback.ts) and, at the other end of each   *)
(* line, one run of runVoiceSession (apps/voice-agent/src/agentWorker.ts)  *)
(* with its room (wsServer.ts, voiceRoom.ts).                              *)
(*                                                                         *)
(* The visitor taps once.  A call starts on our WebSocket and may go over  *)
(* to LiveKit, so there are two lines at most, each with a worker of its   *)
(* own; the process of a LiveKit worker ends with its room, that of the    *)
(* WebSocket server goes on.  Pre-greeting is on (the default).            *)
(***************************************************************************)
EXTENDS Naturals, FiniteSets

VARIABLES
  line,      \* the connection of each transport
  client,    \* the wrapper: the transport in use, its watchdog, hadAudio
  voiceMode, \* each voice mode: its state, the async part of its start(), started, the microphone
  worker     \* each worker: where it is, what it keeps open, the conversation record

lifeVars == <<line, client, voiceMode, worker>>

Lines  == {"ws", "livekit"}
Client == [active : Lines, watch : {"off", "on", "over"}, heard : BOOLEAN]
Mode   == [ui : {"idle", "connecting", "on"}, ask : {"no", "opening", "asking"},
           started : BOOLEAN, mic : BOOLEAN]
Worker == [pc     : {"none", "loading", "preparing", "opening", "on", "over"},
           gate   : {"pending", "go", "late"},    \* goLiveP
           live   : BOOLEAN,
           ticker : BOOLEAN,                      \* tickInterval
           gemini : BOOLEAN,                      \* a Gemini session is open
           said   : BOOLEAN,                      \* the recorder has a turn
           record : {"none", "writing", "done"}]

LifeInit ==
  /\ line = [t \in Lines |-> "none"]
  /\ client = [active |-> "ws", watch |-> "off", heard |-> FALSE]
  /\ voiceMode = [t \in Lines |-> [ui |-> "idle", ask |-> "no", started |-> FALSE, mic |-> FALSE]]
  /\ worker = [t \in Lines |-> [pc |-> "none", gate |-> "pending", live |-> FALSE, ticker |-> FALSE,
                                gemini |-> FALSE, said |-> FALSE, record |-> "none"]]

-------------------------------------------------------------------------------
(* The end of a line, as the two sides see it *)

\* The handlers of the room are there once the worker is "on": they stop the ticker, close
\* Gemini and write the record.  A line that closes earlier tells nobody.
RecordOf(w) == IF w.said /\ w.live THEN "writing" ELSE w.record
OnDisconnected(w) ==
  IF w.pc # "on" THEN w
  ELSE [w EXCEPT !.ticker = FALSE, !.gemini = FALSE, !.record = RecordOf(w)]

\* The worker of line t hears that it closes.
Told(t) == [worker EXCEPT ![t] = IF line[t] = "open" THEN OnDisconnected(@) ELSE @]

\* stop() closes an open connection; one that is still being made, and the async part of
\* start(), go on.
Stopped(m)  == [m EXCEPT !.ui = "idle", !.started = FALSE, !.mic = FALSE]
Starting(m) == [m EXCEPT !.ui = "connecting", !.ask = "opening"]
HungUp(t)   == [line EXCEPT ![t] = IF @ = "open" THEN "closed" ELSE @]

\* switchToFallback: the primary is stopped and LiveKit starts.
MaySwitch == client.active = "ws" /\ ~client.heard
Switch(ask, after) ==
  /\ client' = [client EXCEPT !.active = "livekit", !.watch = "over"]
  /\ voiceMode' = [voiceMode EXCEPT !["ws"] = [Stopped(@) EXCEPT !.ask = ask], !["livekit"] = Starting(@)]
  /\ line' = [line EXCEPT !["ws"] = after, !["livekit"] = "connecting"]

-------------------------------------------------------------------------------
(* The voice modes *)

\* Interest (hover, ring): the line is opened before the tap.
Warm ==
  /\ client.watch = "off" /\ line["ws"] = "none"
  /\ line' = [line EXCEPT !["ws"] = "connecting"]
  /\ UNCHANGED <<client, voiceMode, worker>>

\* start(), by the tap.
Tap ==
  /\ client.watch = "off" /\ line["ws"] # "closed"
  /\ client' = [client EXCEPT !.watch = "on"]
  /\ voiceMode' = [voiceMode EXCEPT !["ws"] = Starting(@)]
  /\ line' = [line EXCEPT !["ws"] = IF @ = "none" THEN "connecting" ELSE @]
  /\ UNCHANGED worker

LineOpens(t) ==
  /\ line[t] = "connecting"
  /\ line' = [line EXCEPT ![t] = "open"]
  /\ worker' = [worker EXCEPT ![t].pc = "loading"]
  /\ UNCHANGED <<client, voiceMode>>

\* open() has resolved: the browser is asked for the microphone.
AskForMic(t) ==
  /\ voiceMode[t].ask = "opening" /\ line[t] \in {"open", "closed"}
  /\ voiceMode' = [voiceMode EXCEPT ![t].ask = "asking"]
  /\ UNCHANGED <<line, client, worker>>

\* The listener for the messages of the widget is there after prepareAudioOut.
Hears(t) == line[t] = "open" /\ worker[t].pc \in {"opening", "on"}

\* The microphone is on and start_voice is sent; without a listener it is lost.
MicOn(t) ==
  /\ voiceMode[t].ask = "asking" /\ (t = "ws" \/ line[t] = "open")
  /\ voiceMode' = [voiceMode EXCEPT ![t].ask = "no", ![t].mic = TRUE, ![t].started = TRUE]
  /\ worker' = IF Hears(t) /\ worker[t].gate = "pending"
               THEN [worker EXCEPT ![t].gate = "go", ![t].live = worker[t].pc = "on"]
               ELSE worker
  /\ UNCHANGED <<line, client>>

MicDenied(t) ==
  /\ voiceMode[t].ask = "asking"
  /\ voiceMode' = [voiceMode EXCEPT ![t] = [Stopped(@) EXCEPT !.ask = "no"]]
  /\ UNCHANGED <<line, client, worker>>

\* The connection cannot be made: worth the fallback, on the primary.
LineFails(t) ==
  /\ line[t] = "connecting"
  /\ IF t = "ws" /\ MaySwitch /\ voiceMode[t].ask = "opening"
     THEN Switch("no", "closed")
     ELSE /\ line' = [line EXCEPT ![t] = "closed"]
          /\ voiceMode' = [voiceMode EXCEPT ![t] = IF voiceMode[t].ask = "opening"
                                         THEN [Stopped(@) EXCEPT !.ask = "no"] ELSE @]
          /\ UNCHANGED client
  /\ UNCHANGED worker

\* Olivia's voice is playing; or, some seconds after agent_ready, it is taken for granted.
\* Her voice brings back a call that was hung up while it was connecting.
Audible(t) ==
  /\ worker[t].live /\ line[t] = "open"
  /\ voiceMode[t].ui # "on"
  /\ voiceMode' = [voiceMode EXCEPT ![t].ui = "on"]
  /\ \/ client' = [client EXCEPT !.heard = @ \/ client.active = "ws", !.watch = "over"]
     \/ UNCHANGED client
  /\ worker' = [worker EXCEPT ![t].said = TRUE]
  /\ UNCHANGED line

\* stop(): the visitor taps End or leaves the page.
EndCall ==
  LET t == client.active IN
  /\ voiceMode[t].ui # "idle"
  /\ voiceMode' = [voiceMode EXCEPT ![t] = Stopped(@)]
  /\ client' = [client EXCEPT !.watch = "over"]
  /\ worker' = Told(t) /\ line' = HungUp(t)

WatchForever == FALSE                                                  \* mutant
WatchFires   == client.watch = "on"
WatchIsDue   == WatchFires

\* The watchdog of the wrapper: no audio within 7 s.
NoAudioTimer ==
  /\ WatchIsDue
  /\ IF MaySwitch /\ voiceMode["ws"].ui = "connecting"
     THEN Switch(voiceMode["ws"].ask, HungUp("ws")["ws"]) /\ worker' = Told("ws")
     ELSE client' = [client EXCEPT !.watch = "over"] /\ UNCHANGED <<line, voiceMode, worker>>

\* 60 s after it opened, the widget drops a line that no call has started on.
WarmIdle ==
  /\ line["ws"] = "open" /\ ~voiceMode["ws"].started
  /\ line' = HungUp("ws") /\ worker' = Told("ws")
  /\ UNCHANGED <<client, voiceMode>>

\* What the widget does when line t closes under it: a WebSocket call that has started
\* ends or goes to LiveKit; a LiveKit call is not told.
OnClose(t) ==
  IF t = "ws" /\ line[t] = "open" /\ voiceMode[t].started
  THEN IF MaySwitch THEN Switch(voiceMode[t].ask, "closed")
       ELSE /\ voiceMode' = [voiceMode EXCEPT ![t] = Stopped(@)]
            /\ line' = HungUp(t) /\ UNCHANGED client
  ELSE line' = HungUp(t) /\ UNCHANGED <<client, voiceMode>>

\* The network drops a line, the heartbeat finds that out, or a cap trips.
LineDrops(t) ==
  /\ line[t] = "open"
  /\ worker' = Told(t)
  /\ OnClose(t)

-------------------------------------------------------------------------------
(* runVoiceSession *)

\* The session, the merchant, its knowledge; then the caps start their ticker.
Loads(t) ==
  /\ worker[t].pc = "loading"
  /\ worker' = [worker EXCEPT ![t].pc = "preparing", ![t].ticker = TRUE]
  /\ UNCHANGED <<line, client, voiceMode>>

Prepares(t) ==
  /\ worker[t].pc = "preparing"
  /\ worker' = [worker EXCEPT ![t].pc = "opening"]
  /\ UNCHANGED <<line, client, voiceMode>>

\* The watchdog found no start_voice: the handler of goLiveP.
StayOpen(t) == UNCHANGED <<line, client, voiceMode>>                        \* mutant
Disconnects(t) == OnClose(t)
AtLate(t) == Disconnects(t)

\* Gemini is open and, in the same step, every handler is there.
Opens(t) ==
  /\ worker[t].pc = "opening"
  /\ IF worker[t].gate = "late"
     THEN /\ worker' = [worker EXCEPT ![t].pc = "on", ![t].ticker = FALSE]
          /\ AtLate(t)
     ELSE /\ worker' = [worker EXCEPT ![t].pc = "on", ![t].gemini = TRUE,
                                      ![t].live = worker[t].gate = "go"]
          /\ UNCHANGED <<line, client, voiceMode>>

\* The session or the merchant is not there, or a step of the set-up throws: the room is
\* closed and nothing else.
SetupFails(t) ==
  /\ worker[t].pc \in {"loading", "preparing", "opening"}
  /\ worker' = [worker EXCEPT ![t].pc = "over"]
  /\ OnClose(t)

\* 75 s without start_voice.
WarmWatchdog(t) ==
  /\ worker[t].pc \in {"opening", "on"} /\ worker[t].gate = "pending"
  /\ IF worker[t].pc = "on"
     THEN /\ worker' = [worker EXCEPT ![t].gate = "late", ![t].ticker = FALSE, ![t].gemini = FALSE]
          /\ AtLate(t)
     ELSE /\ worker' = [worker EXCEPT ![t].gate = "late"]
          /\ UNCHANGED <<line, client, voiceMode>>

\* emitConversationRecord, or the failure it logs.
RecordWritten(t) ==
  /\ worker[t].record = "writing"
  /\ worker' = [worker EXCEPT ![t].record = "done"]
  /\ UNCHANGED <<line, client, voiceMode>>

WaitsForNobody(w) == TRUE                                              \* mutant
WaitsForRecord(w) == w.record # "writing"
MayExit(w) == WaitsForRecord(w)

\* The process of a LiveKit job ends with its room, after the shutdown callbacks.
JobEnds ==
  /\ line["livekit"] = "closed" /\ MayExit(worker["livekit"])
  /\ worker["livekit"].pc # "none" /\ (worker["livekit"].pc # "over" \/ worker["livekit"].ticker)
  /\ worker' = [worker EXCEPT !["livekit"] = [@ EXCEPT !.pc = "over", !.live = FALSE,
                                                       !.ticker = FALSE, !.gemini = FALSE]]
  /\ UNCHANGED <<line, client, voiceMode>>

-------------------------------------------------------------------------------
WorkerStep(t) == Loads(t) \/ Prepares(t) \/ Opens(t) \/ SetupFails(t)

LifeNext ==
  \/ Warm \/ WarmIdle \/ Tap \/ EndCall \/ NoAudioTimer \/ JobEnds
  \/ \E t \in Lines : \/ LineOpens(t) \/ LineFails(t) \/ AskForMic(t) \/ MicOn(t) \/ MicDenied(t)
                      \/ Audible(t) \/ LineDrops(t)
                      \/ WorkerStep(t) \/ WarmWatchdog(t) \/ RecordWritten(t)

\* Connections, awaits and timers come to an end, the visitor answers the browser's
\* question about the microphone, and a live worker is heard.
LifeFairness ==
  /\ WF_lifeVars(NoAudioTimer) /\ WF_lifeVars(JobEnds)
  /\ \A t \in Lines : /\ WF_lifeVars(LineOpens(t) \/ LineFails(t)) /\ WF_lifeVars(AskForMic(t))
                      /\ WF_lifeVars(MicOn(t) \/ MicDenied(t)) /\ WF_lifeVars(Audible(t))
                      /\ WF_lifeVars(WorkerStep(t)) /\ WF_lifeVars(WarmWatchdog(t))
                      /\ WF_lifeVars(RecordWritten(t))

LifeSpec == LifeInit /\ [][LifeNext]_lifeVars /\ LifeFairness

-------------------------------------------------------------------------------
(* Properties *)

LifeTypeOK ==
  /\ line \in [Lines -> {"none", "connecting", "open", "closed"}] /\ client \in Client
  /\ voiceMode \in [Lines -> Mode] /\ worker \in [Lines -> Worker]

\* What a call leaves on record survives the end of its process: a worker that is gone
\* has written the record of a call in which something was said.
RecordSurvives ==
  \A t \in Lines : worker[t].pc = "over" /\ worker[t].said => worker[t].record = "done"

\* A line on which nobody starts a call is closed in the end, by the widget or by the
\* watchdog of the worker, and its Gemini session with it.
UnusedLineEnds ==
  \A t \in Lines : line[t] = "open" ~> \/ line[t] = "closed" /\ ~worker[t].gemini
                                       \/ worker[t].gate = "go"

\* A call that cannot get going on the WebSocket never keeps the visitor waiting there:
\* Olivia is heard, the call ends, or it goes over to LiveKit.
PrimaryNeverStuck == voiceMode["ws"].ui = "connecting" ~> voiceMode["ws"].ui # "connecting"

\* widget.ts:305-306 "Leaving the page ends the call and releases the mic, same as
\* tapping End."
MicReleased == \A t \in Lines : voiceMode[t].ui = "idle" => ~voiceMode[t].mic
===============================================================================
