---------------------------- MODULE MCVoiceBridge -----------------------------
(***************************************************************************)
(* Small instances of VoiceBridge.                                         *)
(***************************************************************************)
EXTENDS VoiceBridge, TLC

\* Only the last utterance asks for more.
MCAsksForMore == {LastUtterance}

\* Bound: the last utterance is spoken only in calls in which no event was routed, the
\* voice model said nothing and no turn called the page twice.
Plain ==
  /\ \A u \in Utterances : turn[u].routed = 0 /\ turn[u].calls <= 1
  /\ VoiceSaid \notin Range(voiceHistory)

\* Only what nobody is obliged to do is bounded: the steps under Fairness are as they were.
MCNext == Next /\ (arrived' = LastUtterance => Plain')
MCSpec == Init /\ [][MCNext]_vars /\ Fairness
===============================================================================
