----------------------------- MODULE PendingCalls -----------------------------
(***************************************************************************)
(* What a table of pending host calls promises its callers.  A call is     *)
(* opened once, and then either settled (by the widget's answer or by the  *)
(* timer) or dropped, never both and never twice.                          *)
(*                                                                         *)
(* Both the text session (apps/api/src/index.ts) and the voice bridge      *)
(* (apps/voice-agent/src/bridge.ts) keep such a table: a Map from a call   *)
(* id to a resolver and a timer.                                           *)
(***************************************************************************)
CONSTANT Calls          \* the ids a call can have

VARIABLES open,         \* calls whose promise is still pending
          settled,      \* calls whose promise was resolved
          dropped       \* calls whose promise will never be resolved

callVars == <<open, settled, dropped>>

CallsInit ==
  /\ open = {}
  /\ settled = {}
  /\ dropped = {}

Issue(c) ==
  /\ c \notin open \cup settled \cup dropped
  /\ open' = open \cup {c}
  /\ UNCHANGED <<settled, dropped>>

Settle(c) ==
  /\ c \in open
  /\ open' = open \ {c}
  /\ settled' = settled \cup {c}
  /\ UNCHANGED dropped

\* The table is thrown away with every entry in it.
DropAll ==
  /\ open # {}
  /\ dropped' = dropped \cup open
  /\ open' = {}
  /\ UNCHANGED settled

CallsNext ==
  \/ \E c \in Calls : Issue(c) \/ Settle(c)
  \/ DropAll

CallsSpec == CallsInit /\ [][CallsNext]_callVars

\* A call has one fate.
OneFate ==
  /\ open \cap settled = {}
  /\ open \cap dropped = {}
  /\ settled \cap dropped = {}
===============================================================================
