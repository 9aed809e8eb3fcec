------------------------------- MODULE MCVoiceCall -------------------------------
(***************************************************************************)
(* One small instance of two models of a voice call: its flows, and how it *)
(* starts and ends.  They have no variable in common, so a behaviour of    *)
(* the instance is a behaviour of one of them, the one `part` names, while *)
(* the other stays as it began.                                            *)
(***************************************************************************)
EXTENDS MCCallFlows, CallLife

VARIABLE part

vars == <<part, flowVars, lifeVars>>

Init == /\ part \in {"flows", "life"} /\ FlowInit /\ LifeInit
        /\ toolsOn => part = "flows"

FlowPart == part = "flows" /\ FlowNext /\ UNCHANGED <<part, lifeVars>>
LifePart == part = "life"  /\ LifeNext /\ UNCHANGED <<part, flowVars>>

\* No action that is treated fairly is enabled where a part begins, so the fairness of the
\* part that does not step asks for nothing.
Spec == Init /\ [][FlowPart \/ LifePart]_vars /\ FlowFairness /\ LifeFairness
===============================================================================
