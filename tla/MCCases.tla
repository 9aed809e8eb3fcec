-------------------------------- MODULE MCCases --------------------------------
(***************************************************************************)
(* Small instances of Cases: one conversation, one type of request.        *)
(***************************************************************************)
EXTENDS Cases

CONSTANTS r1, r2, p1, p2, o1, Talk

MCTalkOf == [r \in Requests |-> Talk]
MCTypeOf == [r \in Requests |-> "return"]
MCPhotoTalk == [p \in Photos |-> Talk]

\* Two requests and a reply of the owner, a request and two photos, or two requests and a photo.
MCCasts == {{r1, r2, o1}, {r1, p1, p2}, {r1, r2, p1}}
===============================================================================
