------------------------------ MODULE MCCallFlows ------------------------------
(***************************************************************************)
(* Small instances of CallFlows: a visitor who asks for a product and the  *)
(* checkout in one breath, asks for a consultation or the contact form,    *)
(* gives details and confirms.                                             *)
(***************************************************************************)
EXTENDS CallFlows

MCSaid == {{"add", "checkout"}, {"confirm"}, {"consult"}, {"contact"}, {"details"}}
MCNarrated == {{"subject"}, {"booking"}, {"placement"}}
===============================================================================
