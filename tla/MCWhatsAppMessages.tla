------------------------- MODULE MCWhatsAppMessages -------------------------
(* An instance of WhatsAppMessages for TLC. *)
EXTENDS WhatsAppMessages

CONSTANTS q1, q2

ThreeSocks == 1..3
TwoRequests == {q1, q2}

\* The session's own mishaps, those of its page, those of the message, and a session that
\* must be started or is deleted while the message is on its way.
FiveScenarios ==
  {{"close", "logout", "start", "restart", "report", "call", "click", "remove"},
   {"look", "click", "report", "call", "close"},
   {"write", "again", "forward", "broker", "crash", "abort", "call"},
   {"write", "close", "restart"},
   {"write", "remove"}}

\* Nothing is lost and nothing fails; the owner has the page open.
OnlyThePage == {{"look"}}
=============================================================================
