-------------------------- MODULE MCTelegramOutbox --------------------------
(* Instances of TelegramOutbox for TLC. *)
EXTENDS TelegramOutbox

CONSTANTS w1, w2

OneWorker == {w1}
TwoWorkers == {w1, w2}
NoRows == {}
AllOutcomes == SendOutcomes
OnlyAccepted == {"accepted"}
=============================================================================
