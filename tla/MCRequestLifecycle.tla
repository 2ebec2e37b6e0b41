------------------------- MODULE MCRequestLifecycle -------------------------
(* Model values for TLC: one account, two submissions that compete for its *)
(* credits, of the two kinds that order their rows differently.            *)
EXTENDS RequestLifecycle, TLC

CONSTANTS r1, r2, ana

MCRequests == {r1, r2}
MCAccounts == {ana}
MCOwner == [r \in MCRequests |-> ana]
MCKind == (r1 :> "blueprint") @@ (r2 :> "qa")
BotSurface == [r \in MCRequests |-> "bot"]
MixedSurface == (r1 :> "bot") @@ (r2 :> "api")
NoAccounts == {}
OneCredit == [a \in MCAccounts |-> 1]
TwoCredits == [a \in MCAccounts |-> 2]
=============================================================================
