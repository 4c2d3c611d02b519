--------------------------- MODULE MCRunLifecycle ---------------------------
(* Two commands of one chat, claimed up to MaxClaims times each.           *)
EXTENDS RunLifecycle
CONSTANTS a1, a2

MCRuns == {a1, a2}
MCChatOf == [r \in MCRuns |-> "chatA"]
MCCommandMessageId == [r \in MCRuns |-> IF r = a2 THEN 2 ELSE 1]
=============================================================================
