---------------------------- MODULE MCPRDashboard ----------------------------
(* Two repositories for model checking PRDashboard: pages of one pull request, *)
(* so that the two of the first repository need three of them.              *)
EXTENDS PRDashboard

CONSTANTS a, b, p1, p2, p3, bot, owner

MCHome == [p \in PRs |-> IF p = p3 THEN b ELSE a]
Says(who, what) == [by |-> who, state |-> what]
MCReviewLists ==
    {<<Says(bot, "CHANGES_REQUESTED"), Says(bot, "APPROVED"), Says(owner, "APPROVED")>>,
     <<Says(owner, "CHANGES_REQUESTED"), Says(bot, "APPROVED"), Says(owner, "COMMENTED")>>}

MCInitially == {<<[r \in Repos |-> IF r = a THEN <<p1>> ELSE <<>>], {}>>,
                <<[r \in Repos |-> IF r = a THEN <<p2, p1>> ELSE <<p3>>], {p1}>>}
MCChecks == {{}, {"failed", "pending"}}
==============================================================================
