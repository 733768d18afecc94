----------------------------- MODULE MCFrontDoor -----------------------------
(* Small instances of FrontDoor: environments, and what is asked of them. *)
EXTENDS FrontDoor, TLC

CONSTANTS c1, c2, p1, p2

Env(redis, embedded, standalone, key, pay) ==
  [redis |-> redis, embedded |-> embedded, standalone |-> standalone,
   generator |-> "claude", key |-> key, token |-> pay \in {"chain", "offline"},
   chain |-> pay = "chain", secret |-> pay = "secret"]

\* The compose file's, a single container, one with a worker of its own but
\* nothing to share with it, one without the API key, one for development, one that
\* cannot charge.
Environments ==
  {Env(TRUE, FALSE, TRUE, TRUE, "chain"), Env(FALSE, TRUE, FALSE, TRUE, "chain"),
   Env(FALSE, FALSE, TRUE, TRUE, "offline"), Env(TRUE, TRUE, FALSE, FALSE, "chain"),
   Env(FALSE, TRUE, FALSE, TRUE, "secret"), Env(FALSE, TRUE, FALSE, TRUE, "none")}

Want(route, mcp, c, valid, pays, p) ==
  [route |-> route, mcp |-> mcp, caller |-> c, valid |-> valid, pays |-> pays, at |-> p]

\* Paid over HTTP, paid by an agent, not paid, not a PRD, previews, a poll.
Requested ==
  {Want("build", FALSE, c1, TRUE, TRUE, p1), Want("build", TRUE, c1, TRUE, TRUE, p1),
   Want("build", FALSE, c2, TRUE, FALSE, p1), Want("build", FALSE, c1, FALSE, TRUE, p2),
   Want("preview", FALSE, c1, TRUE, FALSE, p1), Want("preview", TRUE, c2, TRUE, FALSE, p2),
   Want("poll", FALSE, c1, FALSE, FALSE, p1)}

Limits  == [builds |-> 1, ip |-> 1, all |-> 1]
NoBudget == [Limits EXCEPT !["all"] = 0]
Windows == [builds |-> 1, ip |-> 2, all |-> 2]
=============================================================================
