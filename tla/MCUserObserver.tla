----------------------------- MODULE MCUserObserver -----------------------------
(***************************************************************************)
(* One user over three days of three seconds, a minute being one second.   *)
(* Users do not affect each other, so one is enough.                       *)
(***************************************************************************)
EXTENDS UserObserver

MCMaxDaily ==
    [requests |-> 1, bad_requests |-> 1, agent_input_tokens |-> 2,
     access_tokens_generated |-> 1, claim_cookies_generated |-> 1]

MCUserLevels  == <<1, 3, 5>>
MCWsLevels    == <<1, 2, 3>>
MCTokenLevels == <<3, 4, 5>>
MCTokenCounts == {2}
===============================================================================
