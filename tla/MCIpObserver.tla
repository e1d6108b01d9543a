----------------------------- MODULE MCIpObserver -----------------------------
(***************************************************************************)
(* One IP address over two days of three seconds, a minute being a second. *)
(* Addresses do not affect each other, so one is enough.                   *)
(***************************************************************************)
EXTENDS IpObserver

MCMaxDaily ==
    [requests |-> 1, bad_requests |-> 1, agent_input_tokens |-> 2,
     refresh_tokens_generated |-> 1, claim_cookies_generated |-> 1]

MCIpLevels    == <<1, 3, 5>>
MCWsLevels    == <<1, 2, 3>>
MCTokenLevels == <<3, 4, 5>>
MCTokenCounts == {2}
===============================================================================
