---------------------------- MODULE MCTokenObserver ----------------------------
(***************************************************************************)
(* One refresh token and one access token over two days of three seconds,  *)
(* a minute being one second.                                              *)
(***************************************************************************)
EXTENDS TokenObserver

MCEntity == RefreshToken \cup AccessToken

MCMaxDaily ==
    [requests |-> 1, bad_requests |-> 1, agent_input_tokens |-> 2,
     claim_cookies_generated |-> 1]

MCRtLevels    == <<1, 3, 5>>
MCTokenLevels == <<3, 4, 5>>
MCTokenCounts == {2}
===============================================================================
