----------------------------- MODULE MCPrReview -----------------------------
(* PrReview and AiReview for TLC: the model values are in the              *)
(* configurations. The agent waits for the bots before it pulls their      *)
(* threads for the first time, and the two commands share nothing else.    *)
EXTENDS PrReview, AiReview

MCInit == Init /\ AiInit
MCNext == \/ Init /\ AiNext /\ UNCHANGED vars
          \/ At("idle") /\ Next /\ UNCHANGED aiVars
MCSpec == MCInit /\ [][MCNext]_<<vars, aiVars>>
=============================================================================
