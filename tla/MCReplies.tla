----------------------------- MODULE MCReplies -----------------------------
EXTENDS Replies, TLC
CONSTANTS d1, d2, d3, h1
MCDelivery == {d1, d2, d3}
MCHuman == {h1}
\* From 0: a clamp at either end, and 30, the last score that is cold.
MCChange == (d1 :> 70) @@ (d2 :> 45) @@ (d3 :> -15)
=============================================================================
