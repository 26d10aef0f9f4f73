----------------------------- MODULE MCMainLoop -----------------------------
(* Model-checking instances of MainLoop with two hooks.  The predecessor   *)
(* of the second hook's points and the root "/" have no waiters and are    *)
(* left out.                                                               *)
EXTENDS MainLoop
CONSTANTS a, as, ae, bs, be, main, w1, w2, w3, obs

MCPred == [s \in SyncPoints |-> IF s \in {as, ae} THEN a ELSE None]
MCStart == <<as, bs>>
MCEnd == <<ae, be>>
MCStart1 == <<as>>
MCEnd1 == <<ae>>

\* w1 and w2 belong to the first hook, w3 to the second; obs watches the first one
MCIn == [w \in Workers |-> CASE w \in {w1, w2} -> as [] w = w3 -> bs [] w = obs -> a]
MCOut == [w \in Workers |-> CASE w \in {w1, w2} -> ae [] w = w3 -> be [] w = obs -> None]
MCType == [w \in Workers |-> IF w = obs THEN "one" ELSE "all"]

\* the threads of the instances fulfil the condition of theorem HooksInOrder
ASSUME TimingAssumption == BlockedTiming
=============================================================================
