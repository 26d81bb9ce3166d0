---------------------------- MODULE MCReplayEngine ----------------------------
(* A flow of two steps for TLC: a sign-in that may be re-run, and a submit    *)
(* behind a checkpoint, with one detector of each kind.                       *)
EXTENDS ReplayEngine

MCDetectors == {"answer", "popup", "slow", "expired", "late"}

MCKind ==
    [answer |-> "business", popup |-> "click", slow |-> "wait_retry",
     expired |-> "run_steps", late |-> "hard_failure"]

MCScope ==
    [answer |-> {2}, popup |-> {1}, slow |-> {2}, expired |-> {2}, late |-> {2}]

MCReruns == [d \in MCDetectors |-> IF d = "expired" THEN << 1 >> ELSE << >>]

MCMaxAttempts == [d \in MCDetectors |-> 1]
=============================================================================
