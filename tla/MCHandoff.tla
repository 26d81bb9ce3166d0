------------------------------ MODULE MCHandoff ------------------------------
(* Instances of Handoff for TLC.                                            *)
EXTENDS Handoff, TLC

\* Operators are interchangeable.
Symmetry == Permutations(Operators)

\* A command whose read is out of date, or that its state does not permit, will be
\* refused whatever comes, so which command it was no longer matters.
Refused == [verb |-> "refused", version |-> -1]

WillBeRefused(o) ==
    /\ cli[o].verb \in {"take_control", "hand_back", "abort"}
    /\ ~Accepted(OperatorCall(o, cli[o].verb), cli[o].version)

Pausing == Waiting \cup {"collecting", "noting"}

Reverifying == {"verifying", "rejudging", "confirming"}

When(condition, values) == IF condition THEN values ELSE << >>

\* The run's data no longer changes and nothing says more of it.
Gone == pc \in {"closing", "closed", "killed"} \/ (pc = "ended" /\ result.status = "crashed")

\* Left out is what will be assigned before it is read again: the deadline and
\* the last read outside the channel's wait, what asked for a human outside a
\* pause, and the hand-back outside a pause or its verification.  Once the run has
\* crashed or started to close up, what is still to happen depends on the file.
View ==
    <<file, [o \in Operators |-> IF WillBeRefused(o) THEN Refused ELSE cli[o]], pc,
      When(pc # "killed", <<faults>>),
      When(~Gone, <<at, pauses, opened, recoveries, log>>),
      When(pc = "ended", <<result>>),
      When(pc \notin Over, <<age, windowOpen, path, holding, lost>>),
      When(pc \in Pausing, <<origin, stopCode>>),
      When(pc \in Pausing \cup Reverifying, <<handback>>),
      When(pc \in Waiting, <<seen, left>>)>>
=============================================================================
