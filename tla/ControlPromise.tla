--------------------------- MODULE ControlPromise ---------------------------
(***************************************************************************)
(* What session control promises about one browser, with no file, lock,    *)
(* process or clock: exactly one party holds it at a time, it passes from  *)
(* automation to a person only through a pause nobody holds, and from a    *)
(* person back to automation only when that same person hands it back and  *)
(* automation has verified the screen.  Once over, it stays over.          *)
(***************************************************************************)
CONSTANTS Operators

VARIABLE holder

Automation == "automation"   \* acting on its own plan
Verifying  == "verifying"    \* automation, checking what a person left behind
Nobody     == "nobody"       \* paused, waiting for a person
Over       == "over"

Holders == {Automation, Verifying, Nobody, Over} \cup Operators

Init == holder = Automation

AskForHuman == holder \in {Automation, Verifying} /\ holder' = Nobody

TakeControl(o) == holder = Nobody /\ holder' = o

HandBack(o) == holder = o /\ holder' = Verifying

Carry == holder = Verifying /\ holder' = Automation

End == holder # Over /\ holder' = Over

Next ==
    \/ AskForHuman
    \/ \E o \in Operators : TakeControl(o) \/ HandBack(o)
    \/ Carry
    \/ End

Spec == Init /\ [][Next]_holder
=============================================================================
