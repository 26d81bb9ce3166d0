------------------------------ MODULE MCDiscovery ------------------------------
(* The calls TLC lets the model make: on one control a click, with and without *)
(* an answer to its dialog, the typing of a value, reads, and every other tool. *)
EXTENDS Discovery

Call(tool, on, dialog) == [tool |-> tool, on |-> on, dialog |-> dialog]

OnNothing ==
    {"press_key", "press_tab", "scroll", "request_confirmation", "give_up", "invalid"}

MCCalls ==
    {Call(tool, Nothing, Nothing) : tool \in OnNothing}
        \cup {Call(tool, e, Nothing) : tool \in {"click", "type_text", "read_text",
                                                "declare_output", "done"}, e \in Controls}
        \cup {Call("click", e, answer) : e \in Controls, answer \in {"accept", "dismiss"}}

\* How often the last call was made in a row.
Run == Max({n \in 0..Len(calls) : \A i \in (Len(calls) - n + 1)..Len(calls) : calls[i] = Last(calls)})

\* Where the recording and the log of the acts disagree.
Disagree ==
    LET recorded == {steps[i].turn : i \in DOMAIN steps}
        told == acted \ wrong
    IN  (recorded \ told) \cup (told \ recorded)

\* States that nothing later can tell apart: of the calls only the last and its
\* repetitions matter, of the recording only where it disagrees with the log,
\* and what the current call let through is judged in the state it leads to.
View ==
    <<pc, turn, config, armed, Run, IF calls = << >> THEN Nothing ELSE Last(calls),
      unchanged, changes, dialogs, shown, outputs, pending.turn, Disagree, stop, result,
      TypeOK, ConfirmedJustBefore, AnswersWhatWasShown, StuckEndsTheRun, RecordedAsTold>>
=============================================================================
