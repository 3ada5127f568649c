---------------------------- MODULE ServiceInput ----------------------------
(* What the program takes from outside: its command line, then a request.    *)
(* Nothing of the command line matters to what module RequestInput models,   *)
(* so only the program without arguments is given requests.                  *)
EXTENDS CommandLine, RequestInput

Init == ArgsInit /\ RequestInit

Next ==
    \/ ParseArgs /\ UNCHANGED requestVars
    \/ outcome = "run" /\ args = <<>> /\ HandleRequest /\ UNCHANGED argVars

Spec == Init /\ [][Next]_<<argVars, requestVars>>

\* All texts of up to two characters, misplaced signs and blanks, and numbers
\* beyond each width.
Short == SeqOf({" ", "+", "-", "0", "1", "x"}, 2)
Odd   == {<<" ", "+", "1">>, <<"+", "-", "1">>, <<"-", " ", "1">>, <<"1", " ", "1">>,
          <<" ", "+", "0", "0", "1">>}
Long  == {<<"1", "0", "0">>, <<"1", "0", "0", "0">>, <<"1", "1", "1", "1">>,
          <<"1", "0", "0", "0", "0">>, <<"-", "1", "1", "1", "1">>, <<"-", "1", "1", "0", "1">>}
Texts == Short \cup Odd \cup Long
=============================================================================
