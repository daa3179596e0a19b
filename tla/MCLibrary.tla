----------------------------- MODULE MCLibrary ------------------------------
(***************************************************************************)
(* The C library: a program works on its strings, or prints a number or a  *)
(* text and reads it back.                                                 *)
(***************************************************************************)
EXTENDS Strings, Numbers

\* One of the characters is negative as a signed byte.
MCChar == {0, 97, -61}

\* A long of 8 bits: both ends of its range, and of the unsigned one's.
MCLongMax == 127
MCValues == {0, 1, 7, 8, 10, 99, 126, 127, 128, 129, 255}

MCWords == {<<"a">>, <<"a", "b", "c", "d">>}

MCSpecs == [flags : {<<>>, <<"-">>, <<"0">>, <<"+">>, <<" ">>, <<"0", "+">>,
                     <<"0", "#">>, <<"-", " ">>, <<"+", "#">>},
            width : {-1, 1, 6}, precision : {-1, 0, 3}, conv : Conversions]

Init == StringsInit /\ NumbersInit

Next == \/ pc = "start" /\ StringsNext /\ UNCHANGED numberVars
        \/ StringsInit /\ NumbersNext /\ UNCHANGED stringVars

Spec == Init /\ [][Next]_<<stringVars, numberVars>>
=============================================================================
