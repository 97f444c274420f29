------------------------------ MODULE MCGroups -----------------------------
(* Strings over '-', '/' and 'a', which strcmp orders like that: nested     *)
(* categories, one that others begin with, and slashes at either end.       *)
EXTENDS Groups

MCSlash == 2

MCName == {<<>>, <<3>>, <<3, 1>>, <<3, 2>>, <<2, 3>>, <<3, 2, 3>>,
           <<3, 1, 2, 3>>, <<3, 2, 3, 2, 3>>}
=============================================================================
