---------------------------- MODULE MCDashboardPages ---------------------------
(***************************************************************************)
(* DashboardPages with the lists that two queries leave in the palette:    *)
(* one that nothing matches, and "w".                                      *)
(***************************************************************************)
EXTENDS DashboardPages

SomeMatches == {<<>>, <<"overview", "workflows">>}
================================================================================
