------------------------------- MODULE QueryCache ------------------------------
(***************************************************************************)
(* One list in the query cache of the dashboard (react-query): its rows,   *)
(* the fetch in flight for it, and, as history, whether it may be behind   *)
(* the server.  A query has at most one fetch in flight, and an answer     *)
(* overwrites whatever the pages wrote into the cache in the meantime.     *)
(***************************************************************************)
CONSTANT None

Cold ==
    [rows |-> None,       \* data
     error |-> FALSE,     \* isError
     step |-> "idle",     \* then "sent" and "served" while a fetch is in flight
     answer |-> None,
     late |-> FALSE,      \* history: the server or the cache changed since it answered
     behind |-> TRUE]     \* history: the rows may not be the server's

\* A fetch starts unless one is in flight.
Ask(q) == IF q.step = "idle" THEN [q EXCEPT !.step = "sent"] ELSE q

\* invalidateQueries: a fetch in flight is cancelled and another one starts.
Invalidate(q) == [q EXCEPT !.step = "sent", !.answer = None, !.late = FALSE]

\* The server answers with what it holds.
Serve(q, rows) == [q EXCEPT !.step = "served", !.answer = rows, !.late = FALSE]

Land(q) ==
    [q EXCEPT !.rows = q.answer, !.step = "idle", !.answer = None,
              !.error = FALSE, !.behind = q.late, !.late = FALSE]

\* The request and its one retry fail.
Fail(q) == [q EXCEPT !.step = "idle", !.answer = None, !.error = TRUE, !.late = FALSE]

\* History: the list misses a change of the server, and so does an answer
\* that was on its way before.
Miss(q) == [q EXCEPT !.behind = TRUE, !.late = @ \/ q.step = "served"]

Settled(q) == q.step = "idle" /\ ~q.error /\ ~q.behind
================================================================================
