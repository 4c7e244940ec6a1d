----------------------------- MODULE SenderBudget -----------------------------
(***************************************************************************)
(* The sender limiter on its own: senders come and go, more of them than   *)
(* the table holds, and a clock crosses their windows.  allow reads the    *)
(* clock just before it takes the mutex; the wait for the mutex is taken   *)
(* to be shorter than a tick, so that one call is one step.                *)
(***************************************************************************)
EXTENDS SenderLimiter

CONSTANT MaxTime    \* bound: how far the clock runs

ASSUME TimeAssumption == MaxTime \in Nat

VARIABLES
    now,
    seen,
    spent    \* history: the API calls granted to each sender, with their times

vars == <<now, seen, spent>>

Init ==
    /\ now = 0
    /\ seen = [s \in Senders |-> Untracked]
    /\ spent = [s \in Senders |-> {}]

\* A cache miss of s asks for a verification.
Ask(s) ==
    /\ seen' = Charge(seen, s, now)
    /\ spent' = IF Allowed(seen, s, now)
                THEN [spent EXCEPT ![s] = @ \cup {[at |-> now, nth |-> Cardinality(@) + 1]}]
                ELSE spent
    /\ UNCHANGED now

Tick ==
    /\ now < MaxTime
    /\ now' = now + 1
    /\ UNCHANGED <<seen, spent>>

Next == Tick \/ \E s \in Senders : Ask(s)

Spec == Init /\ [][Next]_vars
-----------------------------------------------------------------------------
\* The calls granted to s from the time a to the time b.
Calls(s, a, b) == {c \in spent[s] : c.at \in a..b}

\* How many there were in the window's length of time that starts at t.
Granted(s, t) == Cardinality(Calls(s, t, t + SenderWindow - 1))

\* A sender forces at most twice its limit, if there is one, on the API in any
\* stretch of time as long as the window, wherever its fixed windows fall and
\* whatever evictions from the table other senders cause.
BudgetHolds ==
    SenderLimit > 0 => \A s \in Senders, t \in 0..MaxTime : Granted(s, t) <= 2 * SenderLimit

\* However many senders appear, allow tracks at most maxEntries of them.
TableBounded == Cardinality(Tracked(seen)) <= MaxSenders

\* s was granted a call less than a window ago.
Recent(s) == Calls(s, now - SenderWindow + 1, now) # {}

\* A sender is refused only for a cause: it used up its own limit within the
\* last window, or the table is full of other senders that called in that time.
RefusedForCause ==
    \A s \in Senders :
        ~Allowed(seen, s, now) =>
            \/ Granted(s, now - SenderWindow + 1) >= SenderLimit
            \/ Cardinality({q \in Senders \ {s} : Recent(q)}) >= MaxSenders
=============================================================================
