---------------------------- MODULE SenderLimiter ----------------------------
(***************************************************************************)
(* The per-sender verification budget of the collector's auth extension    *)
(* (sender_limit.go): a fixed-window counter per peer address in a table   *)
(* that never holds more than MaxSenders entries.  The operators take the  *)
(* table as an argument, so that the extension's own module can use them;  *)
(* SenderBudget runs them on their own.                                    *)
(***************************************************************************)
EXTENDS Integers, FiniteSets

CONSTANTS
    Senders,        \* peer addresses
    SenderLimit,    \* sender_verify_limit: misses allowed per window; 0 = off
    SenderWindow,   \* sender_verify_window
    MaxSenders      \* senderLimiterMaxEntries

ASSUME SenderAssumption ==
    /\ SenderLimit \in Nat
    /\ SenderWindow \in Nat \ {0}
    /\ MaxSenders \in Nat \ {0}

\* A senderWindow; count 0 stands for a sender that is not in the table.
Windows == [count : Nat, start : Nat]
Untracked == [count |-> 0, start |-> 0]
Tracked(seen) == {s \in Senders : seen[s] # Untracked}

Elapsed(w, t) == t - w.start >= SenderWindow

\* Mutant of Sweep: live windows are dropped too.
SweepAll(seen, t) == [s \in Senders |-> Untracked]

\* Mutant of Sweep: nothing is dropped.
SweepNothing(seen, t) == seen

\* sweep: drop every tracked sender whose window has elapsed.
Sweep(seen, t) ==
    [s \in Senders |-> IF Elapsed(seen[s], t) THEN Untracked ELSE seen[s]]

\* The table once a new sender has made the cap bite: swept if it is full.
Room(seen, s, t) ==
    IF s \notin Tracked(seen) /\ Cardinality(Tracked(seen)) >= MaxSenders
    THEN Sweep(seen, t)
    ELSE seen

\* Mutant of Allowed: a new sender is admitted past the cap.
AllowedPastCap(seen, s, t) ==
    \/ SenderLimit = 0
    \/ s \notin Tracked(seen)
    \/ Elapsed(seen[s], t) \/ seen[s].count < SenderLimit

\* allow: whether one more verification by s at time t is within its budget.
Allowed(seen, s, t) ==
    \/ SenderLimit = 0
    \/ /\ s \in Tracked(seen)
       /\ Elapsed(seen[s], t) \/ seen[s].count < SenderLimit
    \/ /\ s \notin Tracked(seen)
       /\ Cardinality(Tracked(Room(seen, s, t))) < MaxSenders

\* allow: the table after it, a refused newcomer's sweep included.
Charge(seen, s, t) ==
    LET table == Room(seen, s, t)
        fresh == s \notin Tracked(seen) \/ Elapsed(seen[s], t)
    IN  IF SenderLimit = 0
        THEN seen
        ELSE IF ~Allowed(seen, s, t)
        THEN table
        ELSE [table EXCEPT ![s] =
                 IF fresh THEN [count |-> 1, start |-> t]
                 ELSE [count |-> table[s].count + 1, start |-> table[s].start]]
=============================================================================
