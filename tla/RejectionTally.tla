---------------------------- MODULE RejectionTally ----------------------------
(***************************************************************************)
(* deadletter.TallyStore: spans the collector rejects are counted per      *)
(* workspace and error code, and a goroutine moves the counts to           *)
(* ClickHouse at every tick of its ticker and once more when the store is  *)
(* closed.  flush gives up the mutex while it writes, so spans are counted *)
(* during a write; the counts of a failed write are merged back.           *)
(*                                                                         *)
(* A rejection with the count 0 is one the map does not hold.  A write     *)
(* that fails may have reached the table or not.  A span without a         *)
(* workspace is not counted and is left out.  The collector stops the      *)
(* components that call Put before it closes the store.                    *)
(***************************************************************************)
EXTENDS Naturals, FiniteSets

CONSTANTS
    Rejections,     \* the Rejection keys in use
    Cap,            \* maxPendingRejections
    MaxSpans,       \* bound: spans rejected of each kind
    MaxFailures     \* bound: writes that fail

ASSUME TallyAssumption ==
    /\ IsFiniteSet(Rejections)
    /\ Cap \in Nat \ {0}
    /\ MaxSpans \in Nat
    /\ MaxFailures \in Nat

VARIABLES
    tally,       \* the map under the mutex
    batch,       \* the map that flush took and is writing
    loop,        \* where the goroutine is
    final,       \* its flush is the one that stop asked for
    stop,        \* the channel stop is closed
    closed,      \* Close has returned
    stored,      \* the spans column of rejected_spans
    rejected,    \* history: spans Put was given, of each kind
    failures     \* history: writes that reported an error

vars == <<tally, batch, loop, final, stop, closed, stored, rejected, failures>>

\* The goroutine waits in its select, writes a batch, has a failed write to
\* merge back, or has returned.
Places == {"select", "write", "merge", "stopped"}

\* Mutant of After: the stop's branch does not return from the loop.
AfterLooping(last) == "select"

\* Where the goroutine goes when a flush is over.
After(last) == IF last THEN "stopped" ELSE "select"

Kinds(t) == {r \in Rejections : t[r] > 0}

Plus(s, t) == [r \in Rejections |-> s[r] + t[r]]

Empty == [r \in Rejections |-> 0]

Init ==
    /\ tally = Empty
    /\ batch = Empty
    /\ loop = "select"
    /\ final = FALSE
    /\ stop = FALSE
    /\ closed = FALSE
    /\ stored = Empty
    /\ rejected = Empty
    /\ failures = 0

\* The map t after add(r, n), for n above 0.
Add(t, r, n) ==
    IF r \in Kinds(t) \/ Cardinality(Kinds(t)) < Cap
    THEN [t EXCEPT ![r] = @ + n]
    ELSE t

\* A span of the kind r is rejected.
Put(r) ==
    /\ ~stop
    /\ rejected[r] < MaxSpans
    /\ tally' = Add(tally, r, 1)
    /\ rejected' = [rejected EXCEPT ![r] = @ + 1]
    /\ UNCHANGED <<batch, loop, final, stop, closed, stored, failures>>

\* A branch of the select is taken, the ticker's or, when last, the stop's: its
\* flush takes the map over.
Flush(last) ==
    /\ loop = "select"
    /\ last => stop
    /\ final' = last
    /\ loop' = IF tally = Empty THEN After(last) ELSE "write"
    /\ batch' = tally
    /\ tally' = Empty
    /\ UNCHANGED <<stop, closed, stored, rejected, failures>>

\* WriteRejected returns nil.
Written ==
    /\ loop = "write"
    /\ stored' = Plus(stored, batch)
    /\ batch' = Empty
    /\ loop' = After(final)
    /\ UNCHANGED <<tally, final, stop, closed, rejected, failures>>

\* Mutant of WriteFails: the loop ends with the first error.
WriteFailsQuitting ==
    /\ loop = "write"
    /\ failures < MaxFailures
    /\ stored' \in {stored, Plus(stored, batch)}
    /\ failures' = failures + 1
    /\ loop' = "stopped"
    /\ UNCHANGED <<tally, batch, final, stop, closed, rejected>>

\* WriteRejected returns an error, at the latest when flushTimeout is over.
WriteFails ==
    /\ loop = "write"
    /\ failures < MaxFailures
    /\ stored' \in {stored, Plus(stored, batch)}
    /\ failures' = failures + 1
    /\ loop' = "merge"
    /\ UNCHANGED <<tally, batch, final, stop, closed, rejected>>

\* Mutant of Fitting: the merge does not go through add.
FittingAll(t) == {Kinds(batch) \ Kinds(t)}

\* The sets of new keys that the map t can have room for when the keys of the
\* batch are added in some order.
Fitting(t) ==
    LET new == Kinds(batch) \ Kinds(t)
    IN  {kept \in SUBSET new :
            \/ kept = new /\ Cardinality(Kinds(t) \cup kept) <= Cap
            \/ Cardinality(Kinds(t) \cup kept) = Cap}

\* Mutant of Merge: the batch replaces the map.
MergeReplacing ==
    /\ loop = "merge"
    /\ tally' = batch
    /\ batch' = Empty
    /\ loop' = After(final)
    /\ UNCHANGED <<final, stop, closed, stored, rejected, failures>>

\* The batch is added back to what was counted in the meantime.
Merge ==
    /\ loop = "merge"
    /\ \E kept \in Fitting(tally) :
          tally' = [r \in Rejections |->
                       tally[r] + (IF r \in Kinds(tally) \cup kept
                                   THEN batch[r] ELSE 0)]
    /\ batch' = Empty
    /\ loop' = After(final)
    /\ UNCHANGED <<final, stop, closed, stored, rejected, failures>>

\* The collector shuts the processor down.
Close ==
    /\ ~stop
    /\ stop' = TRUE
    /\ UNCHANGED <<tally, batch, loop, final, closed, stored, rejected, failures>>

\* Close has seen done closed, and closes the writer and the next store.
CloseReturn ==
    /\ stop
    /\ loop = "stopped"
    /\ ~closed
    /\ closed' = TRUE
    /\ UNCHANGED <<tally, batch, loop, final, stop, stored, rejected, failures>>

Next ==
    \/ \E r \in Rejections : Put(r)
    \/ \E last \in BOOLEAN : Flush(last)
    \/ Written
    \/ WriteFails
    \/ Merge
    \/ Close
    \/ CloseReturn

Spec == Init /\ [][Next]_vars

\* The ticker keeps firing, a write returns within its timeout, the runtime
\* schedules the goroutine, and a select whose stop is ready again and again
\* does not choose the ticker for ever.
Fairness ==
    /\ WF_vars(Flush(FALSE))
    /\ SF_vars(Flush(TRUE))
    /\ WF_vars(Written \/ WriteFails)
    /\ WF_vars(Merge)
    /\ WF_vars(CloseReturn)

FairSpec == Spec /\ Fairness
-----------------------------------------------------------------------------
TypeOK ==
    /\ tally \in [Rejections -> Nat]
    /\ batch \in [Rejections -> Nat]
    /\ loop \in Places
    /\ final \in BOOLEAN
    /\ stop \in BOOLEAN
    /\ closed \in BOOLEAN
    /\ stored \in [Rejections -> Nat]
    /\ rejected \in [Rejections -> Nat]
    /\ failures \in Nat

\* The map and the batch each count at most maxPendingRejections kinds, however
\* long ClickHouse is away: a merge respects the cap that add enforces.
TallyBounded ==
    /\ Cardinality(Kinds(tally)) <= Cap
    /\ Cardinality(Kinds(batch)) <= Cap

\* Between flushes nothing is in flight: what select waits with is in the map.
BatchInFlight ==
    loop \in {"select", "stopped"} => batch = Empty

Ledger == INSTANCE RejectionLedger
              WITH owed <- Plus(tally, batch), recorded <- stored

\* The store keeps the ledger's promise: through counting during a write, lost
\* and doubtful writes, merges at the cap and the shutdown, every rejected span
\* is recorded or still held, unless Cap other kinds crowded it out.
KeepsLedger == Ledger!Spec

\* Close returns: the loop leaves its select whatever the ticker and the writes
\* do.
CloseReturns == stop ~> closed

\* Once writes stop failing a counted rejection leaves memory, unless the store
\* is closed first.
CountsReachTable ==
    \A r \in Rejections : tally[r] > 0 ~> (tally[r] = 0 /\ batch[r] = 0) \/ stop
=============================================================================
