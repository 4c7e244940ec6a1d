---------------------------- MODULE RejectionLedger ----------------------------
(***************************************************************************)
(* What the rejection tally promises, without its mutex, its loop or its   *)
(* writes: each span rejected for a workspace is owed to the table         *)
(* rejected_spans until it is recorded there, once.  Two exceptions are    *)
(* part of the promise.  A count is given up only while Cap other kinds of *)
(* rejection are owed, and a count is recorded a second time only by a     *)
(* write that reported a failure.                                          *)
(***************************************************************************)
EXTENDS Naturals, FiniteSets

CONSTANTS
    Rejections,    \* the pairs of a workspace and an error code
    Cap            \* maxPendingRejections

VARIABLES
    rejected,    \* spans rejected so far, of each kind
    owed,        \* those the table has still to be told of
    recorded,    \* the spans column of rejected_spans
    failures     \* writes that reported an error

vars == <<rejected, owed, recorded, failures>>

\* The kinds of rejection that a tally counts.
Kinds(tally) == {r \in Rejections : tally[r] > 0}

\* The pointwise sum of two tallies.
Plus(s, t) == [r \in Rejections |-> s[r] + t[r]]

Nothing == [r \in Rejections |-> 0]

Init ==
    /\ rejected = Nothing
    /\ owed = Nothing
    /\ recorded = Nothing
    /\ failures = 0

One(r) == [Nothing EXCEPT ![r] = 1]

\* A span is rejected and owed.
Reject(r) ==
    /\ rejected' = Plus(rejected, One(r))
    /\ owed' = Plus(owed, One(r))
    /\ UNCHANGED <<recorded, failures>>

\* A span is rejected while Cap other kinds are owed, and goes uncounted.
Overlook(r) ==
    /\ Cardinality(Kinds(owed) \ {r}) >= Cap
    /\ rejected' = Plus(rejected, One(r))
    /\ UNCHANGED <<owed, recorded, failures>>

\* Some of what is owed is recorded, and owed no more.
Record ==
    /\ recorded' \in [Rejections -> Nat]
    /\ \A r \in Rejections : recorded[r] <= recorded'[r]
    /\ Plus(recorded', owed') = Plus(recorded, owed)
    /\ UNCHANGED <<rejected, failures>>

\* A write fails; the table may hold some of what is owed all the same.
Fail ==
    /\ recorded' \in [Rejections -> Nat]
    /\ \A r \in Rejections : recorded'[r] \in recorded[r]..(recorded[r] + owed[r])
    /\ failures' = failures + 1
    /\ UNCHANGED <<rejected, owed>>

\* Some kinds are given up, and Cap others stay owed in full.
Forget ==
    /\ \E given \in SUBSET Rejections :
          owed' = [r \in Rejections |-> IF r \in given THEN 0 ELSE owed[r]]
    /\ Cardinality(Kinds(owed')) >= Cap
    /\ UNCHANGED <<rejected, recorded, failures>>

Next ==
    \/ \E r \in Rejections : Reject(r) \/ Overlook(r)
    \/ Record
    \/ Fail
    \/ Forget

Spec == Init /\ [][Next]_vars
=============================================================================
