------------------------- MODULE RejectionTallyProofs -------------------------
(***************************************************************************)
(* For every set of rejections and every cap: the tally stays within its   *)
(* cap, and the store implements the ledger.                               *)
(***************************************************************************)
EXTENDS RejectionTally, FiniteSetTheorems, TLAPS

\* The inductive invariant: the cap holds for the map and for the batch, and
\* nothing is in flight outside a flush, so that taking the map over loses no
\* earlier batch.
IInv == TypeOK /\ TallyBounded /\ BatchInFlight

\* The kinds of a tally are finitely many.
LEMMA KindsFinite ==
    ASSUME NEW t
    PROVE  /\ IsFiniteSet(Kinds(t))
           /\ Cardinality(Kinds(t)) \in Nat
BY TallyAssumption, FS_Subset, FS_CardinalityType DEF Kinds

\* The empty map counts no kind.
LEMMA EmptyKinds ==
    /\ Empty \in [Rejections -> Nat]
    /\ Kinds(Empty) = {}
    /\ Cardinality(Kinds(Empty)) = 0
<1>1. Empty \in [Rejections -> Nat] /\ Kinds(Empty) = {}
    BY DEF Empty, Kinds
<1> QED
    BY <1>1, FS_EmptySet

\* add counts the span, or leaves a full map alone; it never exceeds the cap.
LEMMA AddStays ==
    ASSUME NEW t \in [Rejections -> Nat], NEW r \in Rejections,
           Cardinality(Kinds(t)) <= Cap
    PROVE  /\ Add(t, r, 1) \in [Rejections -> Nat]
           /\ Cardinality(Kinds(Add(t, r, 1))) <= Cap
<1>1. Add(t, r, 1) \in [Rejections -> Nat]
    BY DEF Add
<1>2. CASE r \in Kinds(t) \/ Cardinality(Kinds(t)) < Cap
    <2>1. Kinds(Add(t, r, 1)) = Kinds(t) \cup {r}
        BY <1>2 DEF Add, Kinds
    <2>2. Cardinality(Kinds(t) \cup {r}) <= Cap
        <3>1. Cardinality(Kinds(t) \cup {r}) =
                  IF r \in Kinds(t) THEN Cardinality(Kinds(t))
                                    ELSE Cardinality(Kinds(t)) + 1
            BY KindsFinite, FS_AddElement, Zenon
        <3> HIDE DEF Kinds
        <3> QED
            BY <1>2, <3>1, KindsFinite, TallyAssumption
    <2> QED
        BY <1>1, <2>1, <2>2
<1>3. CASE ~(r \in Kinds(t) \/ Cardinality(Kinds(t)) < Cap)
    BY <1>3 DEF Add
<1> QED
    BY <1>2, <1>3

\* What a merge makes of the map tally, when it keeps the new keys kept.
Merged(kept) ==
    [r \in Rejections |->
        tally[r] + (IF r \in Kinds(tally) \cup kept THEN batch[r] ELSE 0)]

\* A merge keeps the kinds the map had and the new ones it has room for.
LEMMA MergedKinds ==
    ASSUME TypeOK, NEW kept \in Fitting(tally)
    PROVE  /\ Merged(kept) \in [Rejections -> Nat]
           /\ Kinds(Merged(kept)) = Kinds(tally) \cup kept
           /\ Cardinality(Kinds(Merged(kept))) <= Cap
<1>1. kept \in SUBSET (Kinds(batch) \ Kinds(tally))
    BY DEF Fitting
<1>2. Merged(kept) \in [Rejections -> Nat]
    BY DEF Merged, TypeOK
<1>3. Kinds(Merged(kept)) = Kinds(tally) \cup kept
    BY <1>1 DEF Merged, Kinds, TypeOK
<1>4. Cardinality(Kinds(tally) \cup kept) <= Cap
    BY TallyAssumption DEF Fitting
<1> QED
    BY <1>2, <1>3, <1>4

\* The invariant holds when NewTallyStore returns.
LEMMA IInvInit == Init => IInv
<1> SUFFICES ASSUME Init PROVE IInv
    OBVIOUS
<1>1. TypeOK
    BY EmptyKinds DEF Init, TypeOK, Places
<1>2. TallyBounded
    BY EmptyKinds, TallyAssumption DEF Init, TallyBounded
<1> QED
    BY <1>1, <1>2 DEF Init, IInv, BatchInFlight

\* Every step of Put, of the loop and of Close preserves the invariant.
LEMMA IInvNext == IInv /\ [Next]_vars => IInv'
<1> SUFFICES ASSUME IInv, [Next]_vars PROVE IInv'
    OBVIOUS
<1> USE DEF IInv
<1>1. ASSUME NEW r \in Rejections, Put(r) PROVE IInv'
    <2>1. /\ tally' \in [Rejections -> Nat]
          /\ Cardinality(Kinds(tally')) <= Cap
        BY <1>1, AddStays DEF Put, TypeOK, TallyBounded
    <2>2. TypeOK'
        BY <1>1, <2>1 DEF Put, TypeOK
    <2>3. TallyBounded'
        BY <1>1, <2>1 DEF Put, TallyBounded, Kinds
    <2> QED
        BY <1>1, <2>2, <2>3 DEF Put, BatchInFlight
<1>2. ASSUME NEW last \in BOOLEAN, Flush(last) PROVE IInv'
    <2>1. TypeOK'
        BY <1>2, EmptyKinds DEF Flush, TypeOK, After, Places
    <2>2. TallyBounded'
        BY <1>2, EmptyKinds, TallyAssumption DEF Flush, TallyBounded, Kinds
    <2>3. BatchInFlight'
        BY <1>2 DEF Flush, BatchInFlight, Empty
    <2> QED
        BY <2>1, <2>2, <2>3
<1>3. ASSUME Written PROVE IInv'
    <2>1. TypeOK'
        BY <1>3, EmptyKinds DEF Written, TypeOK, After, Places, Plus
    <2>2. TallyBounded'
        BY <1>3, EmptyKinds, TallyAssumption DEF Written, TallyBounded, Kinds
    <2>3. BatchInFlight'
        BY <1>3 DEF Written, BatchInFlight, Empty
    <2> QED
        BY <2>1, <2>2, <2>3
<1>4. ASSUME WriteFails PROVE IInv'
    <2>1. TypeOK'
        BY <1>4 DEF WriteFails, TypeOK, Places, Plus
    <2> QED
        BY <1>4, <2>1 DEF WriteFails, TallyBounded, BatchInFlight, Kinds
<1>5. ASSUME Merge PROVE IInv'
    <2>1. PICK kept \in Fitting(tally) : tally' = Merged(kept)
        BY <1>5 DEF Merge, Merged
    <2>2. /\ tally' \in [Rejections -> Nat]
          /\ Cardinality(Kinds(tally')) <= Cap
        BY <2>1, MergedKinds
    <2>3. TypeOK'
        BY <1>5, <2>2, EmptyKinds DEF Merge, TypeOK, After, Places
    <2>4. TallyBounded'
        BY <1>5, <2>2, EmptyKinds, TallyAssumption DEF Merge, TallyBounded, Kinds
    <2>5. BatchInFlight'
        BY <1>5 DEF Merge, BatchInFlight, Empty
    <2> QED
        BY <2>3, <2>4, <2>5
<1>6. ASSUME Close \/ CloseReturn \/ UNCHANGED vars PROVE IInv'
    BY <1>6 DEF Close, CloseReturn, vars, TypeOK, TallyBounded, BatchInFlight,
                Kinds
<1> QED
    BY <1>1, <1>2, <1>3, <1>4, <1>5, <1>6 DEF Next

\* The invariant holds in every behaviour.
LEMMA IInvAlways == Spec => []IInv
BY IInvInit, IInvNext, PTL DEF Spec

\* For every number of workspaces, codes and failed writes, the map and the
\* batch stay within maxPendingRejections.
THEOREM Bounded == Spec => []TallyBounded
<1>1. IInv => TallyBounded
    BY DEF IInv
<1> QED
    BY <1>1, IInvAlways, PTL
-----------------------------------------------------------------------------
\* What the store owes the table: the counts in the map and those in flight.
Owed == Plus(tally, batch)

\* The ledger and the store add and compare tallies alike.
LEMMA SameOperators ==
    /\ \A s, t : Ledger!Plus(s, t) = Plus(s, t)
    /\ \A t : Ledger!Kinds(t) = Kinds(t)
    /\ Ledger!Nothing = Empty
    /\ \A S : Ledger!Cardinality(S) = Cardinality(S)
BY DEF Ledger!Plus, Plus, Ledger!Kinds, Kinds, Ledger!Nothing, Empty,
       Ledger!Cardinality, Cardinality

\* A new store owes nothing.
LEMMA LedgerInit == Init => Ledger!Init
BY SameOperators DEF Init, Ledger!Init, Plus, Empty

\* A call of Put is counted, or is overlooked by a map that is full of other
\* kinds.
LEMMA PutSimulates ==
    ASSUME IInv, NEW r \in Rejections, Put(r)
    PROVE  Ledger!Reject(r) \/ Ledger!Overlook(r)
<1>1. rejected' = Plus(rejected, Ledger!One(r))
    <2>1. Ledger!One(r) = [q \in Rejections |-> IF q = r THEN 1 ELSE 0]
        BY DEF Ledger!One, Ledger!Nothing
    <2>2. rejected' = [q \in Rejections |->
                          rejected[q] + (IF q = r THEN 1 ELSE 0)]
        <3>1. /\ rejected' = [rejected EXCEPT ![r] = rejected[r] + 1]
              /\ rejected \in [Rejections -> Nat]
            BY DEF Put, IInv, TypeOK
        <3>2. rejected' \in [Rejections -> Nat]
            BY <3>1
        <3>3. \A q \in Rejections :
                  rejected'[q] = rejected[q] + (IF q = r THEN 1 ELSE 0)
            BY <3>1
        <3> QED
            BY <3>2, <3>3
    <2> QED
        BY <2>1, <2>2 DEF Plus
<1>2. CASE r \in Kinds(tally) \/ Cardinality(Kinds(tally)) < Cap
    <2>1. Owed' = Plus(Owed, Ledger!One(r))
        BY <1>2, SameOperators
           DEF Put, Add, Owed, Ledger!One, Empty, Plus, IInv, TypeOK
    <2> QED
        BY <1>1, <2>1, SameOperators DEF Put, Ledger!Reject, Owed
<1>3. CASE ~(r \in Kinds(tally) \/ Cardinality(Kinds(tally)) < Cap)
    <2>1. Kinds(tally) \subseteq Kinds(Owed) \ {r}
        BY <1>3 DEF Kinds, Owed, Plus, IInv, TypeOK
    <2>2. Cardinality(Kinds(Owed) \ {r}) >= Cap
        <3>1. IsFiniteSet(Kinds(Owed) \ {r})
            BY KindsFinite, FS_RemoveElement
        <3>2. /\ Cardinality(Kinds(tally)) <= Cardinality(Kinds(Owed) \ {r})
              /\ Cardinality(Kinds(Owed) \ {r}) \in Nat
            BY <2>1, <3>1, FS_Subset, FS_CardinalityType
        <3> HIDE DEF Kinds
        <3> QED
            BY <1>3, <3>2, KindsFinite, TallyAssumption
    <2>3. tally' = tally
        BY <1>3 DEF Put, Add
    <2> QED
        BY <1>1, <2>2, <2>3, SameOperators DEF Put, Ledger!Overlook, Owed
<1> QED
    BY <1>2, <1>3

\* Taking the map over owes the table the same counts as before.
LEMMA FlushSimulates ==
    ASSUME IInv, NEW last \in BOOLEAN, Flush(last)
    PROVE  UNCHANGED Ledger!vars
<1>1. batch = Empty
    BY DEF Flush, IInv, BatchInFlight
<1>2. Owed' = Owed
    BY <1>1 DEF Flush, Owed, Plus, Empty, IInv, TypeOK
<1> QED
    BY <1>2 DEF Flush, Ledger!vars, Owed

\* A write that succeeds records the batch, and only the batch.
LEMMA WrittenSimulates ==
    ASSUME IInv, Written
    PROVE  Ledger!Record
<1>1. stored' \in [Rejections -> Nat]
    BY DEF Written, Plus, IInv, TypeOK
<1>2. \A r \in Rejections : stored[r] <= stored'[r]
    BY DEF Written, Plus, IInv, TypeOK
<1>3. Plus(stored', Owed') = Plus(stored, Owed)
    BY DEF Written, Owed, Plus, Empty, IInv, TypeOK
<1> QED
    BY <1>1, <1>2, <1>3, SameOperators DEF Written, Ledger!Record, Owed

\* A write that fails leaves everything owed.
LEMMA WriteFailsSimulates ==
    ASSUME IInv, WriteFails
    PROVE  Ledger!Fail
<1>1. stored' \in [Rejections -> Nat]
    BY DEF WriteFails, Plus, IInv, TypeOK
<1>2. \A r \in Rejections : stored'[r] \in stored[r]..(stored[r] + Owed[r])
    BY DEF WriteFails, Owed, Plus, IInv, TypeOK
<1>3. Owed' = Owed
    BY DEF WriteFails, Owed
<1> QED
    BY <1>1, <1>2, <1>3, SameOperators DEF WriteFails, Ledger!Fail, Owed

\* A merge gives up nothing, or leaves the map full.
LEMMA MergeSimulates ==
    ASSUME IInv, Merge
    PROVE  Ledger!Forget \/ UNCHANGED Ledger!vars
<1>1. PICK kept \in Fitting(tally) : tally' = Merged(kept)
    BY DEF Merge, Merged
<1> DEFINE given == Kinds(batch) \ (Kinds(tally) \cup kept)
<1>2. Owed' = [r \in Rejections |-> IF r \in given THEN 0 ELSE Owed[r]]
    <2> SUFFICES ASSUME NEW r \in Rejections
                 PROVE  Owed'[r] = IF r \in given THEN 0 ELSE Owed[r]
        BY DEF Owed, Plus
    <2>1. Owed'[r] = tally[r] + (IF r \in Kinds(tally) \cup kept
                                 THEN batch[r] ELSE 0)
        BY <1>1 DEF Merge, Merged, Owed, Plus, Empty, IInv, TypeOK
    <2>2. Owed[r] = tally[r] + batch[r]
        BY DEF Owed, Plus
    <2> QED
        BY <2>1, <2>2 DEF Kinds, IInv, TypeOK
<1>3. CASE given = {}
    <2>1. Owed' = Owed
        BY <1>2, <1>3 DEF Owed, Plus
    <2> QED
        BY <2>1 DEF Merge, Ledger!vars, Owed
<1>4. CASE given # {}
    <2>1. Cardinality(Kinds(tally) \cup kept) = Cap
        BY <1>4 DEF Fitting
    <2>2. Kinds(Owed') = Kinds(tally')
        BY DEF Merge, Owed, Plus, Kinds, Empty, IInv, TypeOK, Merged
    <2>3. Cardinality(Kinds(Owed')) >= Cap
        BY <1>1, <2>1, <2>2, MergedKinds, TallyAssumption DEF IInv
    <2>4. given \in SUBSET Rejections
        BY DEF Kinds
    <2> QED
        BY <1>2, <2>3, <2>4, SameOperators DEF Merge, Ledger!Forget, Owed
<1> QED
    BY <1>3, <1>4

\* Every step of the store is a step of the ledger, or leaves it alone.
LEMMA LedgerNext == IInv /\ [Next]_vars => [Ledger!Next]_(Ledger!vars)
<1> SUFFICES ASSUME IInv, [Next]_vars PROVE [Ledger!Next]_(Ledger!vars)
    OBVIOUS
<1>1. ASSUME NEW r \in Rejections, Put(r) PROVE Ledger!Next
    BY <1>1, PutSimulates DEF Ledger!Next
<1>2. ASSUME NEW last \in BOOLEAN, Flush(last) PROVE UNCHANGED Ledger!vars
    BY <1>2, FlushSimulates
<1>3. ASSUME Written PROVE Ledger!Next
    BY <1>3, WrittenSimulates DEF Ledger!Next
<1>4. ASSUME WriteFails PROVE Ledger!Next
    BY <1>4, WriteFailsSimulates DEF Ledger!Next
<1>5. ASSUME Merge PROVE [Ledger!Next]_(Ledger!vars)
    BY <1>5, MergeSimulates DEF Ledger!Next
<1>6. ASSUME Close \/ CloseReturn \/ UNCHANGED vars
      PROVE  UNCHANGED Ledger!vars
    BY <1>6 DEF Close, CloseReturn, vars, Ledger!vars
<1> QED
    BY <1>1, <1>2, <1>3, <1>4, <1>5, <1>6 DEF Next

\* The tally store implements the ledger: for every set of rejections and every
\* cap, each rejected span is recorded or held until it is, is given up only
\* with Cap other kinds held, and is recorded twice only by a failed write.
THEOREM Implements == Spec => KeepsLedger
<1>1. Init => Ledger!Init
    BY LedgerInit
<1>2. IInv /\ [Next]_vars => [Ledger!Next]_(Ledger!vars)
    BY LedgerNext
<1> QED
    BY <1>1, <1>2, IInvAlways, PTL DEF Spec, KeepsLedger, Ledger!Spec
=============================================================================
