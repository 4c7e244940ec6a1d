--------------------------- MODULE SenderBudgetProofs ---------------------------
(***************************************************************************)
(* The sender limiter keeps its promises for any number of senders, any    *)
(* limit, window and table size, and any length of time.  The argument is  *)
(* about one sender: what its window in the table, or its absence from     *)
(* it, says of the calls it was granted.                                   *)
(***************************************************************************)
EXTENDS SenderBudget, TLAPS, FiniteSetTheorems

\* Most leaves are set theory for Zenon; those that need more cite SMT.
USE ZenonT(30)

\* The calls of C from the time a to the time b.
Between(C, a, b) == {c \in C : c.at \in a..b}

\* The call that Ask adds to C at the time t.
Call(C, t) == [at |-> t, nth |-> Cardinality(C) + 1]

\* C is a finite history that ends at the time t, its calls numbered.
Known(C, t) ==
    /\ t \in Nat
    /\ IsFiniteSet(C)
    /\ \A c \in C : c.at \in 0..t /\ c.nth \in 1..Cardinality(C)

\* No stretch as long as the window has more than twice the limit.
Budgeted(C) ==
    \A u \in Int : Cardinality(Between(C, u, u + SenderWindow - 1)) <= 2 * SenderLimit

\* A window in the table counts the calls since its start, all of them within
\* the window, and not many came shortly before.
Running(w, C, t) ==
    /\ w.start \in 0..t /\ w.count \in 1..SenderLimit
    /\ Cardinality(Between(C, w.start, t)) = w.count
    /\ Cardinality(Between(C, w.start - SenderWindow + 1, w.start - 1)) <= SenderLimit
    /\ \A c \in C : c.at < w.start + SenderWindow

\* A sender that is not in the table used at most its limit lately, and nothing
\* just now.
Idle(C, t) ==
    /\ Cardinality(Between(C, t - SenderWindow + 1, t)) <= SenderLimit
    /\ \A c \in C : c.at < t

\* What the window w of a sender, with a limit, says of its calls C.
Accounted(w, C, t) ==
    /\ Known(C, t)
    /\ Budgeted(C)
    /\ IF w = Untracked THEN Idle(C, t) ELSE Running(w, C, t)

-----------------------------------------------------------------------------
\* A part of a finite history is finite and no larger.
LEMMA PartOf ==
    ASSUME NEW C, IsFiniteSet(C), NEW D, D \subseteq C
    PROVE  /\ IsFiniteSet(D)
           /\ Cardinality(D) \in Nat /\ Cardinality(C) \in Nat
           /\ Cardinality(D) <= Cardinality(C)
BY FS_Subset, FS_CardinalityType

\* The calls of a stretch can be counted.
LEMMA BetweenFinite ==
    ASSUME NEW C, NEW t, Known(C, t), NEW a, NEW b
    PROVE  IsFiniteSet(Between(C, a, b)) /\ Cardinality(Between(C, a, b)) \in Nat
BY PartOf DEF Known, Between

\* A call that is added is new, so that the history stays numbered and a
\* stretch that holds the call counts one more.
LEMMA CallAdded ==
    ASSUME NEW C, NEW t, Known(C, t)
    PROVE  /\ Known(C \cup {Call(C, t)}, t)
           /\ \A a, b \in Int :
                 Cardinality(Between(C \cup {Call(C, t)}, a, b)) =
                    IF t \in a..b THEN Cardinality(Between(C, a, b)) + 1
                    ELSE Cardinality(Between(C, a, b))
<1> DEFINE x == Call(C, t)
<1>1. x.at = t /\ x.nth = Cardinality(C) + 1
  BY DEF Call
<1>2. Cardinality(C) \in Nat /\ IsFiniteSet(C)
  BY PartOf DEF Known
<1>3. x \notin C
  BY <1>1, <1>2, SMTT(30) DEF Known
<1> HIDE DEF x
<1>4. IsFiniteSet(C \cup {x}) /\ Cardinality(C \cup {x}) = Cardinality(C) + 1
  BY <1>2, <1>3, FS_AddElement
<1>5. Known(C \cup {x}, t)
  <2>1. t \in Nat /\ \A c \in C : c.at \in 0..t /\ c.nth \in 1..Cardinality(C)
    BY DEF Known
  <2>2. \A c \in C \cup {x} : c.at \in 0..t /\ c.nth \in 1..(Cardinality(C) + 1)
    BY <1>1, <1>2, <2>1, SMTT(30)
  <2> QED
    BY <1>4, <2>1, <2>2 DEF Known
<1>6. ASSUME NEW a \in Int, NEW b \in Int
      PROVE  Cardinality(Between(C \cup {x}, a, b)) =
                IF t \in a..b THEN Cardinality(Between(C, a, b)) + 1
                ELSE Cardinality(Between(C, a, b))
  <2>1. IsFiniteSet(Between(C, a, b)) /\ x \notin Between(C, a, b)
    BY <1>3, BetweenFinite DEF Between
  <2>2. CASE t \in a..b
    <3>1. Between(C \cup {x}, a, b) = Between(C, a, b) \cup {x}
      BY <1>1, <2>2 DEF Between
    <3>2. Cardinality(Between(C, a, b) \cup {x}) = Cardinality(Between(C, a, b)) + 1
      BY <2>1, FS_AddElement
    <3> QED
      BY <2>2, <3>1, <3>2
  <2>3. CASE t \notin a..b
    <3>1. Between(C \cup {x}, a, b) = Between(C, a, b)
      BY <1>1, <2>3 DEF Between
    <3> QED
      BY <2>3, <3>1
  <2> QED
    BY <2>2, <2>3
<1> QED
  BY <1>5, <1>6 DEF x

\* A stretch that the added call is not in counts what it did.
LEMMA CallElsewhere ==
    ASSUME NEW C, NEW t, Known(C, t), NEW a \in Int, NEW b \in Int, t \notin a..b
    PROVE  Cardinality(Between(C \cup {Call(C, t)}, a, b)) = Cardinality(Between(C, a, b))
<1>1. Between(C \cup {Call(C, t)}, a, b) = Between(C, a, b)
  BY SMTT(30) DEF Between, Call
<1> QED
  BY <1>1

\* A stretch has no more calls than one that contains it, and no more than the
\* two that cover it.
LEMMA Narrower ==
    ASSUME NEW C, NEW t, Known(C, t), NEW a \in Int, NEW b \in Int, NEW c \in Int, NEW d \in Int,
           Between(C, a, b) \subseteq Between(C, c, d)
    PROVE  Cardinality(Between(C, a, b)) <= Cardinality(Between(C, c, d))
BY BetweenFinite, PartOf

\* A stretch has no more calls than its two parts.
LEMMA Covered ==
    ASSUME NEW C, NEW t, Known(C, t), NEW a \in Int, NEW b \in Int, NEW c \in Int, a <= c
    PROVE  Cardinality(Between(C, a, b)) <=
              Cardinality(Between(C, a, c - 1)) + Cardinality(Between(C, c, b))
<1> DEFINE L == Between(C, a, c - 1)
           R == Between(C, c, b)
<1>1. Between(C, a, b) \subseteq L \cup R
  BY SMTT(30) DEF Between, Known
<1>2. IsFiniteSet(L) /\ IsFiniteSet(R) /\ Cardinality(L) \in Nat /\ Cardinality(R) \in Nat
  BY BetweenFinite
<1> HIDE DEF L, R
<1>3. /\ IsFiniteSet(L \cup R)
      /\ Cardinality(L \cup R) = Cardinality(L) + Cardinality(R) - Cardinality(L \cap R)
  BY <1>2, FS_Union
<1>4. Cardinality(L \cap R) \in Nat
  BY <1>2, PartOf
<1>5. /\ Cardinality(Between(C, a, b)) <= Cardinality(L \cup R)
      /\ Cardinality(Between(C, a, b)) \in Nat
  BY <1>1, <1>3, PartOf
<1> QED
  BY <1>2, <1>3, <1>4, <1>5, PartOf, SMTT(30) DEF L, R

-----------------------------------------------------------------------------
(***************************************************************************)
(* What allow and the clock do to the account of one sender.               *)
(***************************************************************************)

\* Time passes.
LEMMA Later ==
    ASSUME NEW w \in Windows, NEW C, NEW t, Accounted(w, C, t)
    PROVE  Accounted(w, C, t + 1)
<1>0. Known(C, t) /\ t \in Nat /\ SenderWindow \in Nat
  BY SenderAssumption DEF Accounted, Known
<1>1. Known(C, t + 1)
  BY <1>0, SMTT(30) DEF Known
<1>2. CASE w = Untracked
  <2>1. Idle(C, t)
    BY <1>2 DEF Accounted
  <2>2. Between(C, t + 1 - SenderWindow + 1, t + 1) \subseteq Between(C, t - SenderWindow + 1, t)
    BY <1>0, SMTT(30) DEF Between, Known
  <2>3. Cardinality(Between(C, t + 1 - SenderWindow + 1, t + 1)) <= SenderLimit
    <3>1. Cardinality(Between(C, t - SenderWindow + 1, t)) <= SenderLimit
      BY <2>1 DEF Idle
    <3>2. /\ Cardinality(Between(C, t + 1 - SenderWindow + 1, t + 1))
                <= Cardinality(Between(C, t - SenderWindow + 1, t))
          /\ Cardinality(Between(C, t - SenderWindow + 1, t)) \in Nat
          /\ Cardinality(Between(C, t + 1 - SenderWindow + 1, t + 1)) \in Nat
      BY <1>0, <2>2, Narrower, BetweenFinite, SMTT(30)
    <3> QED
      BY <3>1, <3>2, SenderAssumption, SMTT(30)
  <2>4. Idle(C, t + 1)
    BY <1>0, <2>1, <2>3, SMTT(30) DEF Idle, Known
  <2> QED
    BY <1>1, <1>2, <2>4 DEF Accounted
<1>3. CASE w # Untracked
  <2>1. Running(w, C, t)
    BY <1>3 DEF Accounted
  <2>2. Between(C, w.start, t + 1) = Between(C, w.start, t)
    BY <1>0, <2>1, SMTT(30) DEF Between, Known, Running
  <2>3. Running(w, C, t + 1)
    BY <1>0, <2>1, <2>2, SMTT(30) DEF Running
  <2> QED
    BY <1>1, <1>3, <2>3 DEF Accounted
<1> QED
  BY <1>2, <1>3

\* A window that has elapsed leaves at most its limit of calls behind.
LEMMA Rested ==
    ASSUME NEW w \in Windows, NEW C, NEW t, Accounted(w, C, t),
           w = Untracked \/ Elapsed(w, t)
    PROVE  Idle(C, t)
<1>0. Known(C, t) /\ t \in Nat /\ SenderWindow \in Nat /\ SenderLimit \in Nat
  BY SenderAssumption DEF Accounted, Known
<1>1. CASE w = Untracked
  BY <1>1 DEF Accounted
<1>2. CASE w # Untracked
  <2>1. Running(w, C, t) /\ t - w.start >= SenderWindow
    BY <1>2 DEF Accounted, Elapsed
  <2>2. w.start \in Nat /\ w.count <= SenderLimit /\ w.count \in Nat
    BY <1>0, <2>1, SMTT(30) DEF Running
  <2>3. Between(C, t - SenderWindow + 1, t) \subseteq Between(C, w.start, t)
    BY <1>0, <2>1, <2>2, SMTT(30) DEF Between, Known
  <2>4. /\ Cardinality(Between(C, t - SenderWindow + 1, t)) <= Cardinality(Between(C, w.start, t))
        /\ Cardinality(Between(C, t - SenderWindow + 1, t)) \in Nat
    BY <1>0, <2>2, <2>3, Narrower, BetweenFinite, SMTT(30)
  <2>5. Cardinality(Between(C, t - SenderWindow + 1, t)) <= SenderLimit
    BY <1>0, <2>1, <2>2, <2>4, SMTT(30) DEF Running
  <2>6. \A c \in C : c.at < t
    BY <1>0, <2>1, <2>2, SMTT(30) DEF Known, Running
  <2> QED
    BY <2>5, <2>6 DEF Idle
<1> QED
  BY <1>1, <1>2

\* sweep drops it.
LEMMA Swept ==
    ASSUME NEW w \in Windows, NEW C, NEW t, Accounted(w, C, t), Elapsed(w, t)
    PROVE  Accounted(Untracked, C, t)
BY Rested DEF Accounted

\* A call within the limit, in a window that runs after it, stays within the
\* budget of every stretch.
LEMMA WithinBudget ==
    ASSUME NEW w \in Windows, NEW C, NEW t, Known(C, t), Budgeted(C),
           Running(w, C \cup {Call(C, t)}, t)
    PROVE  Budgeted(C \cup {Call(C, t)})
<1> DEFINE D == C \cup {Call(C, t)}
<1>0. t \in Nat /\ SenderWindow \in Nat /\ SenderLimit \in Nat
  BY SenderAssumption DEF Known
<1>1. Known(D, t)
  BY CallAdded
<1>2. w.start \in 0..t /\ w.count \in 1..SenderLimit
  BY DEF Running
<1>3. /\ Cardinality(Between(D, w.start - SenderWindow + 1, w.start - 1)) <= SenderLimit
      /\ Cardinality(Between(D, w.start, t)) <= SenderLimit
  BY <1>0, <1>2, SMTT(30) DEF Running
<1> SUFFICES ASSUME NEW u \in Int
             PROVE  Cardinality(Between(D, u, u + SenderWindow - 1)) <= 2 * SenderLimit
  BY DEF Budgeted
<1>4. CASE t \notin u..(u + SenderWindow - 1)
  <2>1. Cardinality(Between(D, u, u + SenderWindow - 1))
           = Cardinality(Between(C, u, u + SenderWindow - 1))
    <3> DEFINE v == u + SenderWindow - 1
    <3>1. v \in Int
      BY <1>0, SMTT(30)
    <3> HIDE DEF v
    <3>2. Cardinality(Between(D, u, v)) = IF t \in u..v THEN Cardinality(Between(C, u, v)) + 1
                                         ELSE Cardinality(Between(C, u, v))
      BY <3>1, CallAdded, SMTT(30)
    <3> QED
      BY <1>4, <3>2 DEF v
  <2> QED
    BY <2>1 DEF Budgeted
<1>5. CASE t \in u..(u + SenderWindow - 1)
  <2> DEFINE a == w.start - SenderWindow + 1
  <2>1. Between(D, u, u + SenderWindow - 1) \subseteq Between(D, a, t)
    BY <1>0, <1>1, <1>2, <1>5, SMTT(30) DEF Between, Known
  <2>2. a \in Int /\ w.start \in Int /\ a <= w.start + 1
    BY <1>0, <1>2, SMTT(30)
  <2>3. CASE a <= w.start
    <3> HIDE DEF D, a
    <3>1. Cardinality(Between(D, u, u + SenderWindow - 1)) <= Cardinality(Between(D, a, t))
      BY <1>0, <1>1, <2>1, <2>2, Narrower, SMTT(30)
    <3>2. Cardinality(Between(D, a, t))
             <= Cardinality(Between(D, a, w.start - 1)) + Cardinality(Between(D, w.start, t))
      BY <1>0, <1>1, <2>2, <2>3, Covered, SMTT(30)
    <3>3. /\ Cardinality(Between(D, u, u + SenderWindow - 1)) \in Nat
          /\ Cardinality(Between(D, a, t)) \in Nat
          /\ Cardinality(Between(D, a, w.start - 1)) \in Nat
          /\ Cardinality(Between(D, w.start, t)) \in Nat
      BY <1>1, BetweenFinite
    <3>4. Cardinality(Between(D, a, w.start - 1)) <= SenderLimit
      BY <1>3 DEF a
    <3> QED
      BY <1>0, <1>3, <3>1, <3>2, <3>3, <3>4, SMTT(30)
  <2> QED
    BY <1>0, <1>2, <2>3, SenderAssumption, SMTT(30)
<1> QED
  BY <1>4, <1>5

\* allow opens a window for a sender that has none, or whose window elapsed.
LEMMA Opened ==
    ASSUME NEW w \in Windows, NEW C, NEW t, Accounted(w, C, t), SenderLimit > 0,
           w = Untracked \/ Elapsed(w, t)
    PROVE  Accounted([count |-> 1, start |-> t], C \cup {Call(C, t)}, t)
<1> DEFINE D == C \cup {Call(C, t)}
           n == [count |-> 1, start |-> t]
<1>0. /\ Known(C, t) /\ Budgeted(C) /\ t \in Nat /\ SenderWindow \in Nat
      /\ SenderWindow > 0 /\ SenderLimit \in Nat
  BY SenderAssumption, SMTT(30) DEF Accounted, Known
<1>1. n \in Windows /\ n # Untracked /\ n.count = 1 /\ n.start = t
  BY <1>0, SMTT(30) DEF Windows, Untracked
<1>2. Idle(C, t)
  BY Rested
<1>3. Known(D, t)
  BY <1>0, CallAdded
<1>4. Cardinality(Between(D, t, t)) = 1
  <2>1. Between(C, t, t) = {}
    BY <1>0, <1>2, SMTT(30) DEF Between, Idle, Known
  <2>2. Cardinality(Between(C, t, t)) = 0
    BY <2>1, FS_EmptySet
  <2>3. t \in Int /\ t \in t..t
    BY <1>0, SMTT(30)
  <2>4. Cardinality(Between(D, t, t)) = Cardinality(Between(C, t, t)) + 1
    BY <1>0, <2>3, CallAdded
  <2> QED
    BY <2>2, <2>4, SMTT(30)
<1>5. Cardinality(Between(D, t - SenderWindow + 1, t - 1)) <= SenderLimit
  <2> DEFINE a == t - SenderWindow + 1
             b == t - 1
  <2>1. a \in Int /\ b \in Int /\ t \notin a..b /\ t \in Int
    BY <1>0, SMTT(30)
  <2>2. Between(C, a, b) \subseteq Between(C, a, t)
    BY <1>0, SMTT(30) DEF Between, Known
  <2>3. Cardinality(Between(C, a, t)) <= SenderLimit
    BY <1>2 DEF Idle
  <2> HIDE DEF a, b, D
  <2>4. /\ Cardinality(Between(C, a, b)) <= Cardinality(Between(C, a, t))
        /\ Cardinality(Between(C, a, b)) \in Nat /\ Cardinality(Between(C, a, t)) \in Nat
    BY <1>0, <2>1, <2>2, Narrower, BetweenFinite
  <2>5. Cardinality(Between(D, a, b)) = Cardinality(Between(C, a, b))
    BY <1>0, <2>1, CallElsewhere, SMTT(30) DEF D
  <2> QED
    BY <1>0, <2>3, <2>4, <2>5, SMTT(30) DEF a, b
<1>6. \A c \in D : c.at < t + SenderWindow
  BY <1>0, <1>3, SMTT(30) DEF Known
<1>7. Running(n, D, t)
  BY <1>0, <1>1, <1>4, <1>5, <1>6, SMTT(30) DEF Running
<1>8. Budgeted(D)
  BY <1>0, <1>1, <1>7, WithinBudget
<1> QED
  BY <1>1, <1>3, <1>7, <1>8 DEF Accounted

\* allow counts a call in the window that runs.
LEMMA Counted ==
    ASSUME NEW w \in Windows, NEW C, NEW t, Accounted(w, C, t),
           w # Untracked, ~Elapsed(w, t), w.count < SenderLimit
    PROVE  Accounted([count |-> w.count + 1, start |-> w.start], C \cup {Call(C, t)}, t)
<1> DEFINE D == C \cup {Call(C, t)}
           n == [count |-> w.count + 1, start |-> w.start]
<1>0. /\ Known(C, t) /\ Budgeted(C) /\ t \in Nat /\ SenderWindow \in Nat
      /\ SenderWindow > 0 /\ SenderLimit \in Nat
  BY SenderAssumption, SMTT(30) DEF Accounted, Known
<1>1. Running(w, C, t) /\ w.start \in 0..t /\ w.count \in 1..SenderLimit
  BY DEF Accounted, Running
<1>2. /\ n \in Windows /\ n.count = w.count + 1 /\ n.start = w.start
      /\ n.count \in 1..SenderLimit /\ n # Untracked
  BY <1>0, <1>1, SMTT(30) DEF Windows, Untracked
<1>3. Known(D, t)
  BY <1>0, CallAdded
<1>4. Cardinality(Between(D, w.start, t)) = w.count + 1
  <2>1. w.start \in Int /\ t \in Int /\ t \in w.start..t
    BY <1>0, <1>1, SMTT(30)
  <2>2. Cardinality(Between(D, w.start, t)) = Cardinality(Between(C, w.start, t)) + 1
    BY <1>0, <2>1, CallAdded
  <2> QED
    BY <1>1, <2>2 DEF Running
<1>5. Cardinality(Between(D, w.start - SenderWindow + 1, w.start - 1)) <= SenderLimit
  <2> DEFINE a == w.start - SenderWindow + 1
             b == w.start - 1
  <2>1. a \in Int /\ b \in Int /\ t \notin a..b
    BY <1>0, <1>1, SMTT(30)
  <2>2. Cardinality(Between(C, a, b)) <= SenderLimit
    BY <1>1 DEF Running
  <2> HIDE DEF a, b, D
  <2>3. Cardinality(Between(D, a, b)) = Cardinality(Between(C, a, b))
    BY <1>0, <2>1, CallElsewhere, SMTT(30) DEF D
  <2> QED
    BY <2>2, <2>3 DEF a, b
<1>6. \A c \in D : c.at < w.start + SenderWindow
  <2>1. t < w.start + SenderWindow
    BY <1>0, <1>1, SMTT(30) DEF Elapsed
  <2> QED
    BY <1>0, <1>1, <1>3, <2>1, SMTT(30) DEF Known
<1> HIDE DEF D, n
<1>7. Running(n, D, t)
  BY <1>1, <1>2, <1>4, <1>5, <1>6 DEF Running
<1>8. Budgeted(D)
  BY <1>0, <1>2, <1>7, WithinBudget DEF D
<1>9. Accounted(n, D, t)
  BY <1>2, <1>3, <1>7, <1>8 DEF Accounted
<1> QED
  BY <1>9 DEF n, D

-----------------------------------------------------------------------------
\* Room sweeps elapsed windows or leaves the table, and never touches the
\* sender that asks.
LEMMA RoomOf ==
    ASSUME NEW tab \in [Senders -> Windows], NEW s \in Senders, NEW t \in Nat
    PROVE  /\ Room(tab, s, t) \in [Senders -> Windows]
           /\ Room(tab, s, t)[s] = tab[s]
           /\ \A q \in Senders :
                 \/ Room(tab, s, t)[q] = tab[q]
                 \/ Room(tab, s, t)[q] = Untracked /\ Elapsed(tab[q], t)
<1>1. Untracked \in Windows
  BY DEF Untracked, Windows
<1>2. CASE Room(tab, s, t) = tab
  BY <1>2
<1>3. CASE Room(tab, s, t) = Sweep(tab, t) /\ tab[s] = Untracked
  BY <1>1, <1>3 DEF Sweep
<1> QED
  BY <1>2, <1>3 DEF Room, Tracked

\* What allow does to the window of the sender that asks.
LEMMA ChargeOwn ==
    ASSUME NEW tab \in [Senders -> Windows], NEW s \in Senders, NEW t \in Nat, SenderLimit > 0
    PROVE  LET w == Charge(tab, s, t)[s] IN
           /\ ~Allowed(tab, s, t) => w = tab[s]
           /\ Allowed(tab, s, t) /\ (tab[s] = Untracked \/ Elapsed(tab[s], t)) =>
                 w = [count |-> 1, start |-> t]
           /\ Allowed(tab, s, t) /\ ~(tab[s] = Untracked \/ Elapsed(tab[s], t)) =>
                 /\ tab[s].count < SenderLimit
                 /\ w = [count |-> tab[s].count + 1, start |-> tab[s].start]
<1>0. SenderLimit # 0 /\ (s \in Tracked(tab) <=> tab[s] # Untracked)
  BY SenderAssumption, SMTT(30) DEF Tracked
<1>1. Room(tab, s, t) \in [Senders -> Windows] /\ Room(tab, s, t)[s] = tab[s]
  BY RoomOf
<1>2. CASE ~Allowed(tab, s, t)
  BY <1>0, <1>1, <1>2 DEF Charge
<1>3. CASE Allowed(tab, s, t)
  <2>1. ~(tab[s] = Untracked \/ Elapsed(tab[s], t)) => tab[s].count < SenderLimit
    BY <1>0, <1>3 DEF Allowed
  <2> QED
    BY <1>0, <1>1, <1>3, <2>1 DEF Charge
<1> QED
  BY <1>2, <1>3

\* What it does to the others', and that the table stays one.
LEMMA ChargeOthers ==
    ASSUME NEW tab \in [Senders -> Windows], NEW s \in Senders, NEW t \in Nat
    PROVE  /\ Charge(tab, s, t) \in [Senders -> Windows]
           /\ \A q \in Senders \ {s} :
                 \/ Charge(tab, s, t)[q] = tab[q]
                 \/ Charge(tab, s, t)[q] = Untracked /\ Elapsed(tab[q], t)
<1>1. /\ Room(tab, s, t) \in [Senders -> Windows]
      /\ \A q \in Senders :
            \/ Room(tab, s, t)[q] = tab[q]
            \/ Room(tab, s, t)[q] = Untracked /\ Elapsed(tab[q], t)
  BY RoomOf
<1>2. CASE SenderLimit = 0
  BY <1>2 DEF Charge
<1>3. CASE SenderLimit # 0 /\ ~Allowed(tab, s, t)
  BY <1>1, <1>3 DEF Charge
<1>4. CASE SenderLimit # 0 /\ Allowed(tab, s, t)
  <2>1. PICK w \in Windows : Charge(tab, s, t) = [Room(tab, s, t) EXCEPT ![s] = w]
    <3>1. [count |-> 1, start |-> t] \in Windows
      BY DEF Windows
    <3>2. LET r == Room(tab, s, t)[s] IN [count |-> r.count + 1, start |-> r.start] \in Windows
      BY <1>1, SMTT(30) DEF Windows
    <3> QED
      BY <1>4, <3>1, <3>2 DEF Charge
  <2> QED
    BY <1>1, <2>1
<1> QED
  BY <1>2, <1>3, <1>4

\* allow lets the table grow only while there is room.
LEMMA ChargeBounded ==
    ASSUME NEW tab \in [Senders -> Windows], NEW s \in Senders, NEW t \in Nat,
           IsFiniteSet(Tracked(tab)), Cardinality(Tracked(tab)) <= MaxSenders
    PROVE  /\ IsFiniteSet(Tracked(Charge(tab, s, t)))
           /\ Cardinality(Tracked(Charge(tab, s, t))) <= MaxSenders
<1> DEFINE room == Room(tab, s, t)
           next == Charge(tab, s, t)
<1>0. MaxSenders \in Nat
  BY SenderAssumption
<1>1. Tracked(room) \subseteq Tracked(tab)
  BY RoomOf, SMTT(30) DEF Tracked
<1>2. /\ IsFiniteSet(Tracked(room)) /\ Cardinality(Tracked(room)) \in Nat
      /\ Cardinality(Tracked(room)) <= MaxSenders
  BY <1>0, <1>1, PartOf, SMTT(30)
<1>3. CASE next = tab \/ next = room
  BY <1>2, <1>3
<1>4. CASE Allowed(tab, s, t) /\ SenderLimit # 0 /\ s \in Tracked(tab)
  <2>1. Tracked(next) \subseteq Tracked(tab)
    BY <1>4, ChargeOthers DEF Tracked
  <2> QED
    BY <1>0, <2>1, PartOf, SMTT(30)
<1>5. CASE Allowed(tab, s, t) /\ SenderLimit # 0 /\ s \notin Tracked(tab)
  <2>1. Cardinality(Tracked(room)) < MaxSenders
    BY <1>5 DEF Allowed
  <2>2. Tracked(next) \subseteq Tracked(room) \cup {s}
    <3>1. \A q \in Senders \ {s} : next[q] = room[q]
      BY <1>5, RoomOf DEF Charge
    <3> QED
      BY <3>1 DEF Tracked
  <2>3. s \notin Tracked(room)
    BY <1>1, <1>5
  <2>4. /\ IsFiniteSet(Tracked(room) \cup {s})
        /\ Cardinality(Tracked(room) \cup {s}) = Cardinality(Tracked(room)) + 1
    BY <1>2, <2>3, FS_AddElement
  <2> QED
    BY <1>0, <1>2, <2>1, <2>2, <2>4, PartOf, SMTT(30)
<1>6. CASE SenderLimit = 0 \/ ~Allowed(tab, s, t)
  BY <1>3, <1>6 DEF Charge
<1> QED
  BY <1>4, <1>5, <1>6

-----------------------------------------------------------------------------
\* The senders that were ever granted a call.
Callers == {s \in Senders : spent[s] # {}}

\* The inductive invariant.  With the limit off, allow keeps no table.
Inv ==
    /\ now \in Nat
    /\ seen \in [Senders -> Windows]
    /\ DOMAIN spent = Senders
    /\ IsFiniteSet(Callers)
    /\ IsFiniteSet(Tracked(seen)) /\ Cardinality(Tracked(seen)) <= MaxSenders
    /\ SenderLimit > 0 => \A s \in Senders : Accounted(seen[s], spent[s], now)

\* The invariant holds of a limiter that was never asked.
LEMMA InvInit == Init => Inv
<1> SUFFICES ASSUME Init PROVE Inv
  OBVIOUS
<1>0. SenderLimit \in Nat /\ SenderWindow \in Nat /\ MaxSenders \in Nat
  BY SenderAssumption
<1>1. now \in Nat /\ seen \in [Senders -> Windows] /\ DOMAIN spent = Senders
  BY DEF Init, Windows, Untracked
<1>2. Callers = {} /\ Tracked(seen) = {}
  BY DEF Init, Callers, Tracked
<1>3. IsFiniteSet({}) /\ Cardinality({}) = 0
  BY FS_EmptySet
<1>4. Accounted(Untracked, {}, 0)
  <2>1. \A a, b \in Int : Between({}, a, b) = {}
    BY DEF Between
  <2>2. Known({}, 0)
    BY <1>3 DEF Known
  <2>3. \A a, b \in Int : Cardinality(Between({}, a, b)) = 0
    BY <1>3, <2>1
  <2>4. Budgeted({})
    BY <1>0, <2>3, SMTT(30) DEF Budgeted
  <2>5. Idle({}, 0)
    BY <1>0, <2>3, SMTT(30) DEF Idle
  <2> QED
    BY <2>2, <2>4, <2>5 DEF Accounted
<1>5. \A s \in Senders : seen[s] = Untracked /\ spent[s] = {} /\ now = 0
  BY DEF Init
<1>6. IsFiniteSet(Callers) /\ IsFiniteSet(Tracked(seen)) /\ Cardinality(Tracked(seen)) = 0
  BY <1>2, <1>3
<1>7. \A s \in Senders : Accounted(seen[s], spent[s], now)
  BY <1>4, <1>5
<1> QED
  BY <1>0, <1>1, <1>6, <1>7, SMTT(30) DEF Inv

\* A question of s changes the history of s alone, by at most one call.
LEMMA AskSpends ==
    ASSUME Inv, NEW s \in Senders, Ask(s)
    PROVE  /\ DOMAIN spent' = Senders
           /\ \A q \in Senders \ {s} : spent'[q] = spent[q]
           /\ spent'[s] = IF Allowed(seen, s, now)
                          THEN spent[s] \cup {Call(spent[s], now)} ELSE spent[s]
           /\ IsFiniteSet(Callers')
<1>1. /\ DOMAIN spent' = Senders
      /\ \A q \in Senders \ {s} : spent'[q] = spent[q]
      /\ spent'[s] = IF Allowed(seen, s, now)
                     THEN spent[s] \cup {Call(spent[s], now)} ELSE spent[s]
  BY DEF Inv, Ask, Call
<1>2. Callers' \subseteq Callers \cup {s}
  BY <1>1 DEF Callers
<1>3. IsFiniteSet(Callers)
  BY DEF Inv
<1>4. IsFiniteSet(Callers \cup {s})
  BY <1>3, FS_AddElement
<1>5. IsFiniteSet(Callers')
  BY <1>2, <1>4, FS_Subset
<1> QED
  BY <1>1, <1>5

\* A call of allow keeps the invariant.
LEMMA InvAsk ==
    ASSUME Inv, NEW s \in Senders, Ask(s)
    PROVE  Inv'
<1>1. seen \in [Senders -> Windows] /\ now \in Nat /\ now' = now /\ seen' = Charge(seen, s, now)
  BY DEF Inv, Ask
<1>2. seen' \in [Senders -> Windows]
  BY <1>1, ChargeOthers
<1>3. IsFiniteSet(Tracked(seen)) /\ Cardinality(Tracked(seen)) <= MaxSenders
  BY DEF Inv
<1>4. IsFiniteSet(Tracked(seen')) /\ Cardinality(Tracked(seen')) <= MaxSenders
  BY <1>1, <1>3, ChargeBounded
<1>5. ASSUME SenderLimit > 0, NEW q \in Senders
      PROVE  Accounted(seen'[q], spent'[q], now')
  <2>1. Accounted(seen[q], spent[q], now) /\ seen[q] \in Windows
    BY <1>1, <1>5 DEF Inv
  <2>2. CASE q # s
    <3>1. spent'[q] = spent[q]
      BY <2>2, AskSpends
    <3>2. seen'[q] = seen[q] \/ (seen'[q] = Untracked /\ Elapsed(seen[q], now))
      BY <1>1, <2>2, ChargeOthers
    <3> QED
      BY <1>1, <2>1, <3>1, <3>2, Swept
  <2>3. CASE q = s
    <3>1. CASE ~Allowed(seen, s, now)
      <4>1. seen'[s] = seen[s] /\ spent'[s] = spent[s]
        BY <1>1, <1>5, <3>1, ChargeOwn, AskSpends
      <4> QED
        BY <1>1, <2>1, <2>3, <4>1
    <3>2. CASE Allowed(seen, s, now) /\ (seen[s] = Untracked \/ Elapsed(seen[s], now))
      <4>1. /\ seen'[s] = [count |-> 1, start |-> now]
            /\ spent'[s] = spent[s] \cup {Call(spent[s], now)}
        BY <1>1, <1>5, <3>2, ChargeOwn, AskSpends
      <4> QED
        BY <1>1, <1>5, <2>1, <2>3, <3>2, <4>1, Opened, SMTT(30)
    <3>3. CASE Allowed(seen, s, now) /\ ~(seen[s] = Untracked \/ Elapsed(seen[s], now))
      <4>0. spent'[s] = spent[s] \cup {Call(spent[s], now)}
        BY <3>3, AskSpends
      <4>1. /\ seen[s].count < SenderLimit
            /\ seen'[s] = [count |-> seen[s].count + 1, start |-> seen[s].start]
        BY <1>1, <1>5, <3>3, ChargeOwn
      <4>2. /\ Accounted(seen[s], spent[s], now) /\ seen[s] \in Windows
            /\ seen[s] # Untracked /\ ~Elapsed(seen[s], now)
        BY <2>1, <2>3, <3>3
      <4>3. Accounted(seen'[s], spent'[s], now)
        BY <4>0, <4>1, <4>2, Counted, SMTT(30)
      <4> QED
        BY <1>1, <2>3, <4>3
    <3> QED
      BY <3>1, <3>2, <3>3
  <2> QED
    BY <2>2, <2>3
<1>6. DOMAIN spent' = Senders /\ IsFiniteSet(Callers')
  BY AskSpends
<1> QED
  BY <1>1, <1>2, <1>4, <1>5, <1>6 DEF Inv, Tracked

\* Every step keeps the invariant.
LEMMA InvNext == Inv /\ [Next]_vars => Inv'
<1> SUFFICES ASSUME Inv, [Next]_vars PROVE Inv'
  OBVIOUS
<1>1. CASE Tick
  <2>1. now' = now + 1 /\ seen' = seen /\ spent' = spent
    BY <1>1 DEF Tick
  <2>2. ASSUME SenderLimit > 0, NEW s \in Senders
        PROVE  Accounted(seen[s], spent[s], now + 1)
    BY <2>2, Later DEF Inv
  <2> QED
    BY <2>1, <2>2, SMTT(30) DEF Inv, Callers, Tracked
<1>2. ASSUME NEW s \in Senders, Ask(s) PROVE Inv'
  BY <1>2, InvAsk
<1>3. CASE UNCHANGED vars
  BY <1>3 DEF vars, Inv, Callers, Tracked
<1> QED
  BY <1>1, <1>2, <1>3 DEF Next

\* The invariant holds in every behaviour.
LEMMA Invariance == Spec => []Inv
BY InvInit, InvNext, PTL DEF Spec

-----------------------------------------------------------------------------
\* allow keeps the budget, for any number of senders, any limit and window and
\* however long the clock runs: no sender is granted more than twice its limit
\* of calls in any stretch as long as the window.
THEOREM BudgetKept == Spec => []BudgetHolds
<1>1. Inv => BudgetHolds
  <2> SUFFICES ASSUME Inv, SenderLimit > 0, NEW s \in Senders, NEW t \in 0..MaxTime
               PROVE  Granted(s, t) <= 2 * SenderLimit
    BY DEF BudgetHolds
  <2>1. Budgeted(spent[s]) /\ t \in Int
    BY SMTT(30) DEF Inv, Accounted
  <2> QED
    BY <2>1 DEF Budgeted, Granted, Calls, Between
<1> QED
  BY <1>1, Invariance, PTL

\* allow never lets its table exceed maxEntries, whatever senders appear.
THEOREM TableKept == Spec => []TableBounded
<1>1. Inv => TableBounded
  BY DEF Inv, TableBounded
<1> QED
  BY <1>1, Invariance, PTL

\* allow refuses for a cause only: the sender used its own limit up within the
\* last window, or maxEntries other senders called in that time.
THEOREM RefusalsHaveCause == Spec => []RefusedForCause
<1>1. Inv => RefusedForCause
  <2> SUFFICES ASSUME Inv, NEW s \in Senders, ~Allowed(seen, s, now)
               PROVE  \/ Granted(s, now - SenderWindow + 1) >= SenderLimit
                      \/ Cardinality({q \in Senders \ {s} : Recent(q)}) >= MaxSenders
    BY DEF RefusedForCause
  <2>0. /\ SenderLimit > 0 /\ SenderLimit \in Nat /\ SenderWindow \in Nat /\ MaxSenders \in Nat
        /\ now \in Nat /\ seen \in [Senders -> Windows]
    BY SenderAssumption, SMTT(30) DEF Inv, Allowed
  <2>1. ASSUME NEW q \in Senders, seen[q] # Untracked
        PROVE  /\ Known(spent[q], now) /\ seen[q].start \in 0..now /\ seen[q].count \in 1..SenderLimit
               /\ Cardinality(Between(spent[q], seen[q].start, now)) = seen[q].count
    BY <2>0, <2>1 DEF Inv, Accounted, Running
  <2>2. ASSUME NEW q \in Senders, seen[q] # Untracked, ~Elapsed(seen[q], now)
        PROVE  Between(spent[q], seen[q].start, now) \subseteq Calls(q, now - SenderWindow + 1, now)
    <3>1. /\ seen[q].start \in Nat /\ now - SenderWindow + 1 <= seen[q].start
          /\ \A c \in spent[q] : c.at \in Nat
      BY <2>0, <2>1, <2>2, SMTT(30) DEF Elapsed, Known
    <3> QED
      BY <2>0, <3>1, SMTT(30) DEF Between, Calls
  <2>3. CASE s \in Tracked(seen)
    <3>1. /\ seen[s] # Untracked /\ ~Elapsed(seen[s], now) /\ ~(seen[s].count < SenderLimit)
      BY <2>3 DEF Tracked, Allowed
    <3>2. Cardinality(Between(spent[s], seen[s].start, now)) = SenderLimit
      BY <2>0, <2>1, <3>1, SMTT(30)
    <3>3. Calls(s, now - SenderWindow + 1, now) = Between(spent[s], now - SenderWindow + 1, now)
      BY DEF Calls, Between
    <3>4. Cardinality(Between(spent[s], seen[s].start, now)) <=
             Cardinality(Between(spent[s], now - SenderWindow + 1, now))
      <4>1. now - SenderWindow + 1 \in Int /\ now \in Int /\ seen[s].start \in Int
        BY <2>0, <2>1, <3>1, SMTT(30)
      <4> QED
        BY <2>1, <2>2, <3>1, <3>3, <4>1, Narrower
    <3>5. now - SenderWindow + 1 + SenderWindow - 1 = now
      BY <2>0, SMTT(30)
    <3> QED
      BY <3>2, <3>3, <3>4, <3>5 DEF Granted
  <2>4. CASE s \notin Tracked(seen)
    <3> DEFINE room == Room(seen, s, now)
               others == {q \in Senders \ {s} : Recent(q)}
    <3>1. ~(Cardinality(Tracked(room)) < MaxSenders)
      BY <2>4 DEF Allowed
    <3>2. room = Sweep(seen, now)
      <4>1. Cardinality(Tracked(seen)) \in Nat
        BY FS_CardinalityType DEF Inv
      <4> QED
        BY <2>0, <2>4, <3>1, <4>1, SMTT(30) DEF Room
    <3>3. ASSUME NEW q \in Tracked(room)
          PROVE  q \in Senders \ {s} /\ seen[q] # Untracked /\ ~Elapsed(seen[q], now)
      <4>1. q \in Senders /\ room[q] # Untracked
        BY DEF Tracked
      <4>2. room[q] = IF Elapsed(seen[q], now) THEN Untracked ELSE seen[q]
        BY <3>2, <4>1 DEF Sweep
      <4>3. seen[s] = Untracked
        BY <2>4 DEF Tracked
      <4> QED
        BY <4>1, <4>2, <4>3, SMTT(30)
    <3>4. ASSUME NEW q \in Tracked(room)
          PROVE  q \in others
      <4>1. q \in Senders \ {s} /\ seen[q] # Untracked /\ ~Elapsed(seen[q], now)
        BY <3>3
      <4>2. Cardinality(Between(spent[q], seen[q].start, now)) # 0
        BY <2>0, <2>1, <4>1, SMTT(30)
      <4>3. Between(spent[q], seen[q].start, now) # {}
        BY <4>2, FS_EmptySet
      <4> QED
        BY <2>2, <4>1, <4>3 DEF Recent
    <3>5. others \subseteq Callers
      BY DEF Recent, Calls, Callers
    <3>6. IsFiniteSet(others)
      BY <3>5, FS_Subset DEF Inv
    <3>7. /\ Cardinality(Tracked(room)) <= Cardinality(others)
          /\ Cardinality(Tracked(room)) \in Nat /\ Cardinality(others) \in Nat
      BY <3>4, <3>6, PartOf
    <3> QED
      BY <2>0, <3>1, <3>7, SMTT(30)
  <2> QED
    BY <2>3, <2>4
<1> QED
  BY <1>1, Invariance, PTL
================================================================================
