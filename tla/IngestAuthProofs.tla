--------------------------- MODULE IngestAuthProofs ---------------------------
(***************************************************************************)
(* IngestAuth's safety properties, for any keys, requests, senders, TTLs   *)
(* and capacities.                                                         *)
(*                                                                         *)
(* The inductive invariant, Inv, says who leads a call (Leaders), what a   *)
(* waiter knows of its leader (Waiters), what a positive result in the     *)
(* cache, in a leader's hands or on the wire is worth (Results), and what  *)
(* has been decided (Verdicts). First come what the cache and the limiter  *)
(* do to their tables, and that a step keeps the types and each part of    *)
(* Inv; then that Inv is an invariant, and what follows from it.           *)
(***************************************************************************)
EXTENDS IngestAuth, TLAPS

\* Most leaves are set theory for Zenon; those that need more cite SMT.
USE ZenonT(30)

\* The in-flight slot of a key and the request leading it name each other.
Leaders ==
    /\ \A r \in Requests : pc[r] \in Leading => inflight[key[r]] = r
    /\ \A k \in Keys : inflight[k] # NoRequest =>
          /\ pc[inflight[k]] \in Leading
          /\ key[inflight[k]] = k

\* A waiter's leader verifies the same key and has yet to close its call; a
\* late waiter's leader does not accept.
Waiters ==
    \A w \in Requests : pc[w] = "wait" =>
        /\ leader[w] \in Requests
        /\ pc[leader[w]] \in Leading \cup {"close"}
        /\ key[leader[w]] = key[w]
        /\ w \in late => verdict[leader[w]] \notin Workspaces

\* A positive result e for k comes from an API call that began before any
\* revocation of k, and expires within the trust it was given.
Trusted(k, e) ==
    e.ok =>
        /\ CacheTTL > 0
        /\ e.workspace = WorkspaceOf[k]
        /\ e.expires <= e.verifiedAt + Trust
        /\ e.verifiedAt <= now
        /\ k \in valid \/ e.verifiedAt <= revokedAt[k] + Timeout
        /\ k \notin refused

CacheTrusted == \A k \in Keys : Trusted(k, entry[k])

HeldTrusted ==
    \A r \in Requests : held[r].ok => pc[r] = "restale" /\ Trusted(key[r], held[r])

\* What the API answered to a call still holds of the key, or the key has
\* been revoked since the call was sent.
AnswersTrue ==
    \A r \in Requests :
        /\ sentAt[r] <= now
        /\ answer[r] # None => pc[r] = "call"
        /\ answer[r] = Unauthenticated => key[r] \notin valid
        /\ answer[r] \in Workspaces =>
              /\ answer[r] = WorkspaceOf[key[r]]
              /\ key[r] \in valid \/ sentAt[r] <= revokedAt[key[r]]
              /\ key[r] \notin refused

Results == CacheTrusted /\ HeldTrusted /\ AnswersTrue /\ refused \cap valid = {}

Verdicts ==
    /\ \A r \in Requests :
          verdict[r] # None => pc[r] \in {"restale", "finish", "close", "return"}
    /\ \A r \in Requests : verdict[r] \in Workspaces =>
          /\ verdict[r] = WorkspaceOf[key[r]]
          /\ pc[r] \in Leading => key[r] \notin refused
    /\ \A r \in Requests : verdict[r] = Canceled =>
          /\ gone[r]
          /\ pc[r] = "close" => abandoned[r]
    /\ \A r \in late :
          /\ pc[r] # "idle"
          /\ key[r] \in refused
          /\ verdict[r] \notin Workspaces

Inv == TypeOK /\ Leaders /\ Waiters /\ Results /\ Verdicts
-----------------------------------------------------------------------------
(***************************************************************************)
(* What the cache and the limiter do to their tables.                      *)
(***************************************************************************)

\* A store changes no entry but the one it writes and the ones it evicts.
LEMMA StoreEntryEffect ==
    ASSUME TypeOK, NEW k \in Keys, NEW e \in Entries, StoreEntry(k, e)
    PROVE  /\ entry' \in [Keys -> Entries]
           /\ rank' \in [Keys -> Nat]
           /\ \A j \in Keys : \/ entry'[j] = Blank
                              \/ j # k /\ entry'[j] = entry[j]
                              \/ j = k /\ entry'[j] = e
<1>1. Blank \in Entries
  BY DEF Blank, Entries
<1>2. \A j \in Keys : Fronted(k)[j] \in Nat
  BY SMTT(30) DEF TypeOK, Fronted
<1> QED
  BY <1>1, <1>2 DEF StoreEntry, TypeOK

\* The list keeps its type when an entry is used.
LEMMA TouchEffect ==
    ASSUME TypeOK, NEW k \in Keys, Touch(k)
    PROVE  rank' \in [Keys -> Nat] /\ entry' = entry
BY SMTT(30) DEF Touch, Fronted, TypeOK

\* Charging a sender keeps the limiter's table a table of windows.
LEMMA ChargeType ==
    ASSUME NEW table \in [Senders -> Windows], NEW s \in Senders, NEW t \in Nat
    PROVE  Charge(table, s, t) \in [Senders -> Windows]
<1>1. Untracked \in Windows
  BY DEF Untracked, Windows
<1>2. Room(table, s, t) \in [Senders -> Windows]
  BY <1>1 DEF Room, Sweep
<1>3. [count |-> 1, start |-> t] \in Windows
  BY DEF Windows
<1>4. \A w \in Windows : [count |-> w.count + 1, start |-> w.start] \in Windows
  BY SMTT(30) DEF Windows
<1> QED
  BY <1>2, <1>3, <1>4 DEF Charge

\* A positive result is stored with the trust of a fresh one.
LEMMA StorePositiveEffect ==
    ASSUME TypeOK, NEW k \in Keys, NEW w \in Workspaces, StorePositive(k, w)
    PROVE  /\ entry' \in [Keys -> Entries]
           /\ rank' \in [Keys -> Nat]
           /\ \A j \in Keys :
                \/ entry'[j] = entry[j]
                \/ ~entry'[j].ok
                \/ /\ j = k
                   /\ CacheTTL > 0
                   /\ entry'[j].workspace = w
                   /\ entry'[j].verifiedAt = now
                   /\ entry'[j].expires = now + CacheTTL
<1>1. CASE CacheTTL = 0
  BY <1>1 DEF StorePositive, TypeOK, cache
<1>2. CASE CacheTTL # 0
  <2> DEFINE e == [ok |-> TRUE, workspace |-> w,
                   expires |-> now + CacheTTL, verifiedAt |-> now]
  <2>1. e \in Entries
    BY AuthAssumption, SMTT(30) DEF Entries, TypeOK
  <2>2. StoreEntry(k, e)
    BY <1>2 DEF StorePositive
  <2> QED
    BY <1>2, <2>1, <2>2, StoreEntryEffect, AuthAssumption, SMTT(30) DEF Blank
<1> QED
  BY <1>1, <1>2

\* A rejection displaces the positive result of its key, if there is a cache.
LEMMA StoreNegativeEffect ==
    ASSUME TypeOK, NEW k \in Keys, StoreNegative(k)
    PROVE  /\ entry' \in [Keys -> Entries]
           /\ rank' \in [Keys -> Nat]
           /\ \A j \in Keys : entry'[j] = entry[j] \/ ~entry'[j].ok
           /\ CacheTTL > 0 => ~entry'[k].ok
<1>1. CASE CacheTTL = 0
  BY <1>1, SMTT(30) DEF StoreNegative, TypeOK, cache
<1>2. CASE CacheTTL # 0
  <2> DEFINE e == [ok |-> FALSE, workspace |-> None,
                   expires |-> now + ShortTTL, verifiedAt |-> 0]
  <2>1. e \in Entries
    BY AuthAssumption, SMTT(30) DEF Entries, TypeOK, ShortTTL, Lesser
  <2>2. StoreEntry(k, e)
    BY <1>2 DEF StoreNegative
  <2> QED
    BY <2>1, <2>2, StoreEntryEffect, SMTT(30) DEF Blank
<1> QED
  BY <1>1, <1>2

\* Re-caching a stale positive never moves its expiry past its deadline.
LEMMA StoreStaleEffect ==
    ASSUME TypeOK, NEW k \in Keys, NEW e \in Entries, StoreStaleEntry(k, e)
    PROVE  /\ entry' \in [Keys -> Entries]
           /\ rank' \in [Keys -> Nat]
           /\ \A j \in Keys :
                \/ entry'[j] = entry[j]
                \/ ~entry'[j].ok
                \/ /\ j = k
                   /\ e.ok
                   /\ entry'[j].workspace = e.workspace
                   /\ entry'[j].verifiedAt = e.verifiedAt
                   /\ entry'[j].expires <= e.verifiedAt + MaxStaleAge
<1>1. CASE ~(now < e.verifiedAt + MaxStaleAge)
  BY <1>1 DEF StoreStaleEntry, TypeOK, cache
<1>2. CASE now < e.verifiedAt + MaxStaleAge
  <2> DEFINE x == Lesser(now + ShortTTL, e.verifiedAt + MaxStaleAge)
             f == [e EXCEPT !.expires = x]
  <2>1. /\ x \in Nat
        /\ x <= e.verifiedAt + MaxStaleAge
    BY AuthAssumption, SMTT(30) DEF Entries, TypeOK, ShortTTL, Lesser
  <2>2. /\ f \in Entries
        /\ f.ok = e.ok
        /\ f.workspace = e.workspace
        /\ f.verifiedAt = e.verifiedAt
        /\ f.expires = x
    BY <2>1 DEF Entries
  <2>3. StoreEntry(k, f)
    BY <1>2 DEF StoreStaleEntry
  <2> HIDE DEF f, x
  <2> QED
    BY <2>1, <2>2, <2>3, StoreEntryEffect, SMTT(30) DEF Blank
<1> QED
  BY <1>1, <1>2
-----------------------------------------------------------------------------
(***************************************************************************)
(* The invariant, one part at a time.                                      *)
(***************************************************************************)

\* The ways to fail are not workspaces, and differ from one another.
LEMMA ErrorsApart ==
    /\ None \notin Workspaces
    /\ Unauthenticated \notin Workspaces
    /\ Failed \notin Workspaces
    /\ Canceled \notin Workspaces
    /\ None # Unauthenticated /\ None # Failed /\ None # Canceled
    /\ Unauthenticated # Canceled /\ Failed # Canceled
BY AuthAssumption DEF Errors, None, Unauthenticated, Failed, Canceled

\* A cache hit that accepts does so on a trusted entry, of the key's workspace.
LEMMA DecisionSound ==
    ASSUME TypeOK, Results, NEW k \in Keys, Decision(k) \in Workspaces
    PROVE  /\ entry[k].ok
           /\ Decision(k) = WorkspaceOf[k]
           /\ Trusted(k, entry[k])
           /\ k \notin refused
<1>1. entry[k].ok
  BY AuthAssumption DEF Decision, Errors
<1> QED
  BY <1>1 DEF Results, CacheTrusted, Trusted, Decision

\* What the invariant says of the variables that Results is about.
LEMMA ResultFacts ==
    ASSUME Inv
    PROVE  /\ TypeOK /\ CacheTrusted /\ HeldTrusted /\ AnswersTrue /\ refused \cap valid = {}
           /\ now \in Nat /\ valid \in SUBSET Keys /\ revokedAt \in [Keys -> Int]
           /\ entry \in [Keys -> Entries] /\ held \in [Requests -> Entries]
           /\ pc \in [Requests -> Stages] /\ key \in [Requests -> Keys]
           /\ sentAt \in [Requests -> Nat]
           /\ answer \in [Requests -> Workspaces \cup {None, Unauthenticated}]
           /\ refused \in SUBSET Keys
BY DEF Inv, TypeOK, Results

\* A collector that has just started satisfies the invariant.
LEMMA InvInit == Init => Inv
<1> SUFFICES ASSUME Init
             PROVE  Inv
  OBVIOUS
<1>1. AnyKey \in Keys /\ AnySender \in Senders
  BY AuthAssumption DEF AnyKey, AnySender
<1>2. Blank \in Entries /\ Untracked \in Windows /\ ~Blank.ok
  BY DEF Blank, Entries, Untracked, Windows
<1>3. NotIssued \in Int
  BY AuthAssumption, SMTT(30) DEF NotIssued, TrustBound, Trust
<1>4. TypeOK
  BY <1>1, <1>2, <1>3 DEF Init, TypeOK, Stages, Errors
<1>5. Leaders /\ Waiters
  BY DEF Init, Leaders, Waiters, Leading
<1>6. Results
  BY <1>2, ErrorsApart, SMTT(30)
     DEF Init, Results, CacheTrusted, HeldTrusted, AnswersTrue, Trusted
<1>7. Verdicts
  BY ErrorsApart DEF Init, Verdicts
<1> QED
  BY <1>4, <1>5, <1>6, <1>7 DEF Inv

-----------------------------------------------------------------------------
(***************************************************************************)
(* Results.                                                                *)
(***************************************************************************)

\* The API judges a key by whether it is valid at that moment.
LEMMA EvaluateResults ==
    ASSUME Inv, NEW r \in Requests, Evaluate(r)
    PROVE  Results'
<1> USE DEF api, cache, local, history
<1>1. CacheTrusted'
  BY ResultFacts, AuthAssumption DEF CacheTrusted, Trusted, Entries, Evaluate
<1>2. HeldTrusted'
  BY ResultFacts, AuthAssumption DEF HeldTrusted, Trusted, Entries, Evaluate
<1>3. AnswersTrue'
  BY ResultFacts, ErrorsApart, AuthAssumption, SMTT(30) DEF AnswersTrue, Evaluate
<1> QED
  BY ResultFacts, <1>1, <1>2, <1>3, ErrorsApart, AuthAssumption DEF Results,
     AnswersTrue, Evaluate

\* A revocation is dated now, after every answer already given.
LEMMA RevokeResults ==
    ASSUME Inv, NEW k \in Keys, Revoke(k)
    PROVE  Results'
<1> USE DEF api, cache, local, history
<1>1. CacheTrusted'
  BY ResultFacts, AuthAssumption, SMTT(30) DEF CacheTrusted, Trusted, Entries, Revoke
<1>2. HeldTrusted'
  BY ResultFacts, AuthAssumption, SMTT(30) DEF HeldTrusted, Trusted, Entries, Revoke
<1>3. AnswersTrue'
  BY ResultFacts, ErrorsApart, AuthAssumption DEF AnswersTrue, Revoke
<1> QED
  BY ResultFacts, <1>1, <1>2, <1>3, ErrorsApart, AuthAssumption DEF Results,
     AnswersTrue, Revoke

\* Time passes: a deadline that has come does not move.
LEMMA TickResults ==
    ASSUME Inv, Tick
    PROVE  Results'
<1> USE DEF api, cache, local, history
<1>1. CacheTrusted'
  BY ResultFacts, SMTT(30) DEF CacheTrusted, Trusted, Entries, Tick
<1>2. HeldTrusted'
  BY ResultFacts, SMTT(30) DEF HeldTrusted, Trusted, Entries, Tick
<1>3. AnswersTrue'
  BY ResultFacts, ErrorsApart, SMTT(30) DEF AnswersTrue, Tick
<1> QED
  BY ResultFacts, <1>1, <1>2, <1>3, ErrorsApart DEF Results, AnswersTrue, Tick

\* getStale hands out the entry the cache trusts.
LEMMA LookupStaleResults ==
    ASSUME Inv, NEW r \in Requests, LookupStale(r)
    PROVE  Results'
<1> USE DEF api, cache, local, history
<1>1. /\ pc[r] \in {"limited", "fallback"}
      /\ UNCHANGED <<now, valid, revokedAt, entry, key, sentAt, answer, refused>>
  BY DEF LookupStale
<1>2. \/ /\ pc' = [pc EXCEPT ![r] = "restale"]
         /\ held' = [held EXCEPT ![r] = entry[key[r]]]
      \/ /\ pc' = [pc EXCEPT ![r] = "finish"]
         /\ held' = held
  BY DEF LookupStale, Go
<1>3. CacheTrusted'
  BY <1>1, ResultFacts DEF CacheTrusted, Trusted
<1>4. HeldTrusted'
  <2>1. key[r] \in Keys /\ Trusted(key[r], entry[key[r]])
    BY ResultFacts DEF CacheTrusted
  <2> QED
    BY <1>1, <1>2, <2>1, ResultFacts DEF HeldTrusted, Trusted
<1>5. AnswersTrue'
  BY <1>1, <1>2, ResultFacts DEF AnswersTrue
<1> QED
  BY <1>1, <1>3, <1>4, <1>5, ResultFacts DEF Results

\* The stale entry goes back with its own stale deadline.
LEMMA StoreStaleResults ==
    ASSUME Inv, NEW r \in Requests, StoreStale(r)
    PROVE  Results'
<1> USE DEF api, cache, local, history
<1>1. /\ pc[r] = "restale" /\ StoreStaleEntry(key[r], held[r])
      /\ pc' = [pc EXCEPT ![r] = "finish"] /\ held' = [held EXCEPT ![r] = Blank]
      /\ UNCHANGED <<now, valid, revokedAt, key, sentAt, answer, refused>>
  BY DEF StoreStale, Go
<1>2. /\ key[r] \in Keys /\ held[r] \in Entries
      /\ Trusted(key[r], held[r])
  BY ResultFacts DEF HeldTrusted, Trusted
<1>3. CacheTrusted'
  <2>1. TypeOK /\ CacheTrusted /\ now \in Nat /\ entry \in [Keys -> Entries]
    BY ResultFacts
  <2> QED
    BY <1>1, <1>2, <2>1, StoreStaleEffect, AuthAssumption, SMTT(30)
       DEF CacheTrusted, Trusted, Trust, Entries
<1>4. HeldTrusted'
  BY <1>1, ResultFacts DEF HeldTrusted, Trusted, Blank
<1>5. AnswersTrue'
  BY <1>1, ResultFacts DEF AnswersTrue
<1> QED
  BY <1>1, <1>3, <1>4, <1>5, ResultFacts DEF Results

\* An answer is stored for the trust it earns, and a refusal replaces whatever
\* was stored for its key.
LEMMA ReceiveResults ==
    ASSUME Inv, NEW r \in Requests, Receive(r)
    PROVE  Results'
<1> USE DEF api, cache, local, history
<1>1. key[r] \in Keys /\ answer[r] \in Workspaces \cup {Unauthenticated}
  BY ResultFacts DEF Receive
<1>2. /\ pc[r] = "call" /\ now <= sentAt[r] + Timeout
      /\ pc' = [pc EXCEPT ![r] = "finish"]
      /\ sentAt' = [sentAt EXCEPT ![r] = 0] /\ answer' = [answer EXCEPT ![r] = None]
      /\ UNCHANGED <<now, valid, revokedAt, key, held>>
  BY DEF Receive, Go, CallOver
<1>3. \A q \in Requests : pc[q] \in Leading /\ key[q] = key[r] => q = r
  BY <1>2, SMTT(30) DEF Inv, TypeOK, Leaders, Leading
<1>4. \A q \in Requests : held[q].ok \/ answer[q] # None => pc[q] \in Leading
  BY ResultFacts DEF HeldTrusted, AnswersTrue, Leading
<1>5. CASE answer[r] # Unauthenticated
  <2>1. StorePositive(key[r], answer[r]) /\ refused' = refused
    BY <1>5 DEF Receive
  <2>2. CacheTrusted'
    BY <1>1, <1>2, <1>5, <2>1, ResultFacts, StorePositiveEffect, AuthAssumption, SMTT(30)
       DEF AnswersTrue, CacheTrusted, Trusted, Trust
  <2>3. HeldTrusted'
    BY <1>2, <2>1, ResultFacts DEF HeldTrusted, Trusted
  <2>4. AnswersTrue'
    BY <1>2, <2>1, ResultFacts, ErrorsApart, SMTT(30) DEF AnswersTrue
  <2> QED
    BY <1>2, <2>1, <2>2, <2>3, <2>4, ResultFacts DEF Results
<1>6. CASE answer[r] = Unauthenticated
  <2>1. StoreNegative(key[r]) /\ refused' = refused \cup {key[r]}
    BY <1>6 DEF Receive
  <2>2. CacheTrusted'
    BY <1>1, <1>2, <2>1, ResultFacts, StoreNegativeEffect DEF CacheTrusted, Trusted
  <2>3. HeldTrusted'
    BY <1>2, <1>3, <1>4, <2>1, ResultFacts DEF HeldTrusted, Trusted
  <2>4. AnswersTrue'
    BY <1>2, <1>3, <1>4, <2>1, ResultFacts, ErrorsApart, SMTT(30) DEF AnswersTrue
  <2>5. refused' \cap valid' = {}
    BY <1>2, <1>6, <2>1, ResultFacts DEF AnswersTrue
  <2> QED
    BY <2>2, <2>3, <2>4, <2>5 DEF Results
<1> QED
  BY <1>5, <1>6
-----------------------------------------------------------------------------
(***************************************************************************)
(* The calls in flight: who leads them and who waits.                      *)
(***************************************************************************)

\* joinInflight and finishInflight keep the slot and its leader in step.
LEMMA LeadersStep ==
    ASSUME TypeOK, Leaders, [Next]_vars
    PROVE  Leaders'
<1> USE DEF api, cache, local, history
<1>0. /\ Leaders /\ inflight \in [Keys -> Requests \cup {NoRequest}]
      /\ pc \in [Requests -> Stages] /\ key \in [Requests -> Keys]
  BY DEF TypeOK
<1>1. ASSUME NEW r \in Requests, NEW k \in Keys, NEW s \in Senders, Start(r, k, s)
       PROVE  Leaders'
  BY <1>0, <1>1, AuthAssumption, SMTT(30) DEF Leaders, Leading, Start, Go
<1>2. ASSUME NEW r \in Requests, Cancel(r)
       PROVE  Leaders'
  BY <1>0, <1>2, AuthAssumption DEF Leaders, Leading, Cancel
<1>3. ASSUME NEW r \in Requests, Evaluate(r)
       PROVE  Leaders'
  BY <1>0, <1>3, AuthAssumption DEF Leaders, Leading, Evaluate
<1>4. ASSUME NEW k \in Keys, Revoke(k)
       PROVE  Leaders'
  BY <1>0, <1>4, AuthAssumption DEF Leaders, Leading, Revoke
<1>5. CASE Tick
  BY <1>0, <1>5, AuthAssumption DEF Leaders, Leading, Tick
<1>6. ASSUME NEW r \in Requests, Lookup(r)
       PROVE  Leaders'
  BY <1>0, <1>6, AuthAssumption, SMTT(30) DEF Leaders, Leading, Lookup, Go
<1>7. ASSUME NEW r \in Requests, Join(r)
       PROVE  Leaders'
  BY <1>0, <1>7, AuthAssumption, SMTT(30) DEF Leaders, Leading, Join, Go
<1>8. ASSUME NEW r \in Requests, WaitCanceled(r)
       PROVE  Leaders'
  BY <1>0, <1>8, AuthAssumption, SMTT(30) DEF Leaders, Leading, WaitCanceled, Go
<1>9. ASSUME NEW r \in Requests, Recheck(r)
       PROVE  Leaders'
  BY <1>0, <1>9, AuthAssumption, SMTT(30) DEF Leaders, Leading, Recheck, Go
<1>10. ASSUME NEW r \in Requests, Allow(r)
       PROVE  Leaders'
  BY <1>0, <1>10, AuthAssumption, SMTT(30) DEF Leaders, Leading, Allow, Go
<1>11. ASSUME NEW r \in Requests, LookupStale(r)
       PROVE  Leaders'
  BY <1>0, <1>11, AuthAssumption, SMTT(30) DEF Leaders, Leading, LookupStale, Go
<1>12. ASSUME NEW r \in Requests, StoreStale(r)
       PROVE  Leaders'
  BY <1>0, <1>12, AuthAssumption, SMTT(30) DEF Leaders, Leading, StoreStale, Go
<1>13. ASSUME NEW r \in Requests, Receive(r)
       PROVE  Leaders'
  BY <1>0, <1>13, AuthAssumption, SMTT(30) DEF Leaders, Leading, Receive, Go, CallOver
<1>14. ASSUME NEW r \in Requests, Unreachable(r)
       PROVE  Leaders'
  BY <1>0, <1>14, AuthAssumption, SMTT(30) DEF Leaders, Leading, Unreachable, Go,
     CallOver
<1>15. ASSUME NEW r \in Requests, Disconnected(r)
       PROVE  Leaders'
  BY <1>0, <1>15, AuthAssumption, SMTT(30) DEF Leaders, Leading, Disconnected, Go,
     CallOver
<1>16. ASSUME NEW r \in Requests, Finish(r)
       PROVE  Leaders'
  BY <1>0, <1>16, AuthAssumption, SMTT(30) DEF Leaders, Leading, Finish, Go
<1>17. ASSUME NEW r \in Requests, Close(r)
       PROVE  Leaders'
  BY <1>0, <1>17, AuthAssumption, SMTT(30) DEF Leaders, Leading, Close
<1>18. ASSUME NEW r \in Requests, Return(r)
       PROVE  Leaders'
  BY <1>0, <1>18, AuthAssumption, SMTT(30) DEF Leaders, Leading, Return, Go
<1>19. CASE UNCHANGED vars
  BY <1>0, <1>19, AuthAssumption DEF Leaders, Leading, vars
<1> QED
  BY <1>1, <1>2, <1>3, <1>4, <1>5, <1>6, <1>7, <1>8, <1>9, <1>10, <1>11,
     <1>12, <1>13, <1>14, <1>15, <1>16, <1>17, <1>18, <1>19 DEF Next, Step

\* A step of a leader on its way to close the call: it keeps its key, and if it
\* accepts, the key has not been refused.
LeadsOn(r) ==
    /\ pc[r] \in Leading
    /\ \E stage \in Leading \cup {"close"} : pc' = [pc EXCEPT ![r] = stage]
    /\ \A q \in Requests \ {r} : verdict'[q] = verdict[q]
    /\ verdict'[r] \in Workspaces \ {verdict[r]} => key[r] \notin refused
    /\ UNCHANGED <<key, leader, late>>

\* Such a step leaves the waiters of the call with their leader.
LEMMA LeadsOnWaiters ==
    ASSUME Inv, NEW r \in Requests, LeadsOn(r)
    PROVE  Waiters'
<1>0. /\ Waiters /\ Verdicts /\ pc \in [Requests -> Stages]
      /\ verdict \in [Requests -> Workspaces \cup Errors]
  BY DEF Inv, TypeOK
<1>1. PICK stage \in Leading \cup {"close"} : pc' = [pc EXCEPT ![r] = stage]
  BY DEF LeadsOn
<1> SUFFICES ASSUME NEW w \in Requests, pc'[w] = "wait"
             PROVE  /\ leader[w] \in Requests
                    /\ pc'[leader[w]] \in Leading \cup {"close"}
                    /\ key[leader[w]] = key[w]
                    /\ w \in late => verdict'[leader[w]] \notin Workspaces
  BY DEF Waiters, LeadsOn
<1>2. pc[w] = "wait"
  BY <1>0, <1>1 DEF Leading
<1>3. /\ leader[w] \in Requests /\ pc[leader[w]] \in Leading \cup {"close"}
      /\ key[leader[w]] = key[w]
      /\ w \in late => verdict[leader[w]] \notin Workspaces /\ key[w] \in refused
  BY <1>0, <1>2 DEF Waiters, Verdicts
<1>4. pc'[leader[w]] \in Leading \cup {"close"}
  BY <1>0, <1>1, <1>3
<1>5. w \in late => verdict'[leader[w]] \notin Workspaces
  BY <1>3 DEF LeadsOn
<1> QED
  BY <1>3, <1>4, <1>5

\* Every step of a leader between joining the call and closing it is one.
LEMMA LeaderSteps ==
    ASSUME Inv, NEW r \in Requests,
           \/ Recheck(r) \/ Allow(r) \/ LookupStale(r) \/ StoreStale(r) \/ Receive(r)
           \/ Unreachable(r) \/ Disconnected(r) \/ Finish(r)
    PROVE  LeadsOn(r)
<1> USE DEF api, cache, local, history
<1>0. /\ CacheTrusted /\ AnswersTrue /\ key[r] \in Keys /\ r \in Requests
      /\ verdict \in [Requests -> Workspaces \cup Errors]
      /\ answer \in [Requests -> Workspaces \cup {None, Unauthenticated}]
  BY DEF Inv, TypeOK, Results
<1>1. CASE Recheck(r)
  <2>1. Decision(key[r]) \in Workspaces => key[r] \notin refused
    BY <1>0, DecisionSound DEF Inv
  <2> QED
    BY <1>0, <1>1, <2>1 DEF LeadsOn, Leading, Recheck, Go, Give
<1>2. CASE Allow(r)
  BY <1>2 DEF LeadsOn, Leading, Allow, Go
<1>3. CASE LookupStale(r)
  <2>1. Stale(key[r]) => key[r] \notin refused
    BY <1>0 DEF CacheTrusted, Trusted, Stale
  <2> QED
    BY <1>0, <1>3, <2>1, ErrorsApart DEF LeadsOn, Leading, LookupStale, Go, Give
<1>4. CASE StoreStale(r)
  BY <1>4 DEF LeadsOn, Leading, StoreStale, Go
<1>5. CASE Receive(r)
  <2>1. answer[r] \in Workspaces => key[r] \notin refused
    BY <1>0 DEF AnswersTrue
  <2>2. /\ pc[r] = "call" /\ pc' = [pc EXCEPT ![r] = "finish"]
        /\ verdict' = [verdict EXCEPT ![r] = answer[r]]
        /\ UNCHANGED <<key, leader, late>>
    BY <1>5 DEF Receive, CallOver, Go, Give
  <2> QED
    BY <1>0, <2>1, <2>2 DEF LeadsOn, Leading
<1>6. CASE Unreachable(r)
  BY <1>6 DEF LeadsOn, Leading, Unreachable, CallOver, Go
<1>7. CASE Disconnected(r)
  BY <1>0, <1>7, ErrorsApart DEF LeadsOn, Leading, Disconnected, CallOver, Go, Give
<1>8. CASE Finish(r)
  BY <1>8 DEF LeadsOn, Leading, Finish, Go
<1> QED
  BY <1>1, <1>2, <1>3, <1>4, <1>5, <1>6, <1>7, <1>8

\* A leader keeps its key until it has closed its call, and does not accept on
\* behalf of a request that started after the key's refusal.
LEMMA WaitersStep ==
    ASSUME Inv, [Next]_vars
    PROVE  Waiters'
<1> USE DEF api, cache, local, history
<1>0. /\ Leaders /\ Waiters /\ Verdicts
      /\ inflight \in [Keys -> Requests \cup {NoRequest}]
      /\ pc \in [Requests -> Stages] /\ key \in [Requests -> Keys]
      /\ leader \in [Requests -> Requests \cup {NoRequest}]
      /\ verdict \in [Requests -> Workspaces \cup Errors]
      /\ late \in SUBSET Requests
  BY DEF Inv, TypeOK
<1>1. ASSUME NEW r \in Requests, NEW k \in Keys, NEW s \in Senders, Start(r, k, s)
      PROVE  Waiters'
  <2>1. /\ pc[r] = "idle" /\ pc'[r] = "lookup"
        /\ \A q \in Requests \ {r} :
              pc'[q] = pc[q] /\ key'[q] = key[q] /\ (q \in late' => q \in late)
        /\ UNCHANGED <<leader, verdict>>
    BY <1>0, <1>1 DEF Start, Go
  <2> QED
    BY <1>0, <2>1 DEF Waiters, Leading
<1>2. ASSUME NEW r \in Requests, Cancel(r) \/ Evaluate(r)
      PROVE  Waiters'
  BY <1>0, <1>2 DEF Waiters, Cancel, Evaluate
<1>3. ASSUME NEW k \in Keys, Revoke(k)
      PROVE  Waiters'
  BY <1>0, <1>3 DEF Waiters, Revoke
<1>4. CASE Tick
  BY <1>0, <1>4 DEF Waiters, Tick
<1>5. ASSUME NEW r \in Requests, Lookup(r)
      PROVE  Waiters'
  <2>1. /\ pc[r] = "lookup" /\ pc'[r] # "wait"
        /\ \A q \in Requests \ {r} : pc'[q] = pc[q] /\ verdict'[q] = verdict[q]
        /\ UNCHANGED <<key, leader, late>>
    BY <1>0, <1>5 DEF Lookup, Go, Give
  <2> QED
    BY <1>0, <2>1 DEF Waiters, Leading
<1>6. ASSUME NEW r \in Requests, Join(r)
      PROVE  Waiters'
  <2>1. /\ pc[r] = "join" /\ UNCHANGED <<key, verdict, late>>
        /\ \A q \in Requests \ {r} : pc'[q] = pc[q] /\ leader'[q] = leader[q]
        /\ \/ pc'[r] = "recheck"
           \/ /\ pc'[r] = "wait" /\ inflight[key[r]] # NoRequest
              /\ leader'[r] = inflight[key[r]]
    BY <1>0, <1>6 DEF Join, Go
  <2>2. inflight[key[r]] # NoRequest =>
           /\ inflight[key[r]] \in Requests /\ pc[inflight[key[r]]] \in Leading
           /\ key[inflight[key[r]]] = key[r]
    BY <1>0, SMTT(30) DEF Leaders
  <2>3. \A q \in Requests :
           pc[q] \in Leading /\ verdict[q] \in Workspaces => key[q] \notin refused
    BY <1>0 DEF Verdicts
  <2>4. \A q \in late : key[q] \in refused
    BY <1>0 DEF Verdicts
  <2> QED
    BY <1>0, <2>1, <2>2, <2>3, <2>4, SMTT(30) DEF Waiters, Leading
<1>7. ASSUME NEW r \in Requests, WaitCanceled(r)
      PROVE  Waiters'
  BY <1>0, <1>7, SMTT(30) DEF Waiters, Leading, WaitCanceled, Go, Give
<1>8. ASSUME NEW r \in Requests,
             \/ Recheck(r) \/ Allow(r) \/ LookupStale(r) \/ StoreStale(r) \/ Receive(r)
             \/ Unreachable(r) \/ Disconnected(r) \/ Finish(r)
      PROVE  Waiters'
  BY <1>8, LeaderSteps, LeadsOnWaiters
<1>9. ASSUME NEW r \in Requests, Close(r)
      PROVE  Waiters'
  BY <1>0, <1>9 DEF Waiters, Leading, Close
<1>10. ASSUME NEW r \in Requests, Return(r)
       PROVE  Waiters'
  BY <1>0, <1>10 DEF Waiters, Leading, Return, Go, Give
<1>11. CASE UNCHANGED vars
  BY <1>0, <1>11 DEF Waiters, vars
<1> QED
  BY <1>1, <1>2, <1>3, <1>4, <1>5, <1>6, <1>7, <1>8, <1>9, <1>10, <1>11 DEF Next, Step

\* The steps that may change a verdict.
LEMMA WhoDecides ==
    ASSUME [Next]_vars
    PROVE  \/ UNCHANGED verdict
           \/ \E q \in Requests :
                 \/ Lookup(q) \/ Recheck(q) \/ LookupStale(q) \/ Receive(q)
                 \/ WaitCanceled(q) \/ Disconnected(q) \/ Return(q) \/ Close(q)
<1>1. ASSUME NEW q \in Requests, Join(q) \/ Allow(q)
      PROVE  UNCHANGED verdict
  BY <1>1 DEF Join, Allow
<1>2. ASSUME NEW q \in Requests, StoreStale(q) \/ Unreachable(q) \/ Finish(q)
      PROVE  UNCHANGED verdict
  BY <1>2 DEF StoreStale, Unreachable, Finish
<1>3. ASSUME NEW q \in Requests, NEW k \in Keys, NEW s \in Senders, Start(q, k, s)
      PROVE  UNCHANGED verdict
  BY <1>3 DEF Start
<1>4. ASSUME NEW q \in Requests, Cancel(q) \/ Evaluate(q)
      PROVE  UNCHANGED verdict
  BY <1>4 DEF Cancel, Evaluate
<1>5. ASSUME NEW k \in Keys, Revoke(k)
      PROVE  UNCHANGED verdict
  BY <1>5 DEF Revoke
<1>6. CASE Tick
  BY <1>6 DEF Tick
<1>7. CASE UNCHANGED vars
  BY <1>7 DEF vars
<1> QED
  BY <1>1, <1>2, <1>3, <1>4, <1>5, <1>6, <1>7 DEF Next, Step

\* A step that accepts a key no longer valid does so on a live or stale entry,
\* or on an answer just received, none of them older than TrustBound allows.
LEMMA AcceptanceIsRecent ==
    ASSUME Inv, [Next]_vars, NEW r \in Requests, Accepts(r), key[r] \notin valid
    PROVE  now <= revokedAt[key[r]] + TrustBound
<1> USE DEF api, cache, local, history
<1>0. /\ Results /\ CacheTrusted /\ AnswersTrue /\ TypeOK
      /\ pc \in [Requests -> Stages] /\ key \in [Requests -> Keys]
      /\ verdict \in [Requests -> Workspaces \cup Errors]
      /\ answer \in [Requests -> Workspaces \cup {None, Unauthenticated}]
      /\ sentAt \in [Requests -> Nat] /\ now \in Nat /\ entry \in [Keys -> Entries]
      /\ revokedAt \in [Keys -> Int]
  BY DEF Inv, TypeOK, Results
<1>1. key[r] \in Keys /\ entry[key[r]] \in Entries /\ revokedAt[key[r]] \in Int
  BY <1>0
<1>2. /\ now \in Nat
      /\ Timeout \in Nat
      /\ Trust \in Nat
      /\ MaxStaleAge <= Trust
      /\ TrustBound = Timeout + Trust
  BY <1>0, AuthAssumption, SMTT(30) DEF Trust, TrustBound
<1>3. Trusted(key[r], entry[key[r]])
  BY <1>0, <1>1 DEF CacheTrusted
<1>4. CASE Live(key[r]) /\ Decision(key[r]) \in Workspaces
  <2>1. entry[key[r]].ok
    BY <1>0, <1>1, <1>4, DecisionSound
  <2> QED
    BY <1>1, <1>2, <1>3, <1>4, <2>1, SMTT(30) DEF Live, Trusted, Entries
<1>5. CASE Stale(key[r])
  BY <1>1, <1>2, <1>3, <1>5, AuthAssumption, SMTT(30) DEF Stale, Trusted, Entries
<1>6. CASE Receive(r)
  <2>1. answer[r] \in Workspaces
    BY <1>0, <1>6, ErrorsApart DEF Accepts, Receive, Give
  <2>2. sentAt[r] <= revokedAt[key[r]] /\ now <= sentAt[r] + Timeout /\ sentAt[r] \in Nat
    BY <1>0, <1>6, <2>1 DEF AnswersTrue, Receive
  <2> QED
    BY <1>1, <1>2, <2>2, SMTT(30)
<1>7. \/ Live(key[r]) /\ Decision(key[r]) \in Workspaces
      \/ Stale(key[r])
      \/ Receive(r)
  <2>0. /\ verdict \in [Requests -> Workspaces \cup Errors]
        /\ verdict[r] \notin Workspaces /\ verdict'[r] \in Workspaces /\ pc[r] # "wait"
    BY <1>0 DEF Accepts
  <2>1. ASSUME NEW q \in Requests, Lookup(q) \/ Recheck(q)
        PROVE  Live(key[r]) /\ Decision(key[r]) \in Workspaces
    <3>1. \/ verdict' = verdict
          \/ verdict' = [verdict EXCEPT ![q] = Canceled]
          \/ Live(key[q]) /\ verdict' = [verdict EXCEPT ![q] = Decision(key[q])]
      BY <2>1 DEF Lookup, Recheck, Give
    <3> QED
      BY <2>0, <3>1, ErrorsApart
  <2>2. ASSUME NEW q \in Requests, LookupStale(q)
        PROVE  Stale(key[r])
    <3>1. \/ Stale(key[q]) /\ verdict' = [verdict EXCEPT ![q] = entry[key[q]].workspace]
          \/ verdict' = [verdict EXCEPT ![q] = Unauthenticated]
          \/ verdict' = [verdict EXCEPT ![q] = Failed]
      BY <2>2 DEF LookupStale, Give
    <3> QED
      BY <2>0, <3>1, ErrorsApart
  <2>3. ASSUME NEW q \in Requests, Receive(q)
        PROVE  Receive(r)
    <3>1. verdict' = [verdict EXCEPT ![q] = answer[q]]
      BY <2>3 DEF Receive, Give
    <3>2. q = r
      BY <2>0, <3>1
    <3> QED
      BY <2>3, <3>2
  <2>4. ASSUME NEW q \in Requests, WaitCanceled(q) \/ Disconnected(q) \/ Return(q)
        PROVE  FALSE
    <3>1. CASE WaitCanceled(q)
      BY <2>0, <3>1, ErrorsApart DEF WaitCanceled, Give
    <3>2. CASE Disconnected(q)
      BY <2>0, <3>2, ErrorsApart DEF Disconnected, Give
    <3>3. CASE Return(q)
      BY <2>0, <3>3, ErrorsApart DEF Return, Give
    <3> QED
      BY <2>4, <3>1, <3>2, <3>3
  <2>5. ASSUME NEW q \in Requests, Close(q)
        PROVE  FALSE
    BY <2>0, <2>5 DEF Close
  <2>6. ~UNCHANGED verdict
    BY <2>0
  <2> QED
    BY <2>1, <2>2, <2>3, <2>4, <2>5, <2>6, WhoDecides
<1> QED
  BY <1>4, <1>5, <1>6, <1>7
-----------------------------------------------------------------------------
(***************************************************************************)
(* Types.                                                                  *)
(***************************************************************************)

\* The absent entry is an entry.
LEMMA BlankType == Blank \in Entries
BY DEF Blank, Entries

\* The longer steps keep every variable in its type, one lemma each.
LEMMA TypeReceive == ASSUME TypeOK, NEW r \in Requests, Receive(r) PROVE TypeOK'
<1> USE DEF api, cache, local, history
<1>1. entry' \in [Keys -> Entries] /\ rank' \in [Keys -> Nat]
  BY StorePositiveEffect, StoreNegativeEffect DEF Receive, TypeOK
<1>2. answer[r] \in Workspaces \cup Errors
  BY DEF TypeOK, Errors
<1> QED
  BY <1>1, <1>2 DEF TypeOK, Receive, CallOver, Go, Give, Stages, Leading

\* Asking the limiter keeps the types.
LEMMA TypeAllow == ASSUME TypeOK, NEW r \in Requests, Allow(r) PROVE TypeOK'
<1> USE DEF api, cache, local, history
<1>1. seen' \in [Senders -> Windows]
  <2>1. seen \in [Senders -> Windows] /\ sender[r] \in Senders /\ now \in Nat
    BY DEF TypeOK
  <2>2. seen' = Charge(seen, sender[r], now)
    BY DEF Allow
  <2> QED
    BY <2>1, <2>2, ChargeType
<1> QED
  BY <1>1, SMTT(30) DEF TypeOK, Allow, Go, Stages, Leading

\* Looking the key up again as the leader keeps the types.
LEMMA TypeRecheck == ASSUME TypeOK, NEW r \in Requests, Recheck(r) PROVE TypeOK'
<1> USE DEF api, cache, local, history
<1>1. key[r] \in Keys /\ Decision(key[r]) \in Workspaces \cup Errors
  BY DEF TypeOK, Decision, Entries, Errors
<1>2. rank' \in [Keys -> Nat] /\ entry' = entry
  BY <1>1, TouchEffect DEF Recheck, TypeOK
<1> QED
  BY <1>1, <1>2, SMTT(30) DEF TypeOK, Recheck, Go, Give, Stages, Leading

\* Taking a stale result in hand keeps the types.
LEMMA TypeLookupStale == ASSUME TypeOK, NEW r \in Requests, LookupStale(r) PROVE TypeOK'
<1> USE DEF api, cache, local, history
<1>1. entry[key[r]] \in Entries /\ entry[key[r]].workspace \in Workspaces \cup Errors
  BY DEF TypeOK, Entries, Errors
<1> QED
  BY <1>1 DEF TypeOK, LookupStale, Go, Give, Stages, Leading, Errors

\* Looking a key up keeps the types.
LEMMA TypeLookup == ASSUME TypeOK, NEW r \in Requests, Lookup(r) PROVE TypeOK'
<1> USE DEF api, cache, local, history
<1>1. key[r] \in Keys /\ Decision(key[r]) \in Workspaces \cup Errors
  BY DEF TypeOK, Decision, Entries, Errors
<1>2. rank' \in [Keys -> Nat] /\ entry' = entry
  BY <1>1, TouchEffect DEF Lookup, TypeOK
<1> QED
  BY <1>1, <1>2, SMTT(30) DEF TypeOK, Lookup, Go, Give, Stages, Errors

\* Storing the stale result again keeps the types.
LEMMA TypeStoreStale == ASSUME TypeOK, NEW r \in Requests, StoreStale(r) PROVE TypeOK'
<1> USE DEF api, cache, local, history
<1>1. entry' \in [Keys -> Entries] /\ rank' \in [Keys -> Nat]
  BY StoreStaleEffect DEF StoreStale, TypeOK
<1> QED
  BY BlankType, <1>1 DEF TypeOK, StoreStale, Go, Stages, Leading

\* A step of the authenticator, of its senders, of the API or of the clock
\* keeps every variable in its type.
LEMMA TypeStep ==
    ASSUME TypeOK, [Next]_vars
    PROVE  TypeOK'
<1> USE DEF api, cache, local, history
<1>1. ASSUME NEW r \in Requests, NEW k \in Keys, NEW s \in Senders, Start(r, k, s)
      PROVE  TypeOK'
  BY <1>1 DEF TypeOK, Start, Go, Stages
<1>2. ASSUME NEW r \in Requests, Cancel(r)
      PROVE  TypeOK'
  BY <1>2 DEF TypeOK, Cancel
<1>3. ASSUME NEW r \in Requests, Evaluate(r)
      PROVE  TypeOK'
  BY <1>3, AuthAssumption DEF TypeOK, Evaluate
<1>4. ASSUME NEW k \in Keys, Revoke(k)
      PROVE  TypeOK'
  BY <1>4, SMTT(30) DEF TypeOK, Revoke
<1>5. CASE Tick
  BY <1>5, SMTT(30) DEF TypeOK, Tick
<1>6. ASSUME NEW r \in Requests, Lookup(r)
      PROVE  TypeOK'
  BY <1>6, TypeLookup
<1>7. ASSUME NEW r \in Requests, Join(r)
      PROVE  TypeOK'
  BY <1>7, SMTT(30) DEF TypeOK, Join, Go, Stages, Leading
<1>8. ASSUME NEW r \in Requests, WaitCanceled(r)
      PROVE  TypeOK'
  BY <1>8 DEF TypeOK, WaitCanceled, Go, Give, Stages, Errors
<1>9. ASSUME NEW r \in Requests, Recheck(r)
      PROVE  TypeOK'
  BY <1>9, TypeRecheck
<1>10. ASSUME NEW r \in Requests, Allow(r)
       PROVE  TypeOK'
  BY <1>10, TypeAllow
<1>11. ASSUME NEW r \in Requests, LookupStale(r)
       PROVE  TypeOK'
  BY <1>11, TypeLookupStale
<1>12. ASSUME NEW r \in Requests, StoreStale(r)
       PROVE  TypeOK'
  BY <1>12, TypeStoreStale
<1>13. ASSUME NEW r \in Requests, Receive(r)
       PROVE  TypeOK'
  BY <1>13, TypeReceive
<1>14. ASSUME NEW r \in Requests, Unreachable(r)
       PROVE  TypeOK'
  BY <1>14 DEF TypeOK, Unreachable, CallOver, Go, Stages, Leading
<1>15. ASSUME NEW r \in Requests, Disconnected(r)
       PROVE  TypeOK'
  BY <1>15 DEF TypeOK, Disconnected, CallOver, Go, Give, Stages, Leading, Errors
<1>16. ASSUME NEW r \in Requests, Finish(r)
       PROVE  TypeOK'
  BY <1>16 DEF TypeOK, Finish, Go, Stages
<1>17. ASSUME NEW r \in Requests, Close(r)
       PROVE  TypeOK'
  BY <1>17 DEF TypeOK, Close, Stages
<1>18. ASSUME NEW r \in Requests, Return(r)
       PROVE  TypeOK'
  <2>1. AnyKey \in Keys /\ AnySender \in Senders
    BY AuthAssumption DEF AnyKey, AnySender
  <2> QED
    BY <1>18, <2>1 DEF TypeOK, Return, Go, Give, Stages, Errors
<1>19. CASE UNCHANGED vars
  BY <1>19 DEF TypeOK, vars
<1> QED
  BY <1>1, <1>2, <1>3, <1>4, <1>5, <1>6, <1>7, <1>8, <1>9, <1>10, <1>11,
     <1>12, <1>13, <1>14, <1>15, <1>16, <1>17, <1>18, <1>19 DEF Next, Step

--------------------------------------------------------------------------------

\* What a request decides follows from a trusted result or from an answer to
\* its own key, and a waiter takes over only what its leader may hand it.
LEMMA VerdictsStep ==
    ASSUME Inv, [Next]_vars
    PROVE  Verdicts'
<1> USE DEF api, cache, local, history
<1>0. /\ TypeOK /\ Results /\ Leaders /\ Waiters /\ Verdicts /\ CacheTrusted
      /\ AnswersTrue /\ inflight \in [Keys -> Requests \cup {NoRequest}]
      /\ leader \in [Requests -> Requests \cup {NoRequest}]
      /\ pc \in [Requests -> Stages] /\ key \in [Requests -> Keys]
      /\ gone \in [Requests -> BOOLEAN]
      /\ verdict \in [Requests -> Workspaces \cup Errors]
      /\ answer \in [Requests -> Workspaces \cup {None, Unauthenticated}]
      /\ abandoned \in [Requests -> BOOLEAN] /\ entry \in [Keys -> Entries]
      /\ late \in SUBSET Requests /\ refused \in SUBSET Keys
  BY DEF Inv, TypeOK, Results
<1>1. ASSUME NEW r \in Requests, NEW k \in Keys, NEW s \in Senders, Start(r, k, s)
       PROVE  Verdicts'
  BY <1>0, <1>1, ErrorsApart, SMTT(30) DEF Verdicts, Start, Go
<1>2. ASSUME NEW r \in Requests, Cancel(r)
       PROVE  Verdicts'
  BY <1>0, <1>2, ErrorsApart DEF Verdicts, Cancel
<1>3. ASSUME NEW r \in Requests, Evaluate(r)
       PROVE  Verdicts'
  BY <1>0, <1>3, ErrorsApart DEF Verdicts, Evaluate
<1>4. ASSUME NEW k \in Keys, Revoke(k)
       PROVE  Verdicts'
  BY <1>0, <1>4, ErrorsApart DEF Verdicts, Revoke
<1>5. CASE Tick
  BY <1>0, <1>5, ErrorsApart DEF Verdicts, Tick
<1>6. ASSUME NEW r \in Requests, Lookup(r)
       PROVE  Verdicts'
  <2>1. key[r] \in Keys
    BY <1>0
  <2>2. /\ Live(key[r]) => Decision(key[r]) # Canceled
        /\ Decision(key[r]) \in Workspaces =>
              Decision(key[r]) = WorkspaceOf[key[r]] /\ key[r] \notin refused
    BY <1>0, <2>1, DecisionSound, ErrorsApart DEF Decision, Entries
  <2> QED
    BY <1>0, <1>6, <2>2, ErrorsApart, SMTT(30) DEF Verdicts, Lookup, Go, Give
<1>7. ASSUME NEW r \in Requests, Join(r)
       PROVE  Verdicts'
  BY <1>0, <1>7, ErrorsApart, SMTT(30) DEF Verdicts, Join, Go, Leading
<1>8. ASSUME NEW r \in Requests, WaitCanceled(r)
       PROVE  Verdicts'
  BY <1>0, <1>8, ErrorsApart, SMTT(30) DEF Verdicts, WaitCanceled, Go, Give, Leading
<1>9. ASSUME NEW r \in Requests, Recheck(r)
       PROVE  Verdicts'
  <2>1. key[r] \in Keys
    BY <1>0
  <2>2. /\ Live(key[r]) => Decision(key[r]) # Canceled
        /\ Decision(key[r]) \in Workspaces =>
              Decision(key[r]) = WorkspaceOf[key[r]] /\ key[r] \notin refused
    BY <1>0, <2>1, DecisionSound, ErrorsApart DEF Decision, Entries
  <2> QED
    BY <1>0, <1>9, <2>2, ErrorsApart, SMTT(30) DEF Verdicts, Recheck, Go, Give
<1>10. ASSUME NEW r \in Requests, Allow(r)
       PROVE  Verdicts'
  BY <1>0, <1>10, ErrorsApart, SMTT(30) DEF Verdicts, Allow, Go, Leading
<1>11. ASSUME NEW r \in Requests, LookupStale(r)
       PROVE  Verdicts'
  <2>1. key[r] \in Keys /\ Trusted(key[r], entry[key[r]])
    BY <1>0 DEF CacheTrusted
  <2>2. Stale(key[r]) => /\ entry[key[r]].workspace = WorkspaceOf[key[r]]
                         /\ entry[key[r]].workspace \in Workspaces
                         /\ key[r] \notin refused
    BY <2>1, AuthAssumption DEF Stale, Trusted
  <2> QED
    BY <1>0, <1>11, <2>2, ErrorsApart, SMTT(30) DEF Verdicts, LookupStale, Go, Give
<1>12. ASSUME NEW r \in Requests, StoreStale(r)
       PROVE  Verdicts'
  BY <1>0, <1>12, ErrorsApart DEF Verdicts, StoreStale, Go, Leading
<1>13. ASSUME NEW r \in Requests, Receive(r)
       PROVE  Verdicts'
  <2>1. key[r] \in Keys /\ pc[r] = "call" /\ r \in Requests
    BY <1>0, <1>13 DEF Receive
  <2>2. \A q \in Requests : pc[q] \in Leading /\ key[q] = key[r] => q = r
    BY <1>0, <2>1, SMTT(30) DEF Leaders, Leading
  <2>3. /\ verdict' = [verdict EXCEPT ![r] = answer[r]]
        /\ pc' = [pc EXCEPT ![r] = "finish"]
        /\ UNCHANGED <<key, gone, abandoned, late>>
    BY <1>13 DEF Receive, Go, Give, CallOver
  <2>4. CASE answer[r] # Unauthenticated
    <3>1. /\ answer[r] = WorkspaceOf[key[r]]
          /\ answer[r] \in Workspaces
          /\ key[r] \notin refused
          /\ refused' = refused
      BY <1>0, <1>13, <2>4 DEF AnswersTrue, Receive
    <3> QED
      BY <1>0, <2>1, <2>3, <3>1, ErrorsApart, SMTT(30) DEF Verdicts
  <2>5. CASE answer[r] = Unauthenticated
    <3>1. refused' = refused \cup {key[r]}
      BY <1>13, <2>5 DEF Receive
    <3> QED
      BY <1>0, <2>1, <2>2, <2>3, <2>5, <3>1, ErrorsApart, SMTT(30) DEF Verdicts
  <2> QED
    BY <2>4, <2>5
<1>14. ASSUME NEW r \in Requests, Unreachable(r)
       PROVE  Verdicts'
  BY <1>0, <1>14, ErrorsApart, SMTT(30) DEF Verdicts, Unreachable, Go, CallOver, Leading
<1>15. ASSUME NEW r \in Requests, Disconnected(r)
       PROVE  Verdicts'
  BY <1>0, <1>15, ErrorsApart, SMTT(30) DEF Verdicts, Disconnected, Go, Give, CallOver,
     Leading
<1>16. ASSUME NEW r \in Requests, Finish(r)
       PROVE  Verdicts'
  BY <1>0, <1>16, ErrorsApart DEF Verdicts, Finish, Go, Leading
<1>17. ASSUME NEW r \in Requests, Close(r)
       PROVE  Verdicts'
  BY <1>0, <1>17, ErrorsApart, SMTT(30) DEF Verdicts, Close, Waiters, Leading
<1>18. ASSUME NEW r \in Requests, Return(r)
       PROVE  Verdicts'
  BY <1>0, <1>18, ErrorsApart, SMTT(30) DEF Verdicts, Return, Go, Give
<1>19. CASE UNCHANGED vars
  BY <1>0, <1>19, ErrorsApart DEF Verdicts, vars
<1> QED
  BY <1>1, <1>2, <1>3, <1>4, <1>5, <1>6, <1>7, <1>8, <1>9, <1>10, <1>11,
     <1>12, <1>13, <1>14, <1>15, <1>16, <1>17, <1>18, <1>19 DEF Next, Step

\* A request holds an entry or an answer only at the stages that use it.
LEMMA HeldWhere ==
    ASSUME Inv
    PROVE  \A q \in Requests :
              /\ held[q].ok => pc[q] = "restale"
              /\ answer[q] # None => pc[q] = "call"
              /\ sentAt[q] <= now
BY DEF Inv, Results, HeldTrusted, AnswersTrue

\* The facts of the cache, the API and the clock stand still.
Still == UNCHANGED <<now, valid, revokedAt, entry, refused>>

\* q's hands stay as they are: it keeps its entry, and its answer unless it
\* gives that up.
HandsKept(q) ==
    /\ held'[q] = held[q]
    /\ held[q].ok => pc'[q] = pc[q] /\ key'[q] = key[q]
    /\ sentAt'[q] <= now
    /\ answer'[q] # None =>
          /\ answer'[q] = answer[q]
          /\ sentAt'[q] = sentAt[q]
          /\ pc'[q] = pc[q]
          /\ key'[q] = key[q]

\* A step that touches neither the cache nor what the requests hold keeps
\* Results.
LEMMA ResultsKept ==
    ASSUME Inv, Still, \A q \in Requests : HandsKept(q)
    PROVE  Results'
<1>1. CacheTrusted'
  BY DEF Inv, Results, CacheTrusted, Trusted, Still
<1>2. HeldTrusted'
  <2>1. ASSUME NEW q \in Requests, held'[q].ok
        PROVE  /\ held[q].ok /\ held'[q] = held[q] /\ pc'[q] = pc[q] /\ key'[q] = key[q]
               /\ key[q] \in Keys
    BY <2>1 DEF HandsKept, Inv, TypeOK
  <2>2. ASSUME NEW k \in Keys, NEW e, Trusted(k, e) PROVE Trusted(k, e)'
    BY <2>2 DEF Trusted, Still
  <2> QED BY <2>1, <2>2 DEF Inv, Results, HeldTrusted
<1>3. AnswersTrue'
  BY ErrorsApart DEF Inv, Results, AnswersTrue, Still, HandsKept
<1> QED
  BY <1>1, <1>2, <1>3 DEF Inv, Results, Still

\* No step makes a positive result out of anything but an API answer given
\* before the key's revocation, nor lets one survive the key's refusal.
LEMMA ResultsStep ==
    ASSUME Inv, [Next]_vars
    PROVE  Results'
<1> USE DEF api, cache, local, history
<1>0. /\ TypeOK /\ Results /\ CacheTrusted /\ HeldTrusted /\ AnswersTrue
      /\ pc \in [Requests -> Stages] /\ key \in [Requests -> Keys]
      /\ sentAt \in [Requests -> Nat]
      /\ answer \in [Requests -> Workspaces \cup {None, Unauthenticated}]
      /\ held \in [Requests -> Entries] /\ now \in Nat
  BY DEF Inv, TypeOK, Results
<1>1. ASSUME NEW r \in Requests, NEW k \in Keys, NEW s \in Senders, Start(r, k, s)
       PROVE  Results'
  <2>1. Still
    BY <1>1 DEF Still, Start
  <2>2. \A q \in Requests : HandsKept(q)
    BY <1>0, <1>1, HeldWhere DEF HandsKept, Start, Go
  <2> QED
    BY <2>1, <2>2, ResultsKept
<1>2. ASSUME NEW r \in Requests, Cancel(r)
       PROVE  Results'
  <2>1. Still
    BY <1>2 DEF Still, Cancel
  <2>2. \A q \in Requests : HandsKept(q)
    BY <1>0, <1>2, HeldWhere DEF HandsKept, Cancel
  <2> QED
    BY <2>1, <2>2, ResultsKept
<1>3. ASSUME NEW r \in Requests, Evaluate(r)
       PROVE  Results'
  BY <1>3, EvaluateResults
<1>4. ASSUME NEW k \in Keys, Revoke(k)
       PROVE  Results'
  BY <1>4, RevokeResults
<1>5. ASSUME Tick
       PROVE  Results'
  BY <1>5, TickResults
<1>6. ASSUME NEW r \in Requests, Lookup(r)
       PROVE  Results'
  <2>1. entry' = entry
    BY <1>0, <1>6, TouchEffect DEF Lookup
  <2>2. Still
    BY <1>6, <2>1 DEF Still, Lookup
  <2>3. \A q \in Requests : HandsKept(q)
    BY <1>0, <1>6, HeldWhere DEF HandsKept, Lookup, Go
  <2> QED
    BY <2>2, <2>3, ResultsKept
<1>7. ASSUME NEW r \in Requests, Join(r)
       PROVE  Results'
  <2>1. Still
    BY <1>7 DEF Still, Join
  <2>2. \A q \in Requests : HandsKept(q)
    BY <1>0, <1>7, HeldWhere DEF HandsKept, Join, Go
  <2> QED
    BY <2>1, <2>2, ResultsKept
<1>8. ASSUME NEW r \in Requests, WaitCanceled(r)
       PROVE  Results'
  <2>1. Still
    BY <1>8 DEF Still, WaitCanceled
  <2>2. \A q \in Requests : HandsKept(q)
    BY <1>0, <1>8, HeldWhere DEF HandsKept, WaitCanceled, Go
  <2> QED
    BY <2>1, <2>2, ResultsKept
<1>9. ASSUME NEW r \in Requests, Recheck(r)
       PROVE  Results'
  <2>1. entry' = entry
    BY <1>0, <1>9, TouchEffect DEF Recheck
  <2>2. Still
    BY <1>9, <2>1 DEF Still, Recheck
  <2>3. \A q \in Requests : HandsKept(q)
    BY <1>0, <1>9, HeldWhere DEF HandsKept, Recheck, Go
  <2> QED
    BY <2>2, <2>3, ResultsKept
<1>10. ASSUME NEW r \in Requests, Allow(r)
       PROVE  Results'
  <2>1. Still
    BY <1>10 DEF Still, Allow
  <2>2. \A q \in Requests : HandsKept(q)
    BY <1>0, <1>10, HeldWhere, SMTT(30) DEF HandsKept, Allow, Go
  <2> QED
    BY <2>1, <2>2, ResultsKept
<1>11. ASSUME NEW r \in Requests, LookupStale(r)
       PROVE  Results'
  BY <1>11, LookupStaleResults
<1>12. ASSUME NEW r \in Requests, StoreStale(r)
       PROVE  Results'
  BY <1>12, StoreStaleResults
<1>13. ASSUME NEW r \in Requests, Receive(r)
       PROVE  Results'
  BY <1>13, ReceiveResults
<1>14. ASSUME NEW r \in Requests, Unreachable(r)
       PROVE  Results'
  <2>1. Still
    BY <1>14 DEF Still, Unreachable
  <2>2. \A q \in Requests : HandsKept(q)
    BY <1>0, <1>14, HeldWhere, SMTT(30) DEF HandsKept, Unreachable, Go, CallOver
  <2> QED
    BY <2>1, <2>2, ResultsKept
<1>15. ASSUME NEW r \in Requests, Disconnected(r)
       PROVE  Results'
  <2>1. Still
    BY <1>15 DEF Still, Disconnected
  <2>2. \A q \in Requests : HandsKept(q)
    BY <1>0, <1>15, HeldWhere, SMTT(30) DEF HandsKept, Disconnected, Go, CallOver
  <2> QED
    BY <2>1, <2>2, ResultsKept
<1>16. ASSUME NEW r \in Requests, Finish(r)
       PROVE  Results'
  <2>1. Still
    BY <1>16 DEF Still, Finish
  <2>2. \A q \in Requests : HandsKept(q)
    BY <1>0, <1>16, HeldWhere DEF HandsKept, Finish, Go
  <2> QED
    BY <2>1, <2>2, ResultsKept
<1>17. ASSUME NEW r \in Requests, Close(r)
       PROVE  Results'
  <2>1. Still
    BY <1>17 DEF Still, Close
  <2>2. \A q \in Requests : HandsKept(q)
    BY <1>0, <1>17, HeldWhere DEF HandsKept, Close
  <2> QED
    BY <2>1, <2>2, ResultsKept
<1>18. ASSUME NEW r \in Requests, Return(r)
       PROVE  Results'
  <2>1. Still
    BY <1>18 DEF Still, Return
  <2>2. \A q \in Requests : HandsKept(q)
    BY <1>0, <1>18, HeldWhere DEF HandsKept, Return, Go
  <2> QED
    BY <2>1, <2>2, ResultsKept
<1>19. CASE UNCHANGED vars
  <2>1. Still /\ UNCHANGED <<pc, key, sentAt, answer, held>>
    BY <1>19 DEF Still, vars
  <2>2. \A q \in Requests : HandsKept(q)
    BY <2>1, HeldWhere DEF HandsKept
  <2> QED
    BY <2>1, <2>2, ResultsKept
<1> QED
  BY <1>1, <1>2, <1>3, <1>4, <1>5, <1>6, <1>7, <1>8, <1>9, <1>10, <1>11,
     <1>12, <1>13, <1>14, <1>15, <1>16, <1>17, <1>18, <1>19 DEF Next, Step
-----------------------------------------------------------------------------
(***************************************************************************)
(* The LRU list.                                                           *)
(***************************************************************************)

\* No two cached keys share a position, and the positions in use are 1 to n.
Listed(f, n) ==
    /\ \A j, k \in Keys : f[j] # 0 /\ f[j] = f[k] => j = k
    /\ \A k \in Keys : f[k] \in 0..n
    /\ \A i \in 1..n : \E k \in Keys : f[k] = i

\* The list fits in the cache.
Fits(f) == \E n \in 0..Capacity : Listed(f, n)

\* Moving a key to the front keeps the positions of a list that holds it, and
\* adds one to a list that does not.
LEMMA FrontedList ==
    ASSUME NEW n \in Nat, rank \in [Keys -> Nat], Listed(rank, n), NEW k \in Keys
    PROVE  Listed(Fronted(k), IF Cached(k) THEN n ELSE n + 1)
<1> DEFINE f == Fronted(k)
           m == IF Cached(k) THEN n ELSE n + 1
<1>0. /\ \A j \in Keys : rank[j] \in 0..n
      /\ \A i, j \in Keys : rank[i] # 0 /\ rank[i] = rank[j] => i = j
      /\ \A i \in 1..n : \E j \in Keys : rank[j] = i
  BY DEF Listed
<1>1. /\ f[k] = 1
      /\ \A j \in Keys \ {k} :
            f[j] = IF rank[j] # 0 /\ (rank[k] = 0 \/ rank[j] < rank[k])
                   THEN rank[j] + 1 ELSE rank[j]
  BY DEF Fronted, Cached
<1>2. m \in Nat /\ m = IF rank[k] # 0 THEN n ELSE n + 1
  BY SMTT(30) DEF Cached
<1> HIDE DEF f, m
<1>3. \A j \in Keys : f[j] \in 0..m
  BY <1>0, <1>1, <1>2, SMTT(30)
<1>4. ASSUME NEW i \in Keys, NEW j \in Keys, f[i] # 0, f[i] = f[j]
      PROVE  i = j
  <2>1. ASSUME NEW h \in Keys \ {k}, f[h] = 1 PROVE FALSE
    <3>1. rank[h] = 1 /\ rank[k] # 0 /\ rank[k] <= rank[h]
      BY <1>0, <1>1, <2>1, SMTT(30)
    <3> QED
      BY <1>0, <3>1, SMTT(30)
  <2>2. CASE i # k /\ j # k
    BY <1>0, <1>1, <1>4, <2>2, SMTT(30)
  <2> QED
    BY <1>1, <1>4, <2>1, <2>2
<1>5. ASSUME NEW i \in 1..m PROVE \E j \in Keys : f[j] = i
  <2>1. CASE i = 1
    BY <1>1, <2>1
  <2>2. CASE i # 1 /\ (rank[k] = 0 \/ i <= rank[k])
    <3>1. i - 1 \in 1..n
      BY <1>0, <1>2, <2>2, SMTT(30)
    <3>2. PICK j \in Keys : rank[j] = i - 1
      BY <1>0, <3>1
    <3>3. f[j] = i
      BY <1>0, <1>1, <2>2, <3>1, <3>2, SMTT(30)
    <3> QED
      BY <3>3
  <2>3. CASE rank[k] # 0 /\ i > rank[k]
    <3>1. i \in 1..n
      BY <1>2, <2>3
    <3>2. PICK j \in Keys : rank[j] = i
      BY <1>0, <3>1
    <3>3. f[j] = i
      BY <1>0, <1>1, <2>3, <3>1, <3>2, SMTT(30)
    <3> QED
      BY <3>3
  <2> QED
    BY <1>0, <2>1, <2>2, <2>3, SMTT(30)
<1> QED
  BY <1>3, <1>4, <1>5 DEF f, m, Listed

\* A use of a cached key keeps the list, and a store evicts what exceeds it.
LEMMA TouchFits ==
    ASSUME rank \in [Keys -> Nat], Fits(rank), NEW k \in Keys, Cached(k), Touch(k)
    PROVE  Fits(rank')
<1>1. PICK n \in 0..Capacity : Listed(rank, n)
  BY DEF Fits
<1>2. n \in Nat
  BY AuthAssumption, SMTT(30)
<1>3. Listed(rank', n)
  BY <1>1, <1>2, FrontedList DEF Touch
<1> QED
  BY <1>3 DEF Fits

\* storeEntry evicts the last of the LRU list when the cache is full.
LEMMA StoreFits ==
    ASSUME rank \in [Keys -> Nat], Fits(rank), NEW k \in Keys, NEW e, StoreEntry(k, e)
    PROVE  Fits(rank')
<1>1. PICK n \in 0..Capacity : Listed(rank, n)
  BY DEF Fits
<1>2. n \in Nat /\ Capacity \in Nat /\ Capacity > 0
  BY AuthAssumption, SMTT(30)
<1> DEFINE f == Fronted(k)
           m == IF Cached(k) THEN n ELSE n + 1
           c == IF m > Capacity THEN Capacity ELSE m
<1>3. Listed(f, m)
  BY <1>1, <1>2, FrontedList
<1>4. m \in Nat /\ c \in 0..Capacity /\ c <= m /\ (m > Capacity => c = Capacity)
      /\ (m <= Capacity => c = m)
  BY <1>2, SMTT(30)
<1>5. /\ \A i, j \in Keys : f[i] # 0 /\ f[i] = f[j] => i = j
      /\ \A j \in Keys : f[j] \in 0..m
      /\ \A i \in 1..m : \E j \in Keys : f[j] = i
  BY <1>3 DEF Listed
<1>6. rank' = [j \in Keys |-> IF f[j] > Capacity THEN 0 ELSE f[j]]
  BY DEF StoreEntry
<1> HIDE DEF f, m, c
<1>7. \A j \in Keys : rank'[j] \in 0..c
  BY <1>2, <1>4, <1>5, <1>6, SMTT(30)
<1>8. \A i, j \in Keys : rank'[i] # 0 /\ rank'[i] = rank'[j] => i = j
  BY <1>5, <1>6
<1>9. ASSUME NEW i \in 1..c PROVE \E j \in Keys : rank'[j] = i
  <2>1. i \in 1..m /\ i <= Capacity
    BY <1>2, <1>4, SMTT(30)
  <2>2. PICK j \in Keys : f[j] = i
    BY <1>5, <2>1
  <2> QED
    BY <1>2, <1>6, <2>1, <2>2, SMTT(30)
<1>10. Listed(rank', c)
  BY <1>7, <1>8, <1>9 DEF Listed
<1> QED
  BY <1>4, <1>10 DEF Fits

\* Every step leaves the list alone, uses a cached key, or stores one.
LEMMA FitsStep == Inv /\ Fits(rank) /\ [Next]_vars => Fits(rank')
<1> SUFFICES ASSUME Inv, Fits(rank), [Next]_vars
             PROVE  Fits(rank')
  OBVIOUS
<1> USE DEF api, cache, local, history
<1>0. rank \in [Keys -> Nat] /\ \A r \in Requests : key[r] \in Keys
  BY DEF Inv, TypeOK
<1>1. CASE rank' = rank
  BY <1>1
<1>2. ASSUME NEW r \in Requests, Lookup(r) \/ Recheck(r)
      PROVE  rank' = rank \/ (Cached(key[r]) /\ Touch(key[r]))
  BY <1>2 DEF Lookup, Recheck, Live
<1>3. ASSUME NEW r \in Requests, StoreStale(r)
      PROVE  rank' = rank \/ \E e : StoreEntry(key[r], e)
  BY <1>3 DEF StoreStale, StoreStaleEntry
<1>4. ASSUME NEW r \in Requests, Receive(r)
      PROVE  rank' = rank \/ \E e : StoreEntry(key[r], e)
  BY <1>4 DEF Receive, StorePositive, StoreNegative
<1>5. ASSUME NEW r \in Requests,
             \/ Join(r) \/ WaitCanceled(r) \/ Allow(r) \/ LookupStale(r) \/ Unreachable(r)
             \/ Disconnected(r) \/ Finish(r) \/ Close(r) \/ Return(r)
      PROVE  rank' = rank
  BY <1>5 DEF Join, WaitCanceled, Allow, LookupStale, Unreachable, Disconnected,
     Finish, Close, Return
<1>6. ASSUME NEW r \in Requests, NEW k \in Keys, NEW s \in Senders,
             Start(r, k, s) \/ Cancel(r) \/ Evaluate(r)
      PROVE  rank' = rank
  BY <1>6 DEF Start, Cancel, Evaluate
<1>7. ASSUME NEW k \in Keys, Revoke(k) PROVE rank' = rank
  BY <1>7 DEF Revoke
<1>8. Tick \/ UNCHANGED vars => rank' = rank
  BY DEF Tick, vars
<1> QED
  BY <1>0, <1>1, <1>2, <1>3, <1>4, <1>5, <1>6, <1>7, <1>8, TouchFits, StoreFits,
     AuthAssumption DEF Next, Step
-----------------------------------------------------------------------------
(***************************************************************************)
(* The theorems.                                                           *)
(***************************************************************************)

\* Every step of the collector, its senders, the API and the clock keeps it.
LEMMA InvStep == Inv /\ [Next]_vars => Inv'
BY TypeStep, LeadersStep, WaitersStep, ResultsStep, VerdictsStep DEF Inv

\* Inv holds in every reachable state of the authenticator.
THEOREM Invariance == Spec => []Inv
BY InvInit, InvStep, PTL DEF Spec

\* Every variable of the authenticator keeps its type.
THEOREM TypeCorrect == Spec => []TypeOK
<1>1. Inv => TypeOK
  BY DEF Inv
<1> QED
  BY <1>1, Invariance, PTL

\* joinInflight lets at most one verification of a key reach the API at a time.
THEOREM OneCallPerKey == Spec => []SingleFlight
<1>1. Inv => SingleFlight
  BY SMTT(30) DEF Inv, Leaders, Leading, SingleFlight
<1> QED
  BY <1>1, Invariance, PTL

\* verify never grants a request a workspace other than that of its own key.
THEOREM GrantsOwnWorkspace == Spec => []OwnWorkspace
<1>1. Inv => OwnWorkspace
  BY DEF Inv, Verdicts, OwnWorkspace
<1> QED
  BY <1>1, Invariance, PTL

\* Once the API has answered 401 for a key, no request that starts afterwards
\* is accepted with it, from cache, from a shared call or by the fallback.
THEOREM RefusalIsFinal == Spec => []RefusalSticks
<1>1. Inv => RefusalSticks
  BY DEF Inv, Verdicts, RefusalSticks
<1> QED
  BY <1>1, Invariance, PTL

\* A leader's cancellation is never handed to the requests that wait on it.
THEOREM CancellationIsOwn == Spec => []OwnCancellation
<1>1. Inv => OwnCancellation
  BY DEF Inv, Verdicts, OwnCancellation
<1> QED
  BY <1>1, Invariance, PTL

\* A revoked key stops being accepted within the larger of cache_ttl and
\* max_stale_age, plus the time one verify call may take, of its revocation.
THEOREM TrustIsBounded == Spec => BoundedTrust
<1>1. Inv /\ [Next]_vars =>
        [\A r \in Requests : Accepts(r) /\ key[r] \notin valid
                             => now <= revokedAt[key[r]] + TrustBound]_vars
  BY AcceptanceIsRecent
<1> QED
  BY <1>1, Invariance, PTL DEF Spec, BoundedTrust

\* From here on, the library's facts about finite sets.
INSTANCE FiniteSetTheorems

\* storeEntry and the uses of an entry keep the cache within cache_max_entries
\* results, and the cached keys at the positions 1, 2, ... of the LRU list.
THEOREM CacheHolds == Spec => []CacheBounded
<1>1. Init => Fits(rank)
  <2>1. Init => Listed(rank, 0)
    BY SMTT(30) DEF Init, Listed
  <2> QED
    BY <2>1, AuthAssumption, SMTT(30) DEF Fits
<1>2. ASSUME Inv, Fits(rank) PROVE CacheBounded
  <2> DEFINE cached == {k \in Keys : Cached(k)}
  <2>1. PICK n \in 0..Capacity : Listed(rank, n)
    BY <1>2 DEF Fits
  <2>2. n \in Nat /\ n <= Capacity
    BY AuthAssumption, SMTT(30)
  <2>3. {rank[k] : k \in cached} = 1..n
    BY <1>2, <2>1, <2>2, SMTT(30) DEF Inv, TypeOK, Listed, Cached
  <2> DEFINE f == [k \in cached |-> rank[k]]
  <2>4. f \in Bijection(cached, 1..n)
    BY <2>1, <2>3 DEF Bijection, Injection, Surjection, IsInjective, Listed, Cached
  <2>5. f \in Injection(cached, 1..n) /\ f \in Surjection(cached, 1..n)
    BY <2>4 DEF Bijection
  <2>6. IsFiniteSet(1..n) /\ Cardinality(1..n) = n
    BY <2>2, FS_Interval, SMTT(30)
  <2> HIDE DEF f, cached
  <2>7. Cardinality(cached) = n
    BY <2>5, <2>6, FS_Injection
  <2> QED
    BY <2>2, <2>3, <2>7 DEF CacheBounded, cached
<1>3. Inv /\ Fits(rank) /\ [Next]_vars => Fits(rank)'
  BY FitsStep
<1> QED
  BY <1>1, <1>2, <1>3, Invariance, PTL DEF Spec
================================================================================
