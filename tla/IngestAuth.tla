------------------------------ MODULE IngestAuth ------------------------------
(***************************************************************************)
(* The collector's ingest authenticator (traciumauthextension): a bounded  *)
(* LRU cache of key verifications, one in-flight API call per key shared   *)
(* by every request that misses on that key, a per-sender budget of calls, *)
(* and a fallback on recent positive results.  Each request is a goroutine *)
(* running Authenticate; every step below is one critical section of the   *)
(* code, or one event it waits for.  The API is modelled by the key table  *)
(* its verify endpoint reads.                                              *)
(*                                                                         *)
(* A request that carries no key is refused before it touches any state    *)
(* and is left out.  Keys stand for their own hashes.                      *)
(***************************************************************************)
EXTENDS SenderLimiter

CONSTANTS
    Keys,             \* ingest keys senders present, issued or not
    Workspaces,
    WorkspaceOf,      \* the one workspace each key is bound to
    Requests,         \* goroutines serving Authenticate
    NoRequest,
    CacheTTL,         \* cache_ttl; 0 disables the cache
    ShortCacheTTL,    \* shortCacheTTL
    MaxStaleAge,      \* max_stale_age; 0 disables the fallback
    Timeout,          \* of one call to the verify endpoint
    Capacity,         \* cache_max_entries
    MaxTime           \* bound: how far the clock runs

\* What verify returns besides a workspace; None: nothing yet.
None == "none"
Unauthenticated == "errUnauthenticated"
Failed == "error"
Canceled == "context"
Errors == {None, Unauthenticated, Failed, Canceled}

ASSUME AuthAssumption ==
    /\ Keys # {}
    /\ Senders # {}
    /\ WorkspaceOf \in [Keys -> Workspaces]
    /\ Workspaces \cap Errors = {}
    /\ NoRequest \notin Requests
    /\ CacheTTL \in Nat
    /\ ShortCacheTTL \in Nat \ {0}
    /\ MaxStaleAge \in Nat
    /\ Timeout \in Nat \ {0}
    /\ Capacity \in Nat \ {0}
    /\ MaxTime \in Nat

VARIABLES
    now,         \* the clock
    valid,       \* API: the keys that are issued and not revoked
    revokedAt,   \* API: when a key stopped being valid
    entry,       \* cache: the cacheEntry of each key
    rank,        \* cache: position in the LRU list, 1 = front, 0 = not cached
    inflight,    \* key -> the request leading its verifyCall
    seen,        \* the sender limiter's table
    pc,          \* where each request is
    key,         \* the key it presents
    sender,      \* its peer address
    gone,        \* its context is canceled
    leader,      \* the request whose verifyCall it waits on
    sentAt,      \* when its API call was sent
    answer,      \* what the API answered to that call
    held,        \* the stale entry it read and is about to re-cache
    verdict,     \* what verify returns to it, or its call to the waiters
    abandoned,   \* call.canceled
    refused,     \* history: keys for which a 401 has been cached or returned
    late         \* history: requests that started after their key's refusal

api == <<valid, revokedAt>>
cache == <<entry, rank>>
local == <<key, sender, leader, sentAt, answer, held, abandoned>>
history == <<refused, late>>
vars == <<now, api, cache, inflight, seen, pc, gone, verdict, local, history>>

-----------------------------------------------------------------------------
(***************************************************************************)
(* The cache.                                                              *)
(***************************************************************************)
Lesser(a, b) == IF a < b THEN a ELSE b

Entries == [ok : BOOLEAN, workspace : Workspaces \cup {None},
            expires : Nat, verifiedAt : Nat]
Blank == [ok |-> FALSE, workspace |-> None, expires |-> 0, verifiedAt |-> 0]

Cached(k) == rank[k] # 0
ShortTTL == Lesser(ShortCacheTTL, CacheTTL)

\* lookup finds a live entry: cached and not past its expiry.
Live(k) == CacheTTL > 0 /\ Cached(k) /\ now <= entry[k].expires

\* cachedResult: what a live entry decides.
Decision(k) == IF entry[k].ok THEN entry[k].workspace ELSE Unauthenticated

\* lookupStale: a positive result verified within MaxStaleAge, expired or not.
Stale(k) == /\ CacheTTL > 0
            /\ MaxStaleAge > 0
            /\ Cached(k)
            /\ entry[k].ok
            /\ now < entry[k].verifiedAt + MaxStaleAge

\* MoveToFront or PushFront: k leads the list, what was before it moves back.
Fronted(k) ==
    [j \in Keys |-> IF j = k THEN 1
                    ELSE IF Cached(j) /\ (~Cached(k) \/ rank[j] < rank[k])
                    THEN rank[j] + 1
                    ELSE rank[j]]

Touch(k) == rank' = Fronted(k) /\ UNCHANGED entry

\* Mutant of StoreEntry: nothing is evicted.
StoreEntryUnbounded(k, e) ==
    /\ rank' = Fronted(k)
    /\ entry' = [entry EXCEPT ![k] = e]

\* storeEntry: overwrite or insert at the front, then evict past the capacity.
StoreEntry(k, e) ==
    LET out == {j \in Keys : Fronted(k)[j] > Capacity}
    IN  /\ rank' = [j \in Keys |-> IF j \in out THEN 0 ELSE Fronted(k)[j]]
        /\ entry' = [j \in Keys |-> IF j \in out THEN Blank
                                    ELSE IF j = k THEN e ELSE entry[j]]

\* Mutant of StoreNegative: a 401 is not memoised.
StoreNegativeSkipped(k) == UNCHANGED cache

\* store of a 200 and of a 401; both do nothing when the cache is disabled.
StorePositive(k, w) ==
    IF CacheTTL = 0 THEN UNCHANGED cache
    ELSE StoreEntry(k, [ok |-> TRUE, workspace |-> w,
                        expires |-> now + CacheTTL, verifiedAt |-> now])

StoreNegative(k) ==
    IF CacheTTL = 0 THEN UNCHANGED cache
    ELSE StoreEntry(k, [ok |-> FALSE, workspace |-> None,
                        expires |-> now + ShortTTL, verifiedAt |-> 0])

\* Mutant of StoreStaleEntry: the deadline does not cap the new expiry.
StoreStaleUncapped(k, e) ==
    IF now < e.verifiedAt + MaxStaleAge
    THEN StoreEntry(k, [e EXCEPT !.expires = now + ShortTTL])
    ELSE UNCHANGED cache

\* storeStale: re-cache e for ShortTTL, never past its MaxStaleAge deadline.
StoreStaleEntry(k, e) ==
    LET deadline == e.verifiedAt + MaxStaleAge
    IN  IF now < deadline
        THEN StoreEntry(k, [e EXCEPT !.expires = Lesser(now + ShortTTL, deadline)])
        ELSE UNCHANGED cache
-----------------------------------------------------------------------------
(***************************************************************************)
(* Requests.  idle: not serving; lookup, join, wait: verify; recheck,      *)
(* allow, limited, call, fallback, restale: doVerify, run by the leader of *)
(* its key's call; finish, close: finishInflight; return: verify is over.  *)
(***************************************************************************)
Leading == {"recheck", "allow", "limited", "call", "fallback", "restale", "finish"}
Stages == {"idle", "lookup", "join", "wait", "close", "return"} \cup Leading

AnyKey == CHOOSE k \in Keys : TRUE
AnySender == CHOOSE s \in Senders : TRUE

Go(r, stage) == pc' = [pc EXCEPT ![r] = stage]
Give(r, v) == verdict' = [verdict EXCEPT ![r] = v]

\* How long a positive result is trusted once it is stored, and at most after
\* the API gave it.
Trust == IF MaxStaleAge > CacheTTL THEN MaxStaleAge ELSE CacheTTL
TrustBound == Timeout + Trust

\* A key that was never issued counts as revoked too long ago to be trusted.
NotIssued == -(TrustBound + 1)

Init ==
    /\ now = 0
    /\ valid \in SUBSET Keys
    /\ revokedAt = [k \in Keys |-> NotIssued]
    /\ entry = [k \in Keys |-> Blank]
    /\ rank = [k \in Keys |-> 0]
    /\ inflight = [k \in Keys |-> NoRequest]
    /\ seen = [s \in Senders |-> Untracked]
    /\ pc = [r \in Requests |-> "idle"]
    /\ key = [r \in Requests |-> AnyKey]
    /\ sender = [r \in Requests |-> AnySender]
    /\ gone = [r \in Requests |-> FALSE]
    /\ leader = [r \in Requests |-> NoRequest]
    /\ sentAt = [r \in Requests |-> 0]
    /\ answer = [r \in Requests |-> None]
    /\ held = [r \in Requests |-> Blank]
    /\ verdict = [r \in Requests |-> None]
    /\ abandoned = [r \in Requests |-> FALSE]
    /\ refused = {}
    /\ late = {}

\* Authenticate is called with a key.
Start(r, k, s) ==
    /\ pc[r] = "idle"
    /\ Go(r, "lookup")
    /\ key' = [key EXCEPT ![r] = k]
    /\ sender' = [sender EXCEPT ![r] = s]
    /\ late' = IF k \in refused THEN late \cup {r} ELSE late
    /\ UNCHANGED <<now, api, cache, inflight, seen, gone, verdict,
                   leader, sentAt, answer, held, abandoned, refused>>

\* The sender disconnects, or its deadline passes.
Cancel(r) ==
    /\ pc[r] \notin {"idle", "return"}
    /\ ~gone[r]
    /\ gone' = [gone EXCEPT ![r] = TRUE]
    /\ UNCHANGED <<now, api, cache, inflight, seen, pc, verdict, local, history>>

\* verify, first half: the context and then the cache may decide at once.
Lookup(r) ==
    /\ pc[r] = "lookup"
    /\ \/ /\ gone[r]
          /\ Give(r, Canceled)
          /\ Go(r, "return")
          /\ UNCHANGED cache
       \/ /\ ~gone[r]
          /\ Live(key[r])
          /\ Give(r, Decision(key[r]))
          /\ Touch(key[r])
          /\ Go(r, "return")
       \/ /\ ~gone[r]
          /\ ~Live(key[r])
          /\ Go(r, "join")
          /\ UNCHANGED <<cache, verdict>>
    /\ UNCHANGED <<now, api, inflight, seen, gone, local, history>>

\* Mutant of Join: every miss makes its own call.
JoinUncoalesced(r) ==
    /\ pc[r] = "join"
    /\ inflight' = [inflight EXCEPT ![key[r]] = r]
    /\ Go(r, "recheck")
    /\ UNCHANGED <<now, api, cache, seen, gone, verdict, local, history>>

\* Mutant of Join: one slot for all keys.
JoinAnyCall(r) ==
    /\ pc[r] = "join"
    /\ \/ /\ \A k \in Keys : inflight[k] = NoRequest
          /\ inflight' = [inflight EXCEPT ![key[r]] = r]
          /\ Go(r, "recheck")
          /\ UNCHANGED leader
       \/ \E k \in Keys :
            /\ inflight[k] # NoRequest
            /\ leader' = [leader EXCEPT ![r] = inflight[k]]
            /\ Go(r, "wait")
            /\ UNCHANGED inflight
    /\ UNCHANGED <<now, api, cache, seen, gone, verdict, key, sender,
                   sentAt, answer, held, abandoned, history>>

\* joinInflight: lead a new call for the key, or wait on the one in flight.
Join(r) ==
    /\ pc[r] = "join"
    /\ \/ /\ inflight[key[r]] = NoRequest
          /\ inflight' = [inflight EXCEPT ![key[r]] = r]
          /\ Go(r, "recheck")
          /\ UNCHANGED leader
       \/ /\ inflight[key[r]] # NoRequest
          /\ leader' = [leader EXCEPT ![r] = inflight[key[r]]]
          /\ Go(r, "wait")
          /\ UNCHANGED inflight
    /\ UNCHANGED <<now, api, cache, seen, gone, verdict, key, sender,
                   sentAt, answer, held, abandoned, history>>

\* A waiter whose own context ends stops waiting.
WaitCanceled(r) ==
    /\ pc[r] = "wait"
    /\ gone[r]
    /\ leader' = [leader EXCEPT ![r] = NoRequest]
    /\ Give(r, Canceled)
    /\ Go(r, "return")
    /\ UNCHANGED <<now, api, cache, inflight, seen, gone, key, sender,
                   sentAt, answer, held, abandoned, history>>

\* doVerify looks again: an earlier leader may have filled the cache.
Recheck(r) ==
    /\ pc[r] = "recheck"
    /\ \/ /\ Live(key[r])
          /\ Give(r, Decision(key[r]))
          /\ Touch(key[r])
          /\ Go(r, "finish")
       \/ /\ ~Live(key[r])
          /\ Go(r, "allow")
          /\ UNCHANGED <<cache, verdict>>
    /\ UNCHANGED <<now, api, inflight, seen, gone, local, history>>

\* The sender's budget decides between an API call and the fallback.
Allow(r) ==
    /\ pc[r] = "allow"
    /\ seen' = Charge(seen, sender[r], now)
    /\ \/ /\ Allowed(seen, sender[r], now)
          /\ sentAt' = [sentAt EXCEPT ![r] = now]
          /\ Go(r, "call")
       \/ /\ ~Allowed(seen, sender[r], now)
          /\ Go(r, "limited")
          /\ UNCHANGED sentAt
    /\ UNCHANGED <<now, api, cache, inflight, gone, verdict, key, sender,
                   leader, answer, held, abandoned, history>>

\* lookupStale, for a limited sender or an unreachable backend: a recent
\* positive decides the request, and is yet to be re-cached.
LookupStale(r) ==
    /\ pc[r] \in {"limited", "fallback"}
    /\ \/ /\ Stale(key[r])
          /\ held' = [held EXCEPT ![r] = entry[key[r]]]
          /\ Give(r, entry[key[r]].workspace)
          /\ Go(r, "restale")
       \/ /\ ~Stale(key[r])
          /\ Give(r, IF pc[r] = "limited" THEN Unauthenticated ELSE Failed)
          /\ Go(r, "finish")
          /\ UNCHANGED held
    /\ UNCHANGED <<now, api, cache, inflight, seen, gone, key, sender,
                   leader, sentAt, answer, abandoned, history>>

\* storeStale of the entry lookupStale returned, some time ago by now.
StoreStale(r) ==
    /\ pc[r] = "restale"
    /\ StoreStaleEntry(key[r], held[r])
    /\ held' = [held EXCEPT ![r] = Blank]
    /\ Go(r, "finish")
    /\ UNCHANGED <<now, api, inflight, seen, gone, verdict, key, sender,
                   leader, sentAt, answer, abandoned, history>>

\* API: the verify endpoint reads the key table.
Evaluate(r) ==
    /\ pc[r] = "call"
    /\ answer[r] = None
    /\ answer' = [answer EXCEPT ![r] = IF key[r] \in valid THEN WorkspaceOf[key[r]]
                                       ELSE Unauthenticated]
    /\ UNCHANGED <<now, api, cache, inflight, seen, pc, gone, verdict, key,
                   sender, leader, sentAt, held, abandoned, history>>

\* callVerify is over: the response is read or given up.
CallOver(r) ==
    /\ sentAt' = [sentAt EXCEPT ![r] = 0]
    /\ answer' = [answer EXCEPT ![r] = None]
    /\ UNCHANGED <<key, sender, leader, held, abandoned>>

\* callVerify returns to a live caller with the API's answer: memoise it.
Receive(r) ==
    /\ pc[r] = "call"
    /\ ~gone[r]
    /\ answer[r] # None
    /\ now <= sentAt[r] + Timeout
    /\ \/ /\ answer[r] # Unauthenticated
          /\ StorePositive(key[r], answer[r])
          /\ UNCHANGED refused
       \/ /\ answer[r] = Unauthenticated
          /\ StoreNegative(key[r])
          /\ refused' = refused \cup {key[r]}
    /\ Give(r, answer[r])
    /\ CallOver(r)
    /\ Go(r, "finish")
    /\ UNCHANGED <<now, api, inflight, seen, gone, late>>

\* callVerify returns without an answer: the call failed, timed out, was
\* refused by the API's own limiter (429) or met a server error.
Unreachable(r) ==
    /\ pc[r] = "call"
    /\ ~gone[r]
    /\ CallOver(r)
    /\ Go(r, "fallback")
    /\ UNCHANGED <<now, api, cache, inflight, seen, gone, verdict, history>>

\* callVerify returns to a canceled caller: nothing is memoised.
Disconnected(r) ==
    /\ pc[r] = "call"
    /\ gone[r]
    /\ Give(r, Canceled)
    /\ CallOver(r)
    /\ Go(r, "finish")
    /\ UNCHANGED <<now, api, cache, inflight, seen, gone, history>>

\* Mutant of Finish: call.canceled is not set.
FinishUnmarked(r) ==
    /\ pc[r] = "finish"
    /\ inflight' = [inflight EXCEPT ![key[r]] = NoRequest]
    /\ Go(r, "close")
    /\ UNCHANGED <<now, api, cache, seen, gone, verdict, local, history>>

\* Mutant of Finish: the slot is blanked instead of deleted.
FinishBlanked(r) ==
    /\ pc[r] = "finish"
    /\ abandoned' = [abandoned EXCEPT ![r] = gone[r]]
    /\ inflight' = [inflight EXCEPT ![key[r]] = None]
    /\ Go(r, "close")
    /\ UNCHANGED <<now, api, cache, seen, gone, verdict, key, sender,
                   leader, sentAt, answer, held, history>>

\* verify notes whether its own context ended, and clears the in-flight slot.
Finish(r) ==
    /\ pc[r] = "finish"
    /\ abandoned' = [abandoned EXCEPT ![r] = gone[r]]
    /\ inflight' = [inflight EXCEPT ![key[r]] = NoRequest]
    /\ Go(r, "close")
    /\ UNCHANGED <<now, api, cache, seen, gone, verdict, key, sender,
                   leader, sentAt, answer, held, history>>

\* Mutant of Close: the channel is never closed.
CloseUnsignalled(r) ==
    /\ pc[r] = "close"
    /\ Go(r, "return")
    /\ UNCHANGED <<now, api, cache, inflight, seen, gone, verdict, local, history>>

\* Mutant of Close: every waiter verifies again, canceled leader or not.
CloseRetryAll(r) ==
    LET woken == {w \in Requests : pc[w] = "wait" /\ leader[w] = r}
    IN  /\ pc[r] = "close"
        /\ pc' = [w \in Requests |-> IF w \in woken THEN "lookup"
                                     ELSE IF w = r THEN "return" ELSE pc[w]]
        /\ leader' = [w \in Requests |-> IF w \in woken THEN NoRequest ELSE leader[w]]
        /\ UNCHANGED <<now, api, cache, inflight, seen, gone, verdict, key, sender,
                       sentAt, answer, held, abandoned, history>>

\* close(call.done) wakes every waiter: with the result, or to verify again.
Close(r) ==
    LET woken == {w \in Requests : pc[w] = "wait" /\ leader[w] = r}
    IN  /\ pc[r] = "close"
        /\ pc' = [w \in Requests |-> IF w \in woken /\ abandoned[r] THEN "lookup"
                                     ELSE IF w \in woken \cup {r} THEN "return"
                                     ELSE pc[w]]
        /\ verdict' = [w \in Requests |-> IF w \in woken /\ ~abandoned[r]
                                          THEN verdict[r] ELSE verdict[w]]
        /\ leader' = [w \in Requests |-> IF w \in woken THEN NoRequest ELSE leader[w]]
        /\ UNCHANGED <<now, api, cache, inflight, seen, gone, key, sender,
                       sentAt, answer, held, abandoned, history>>

\* Authenticate returns; the goroutine's frame is gone.
Return(r) ==
    /\ pc[r] = "return"
    /\ Go(r, "idle")
    /\ Give(r, None)
    /\ gone' = [gone EXCEPT ![r] = FALSE]
    /\ key' = [key EXCEPT ![r] = AnyKey]
    /\ sender' = [sender EXCEPT ![r] = AnySender]
    /\ abandoned' = [abandoned EXCEPT ![r] = FALSE]
    /\ late' = late \ {r}
    /\ UNCHANGED <<now, api, cache, inflight, seen, leader, sentAt, answer, held,
                   refused>>

\* API: a key is revoked, or deleted with its workspace.
Revoke(k) ==
    /\ k \in valid
    /\ valid' = valid \ {k}
    /\ revokedAt' = [revokedAt EXCEPT ![k] = now]
    /\ UNCHANGED <<now, cache, inflight, seen, pc, gone, verdict, local, history>>

Tick ==
    /\ now < MaxTime
    /\ now' = now + 1
    /\ UNCHANGED <<api, cache, inflight, seen, pc, gone, verdict, local, history>>

\* The steps a request takes by itself once it has started.
Step(r) ==
    \/ Lookup(r) \/ Join(r) \/ WaitCanceled(r) \/ Recheck(r) \/ Allow(r)
    \/ LookupStale(r) \/ StoreStale(r) \/ Receive(r) \/ Unreachable(r)
    \/ Disconnected(r) \/ Finish(r) \/ Close(r) \/ Return(r)

Next ==
    \/ \E r \in Requests :
        \/ \E k \in Keys, s \in Senders : Start(r, k, s)
        \/ Cancel(r)
        \/ Evaluate(r)
        \/ Step(r)
    \/ \E k \in Keys : Revoke(k)
    \/ Tick

Spec == Init /\ [][Next]_vars

\* A goroutine that can run does run, and http.Client bounds every call.
Fairness == \A r \in Requests : WF_vars(Step(r))
FairSpec == Spec /\ Fairness
-----------------------------------------------------------------------------
(***************************************************************************)
(* Properties.                                                             *)
(***************************************************************************)
TypeOK ==
    /\ now \in Nat
    /\ valid \in SUBSET Keys
    /\ revokedAt \in [Keys -> Int]
    /\ entry \in [Keys -> Entries]
    /\ rank \in [Keys -> Nat]
    /\ inflight \in [Keys -> Requests \cup {NoRequest}]
    /\ seen \in [Senders -> Windows]
    /\ pc \in [Requests -> Stages]
    /\ key \in [Requests -> Keys]
    /\ sender \in [Requests -> Senders]
    /\ gone \in [Requests -> BOOLEAN]
    /\ leader \in [Requests -> Requests \cup {NoRequest}]
    /\ sentAt \in [Requests -> Nat]
    /\ answer \in [Requests -> Workspaces \cup {None, Unauthenticated}]
    /\ held \in [Requests -> Entries]
    /\ verdict \in [Requests -> Workspaces \cup Errors]
    /\ abandoned \in [Requests -> BOOLEAN]
    /\ refused \in SUBSET Keys
    /\ late \in SUBSET Requests

\* At most one verification of a key is under way at the API: the in-flight
\* map coalesces concurrent misses, also around the moment a call ends.
SingleFlight ==
    \A r, q \in Requests :
        pc[r] = "call" /\ pc[q] = "call" /\ key[r] = key[q] => r = q

\* Whatever path decided it (cache, own call, shared call, stale fallback), an
\* accepted request is granted the workspace its own key is bound to.
OwnWorkspace ==
    \A r \in Requests :
        verdict[r] \in Workspaces => verdict[r] = WorkspaceOf[key[r]]

\* Once the API has refused a key, no request that starts later is accepted:
\* neither an old positive entry nor an earlier call's answer comes back.
RefusalSticks ==
    \A r \in late : verdict[r] \notin Workspaces

\* A request fails with a context error only if its own sender went away: a
\* leader's cancellation is never handed to the requests waiting on its call.
OwnCancellation ==
    \A r \in Requests : verdict[r] = Canceled => gone[r]

\* r decides to accept in this step, itself rather than as a waiter.
Accepts(r) ==
    /\ verdict[r] \notin Workspaces
    /\ verdict'[r] \in Workspaces
    /\ pc[r] # "wait"

\* A revoked key is accepted for at most the larger of cache_ttl and
\* max_stale_age after its revocation, plus the time one call may take; a
\* key that was never issued is never accepted.
BoundedTrust ==
    [][\A r \in Requests : Accepts(r) /\ key[r] \notin valid
                           => now <= revokedAt[key[r]] + TrustBound]_vars

\* Only a request whose sender is still there extends a cached positive:
\* collector-auth.md's "Canceled requests never refresh cached authorization,
\* even with this option enabled".
CanceledNeverRefreshes ==
    [][\A k \in Keys :
         /\ Cached(k) /\ entry[k].ok
         /\ entry'[k].ok /\ entry'[k].expires > entry[k].expires
         => \E r \in Requests : key[r] = k /\ ~gone[r] /\ pc'[r] # pc[r]]_vars

\* The cache never holds more than cache_max_entries results, and the LRU
\* list and the index agree: the cached keys hold the positions 1, 2, ...
CacheBounded ==
    LET cached == {k \in Keys : Cached(k)}
    IN  /\ Cardinality(cached) <= Capacity
        /\ {rank[k] : k \in cached} = 1..Cardinality(cached)

\* A call's leader always closes it, so that a waiter always wakes.
WaiterWakes ==
    \A r \in Requests : pc[r] = "wait" ~> pc[r] # "wait"

\* Once senders stop disconnecting, every request is answered.
EveryRequestReturns ==
    <>[][\A r \in Requests : ~Cancel(r)]_vars
        => \A r \in Requests : pc[r] # "idle" ~> pc[r] = "idle"
=============================================================================
