--------------------------- MODULE MembershipProofs ---------------------------
(***************************************************************************)
(* The inductive invariant of Membership, what a step can do to the rows   *)
(* of each table, and the theorems that follow, for any sets of users,     *)
(* workspaces, invites, keys and handlers.                                 *)
(*                                                                         *)
(* The second part is why every step keeps the provider's seats, for any   *)
(* number of them. Between the seat check of a transaction and its write,  *)
(* others may only free seats of its workspace: a removal, an expiry or a  *)
(* revocation. The lemmas that count take the facts about cardinalities    *)
(* (Counting) as an assumption, which SeatsHold derives from the library.  *)
(***************************************************************************)
EXTENDS Membership, TLAPS

\* Most leaves are set theory for Zenon; those that need more cite SMT.
USE ZenonT(30)

\* A workspace has an id that was given out, a membership and an invite are for
\* such an id, and an open invite is for a workspace that still exists (ON DELETE
\* CASCADE).
Rooted ==
    /\ \A w \in Workspaces : Exists(w) => w \in created
    /\ \A w \in Workspaces, u \in Users : <<w, u>> \in members => w \in created
    /\ \A i \in Invites :
          /\ invite[i].state # "unused" => invite[i].ws \in created
          /\ invite[i].state = "open" => Exists(invite[i].ws)

\* A handler between its check and its answer serves a request, and one in a
\* locking transaction is about a workspace that was created before.
Serving ==
    \A h \in Handlers :
        /\ pc[h] # "idle" => req[h] \in Requests
        /\ pc[h] = "run" => req[h].op \notin Locking
        /\ pc[h] \in {"lock", "read", "write"} =>
              /\ req[h].op \in Locking
              /\ req[h].op = "acceptInvite" => invite[req[h].inv].state # "unused"
              /\ req[h].op # "acceptInvite" => req[h].ws \in created

\* Past lockWorkspace, the handler holds the row lock or there is no row.
Holding ==
    \A h \in Handlers :
        pc[h] \in {"read", "write"} /\ Exists(Target(req[h])) => lock[Target(req[h])] = h

\* What Read decided on is still true when Write acts on it.
Decided ==
    \A h \in Handlers :
        pc[h] = "write" =>
            /\ req[h].op = "acceptInvite" =>
                  /\ invite[req[h].inv].state = "open"
                  /\ invite[req[h].inv].email = req[h].caller
            /\ req[h].op = "createInvite" /\ Exists(req[h].ws) =>
                  <<req[h].ws, req[h].who>> \notin members

\* An address has one unanswered invite to a workspace, and a member none.
OneSeat ==
    \A i \in Invites :
        invite[i].state = "open" =>
            /\ <<invite[i].ws, invite[i].email>> \notin members
            /\ \A j \in Invites :
                  /\ invite[j].state = "open"
                  /\ invite[j].ws = invite[i].ws
                  /\ invite[j].email = invite[i].email
                  => j = i

Inv ==
    /\ TypeOK /\ OwnerIsMember /\ KeysOfLiveWorkspaces
    /\ Rooted /\ Serving /\ Holding /\ Decided /\ OneSeat

-----------------------------------------------------------------------------
\* The fields of a request, by its operation.
LEMMA RequestFields ==
    ASSUME NEW r \in Requests
    PROVE  /\ r.caller \in Users
           /\ r.op = "acceptInvite" => r.inv \in Invites
           /\ r.op # "acceptInvite" => r.ws \in Workspaces
           /\ r.op \in {"addMember", "removeMember", "createInvite"} => r.who \in Users
           /\ r.op = "revokeInvite" => r.inv \in Invites
           /\ r.op = "revokeKey" => r.k \in Keys
BY DEF Requests

\* The workspace of a locking request is one that was created.
LEMMA TargetCreated ==
    ASSUME TypeOK, Rooted, Serving, NEW h \in Handlers, pc[h] \in {"lock", "read", "write"}
    PROVE  /\ req[h] \in Requests
           /\ Target(req[h]) \in created
           /\ Target(req[h]) \in Workspaces
<1>1. req[h] \in Requests
    BY DEF Serving
<1>2. CASE req[h].op = "acceptInvite"
    BY <1>1, <1>2, RequestFields DEF Rooted, Serving, Target, TypeOK
<1>3. CASE req[h].op # "acceptInvite"
    BY <1>1, <1>3, RequestFields DEF Serving, Target, TypeOK
<1> QED
    BY <1>1, <1>2, <1>3

\* The invariant holds of an empty database.
LEMMA InitInv == Init => Inv
<1> SUFFICES ASSUME Init PROVE Inv
    OBVIOUS
<1>1. TypeOK
    BY DEF Init, TypeOK, InviteRows, Unused, States, Stages
<1>2. Rooted /\ OneSeat
    BY DEF Init, Rooted, OneSeat, Exists, Unused
<1>3. Serving /\ Holding /\ Decided
    BY DEF Init, Serving, Holding, Decided
<1> QED
    BY <1>1, <1>2, <1>3 DEF Init, Inv, OwnerIsMember, KeysOfLiveWorkspaces, Exists

-----------------------------------------------------------------------------
\* Every action leaves the tables well typed.
LEMMA TypeStep == TypeOK /\ Rooted /\ Serving /\ [Next]_vars => TypeOK'
<1> SUFFICES ASSUME TypeOK, Rooted, Serving, [Next]_vars PROVE TypeOK'
    OBVIOUS
<1> USE DEF TypeOK
<1>a. ASSUME NEW h \in Handlers, Answer(h)
      PROVE  /\ pc' \in [Handlers -> Stages] /\ req' \in [Handlers -> Requests \cup {NoOne}]
             /\ past' \in [Handlers -> SUBSET Invites]
             /\ lock' \in [Workspaces -> Handlers \cup {NoOne}]
    BY <1>a DEF Answer, Stages
<1>m. ASSUME NEW S, NEW st \in States PROVE Mark(S, st) \in [Invites -> InviteRows]
    BY <1>m DEF Mark, InviteRows
<1>1. ASSUME NEW w \in Workspaces, NEW u \in Users, Create(w, u) PROVE TypeOK'
    BY <1>1, SMTT(30) DEF Create
<1>2. ASSUME NEW i \in Invites, Expire(i) PROVE TypeOK'
    BY <1>2 DEF Expire, InviteRows
<1>3. ASSUME NEW h \in Handlers, NEW r \in Requests, Receive(h, r) PROVE TypeOK'
    BY <1>3 DEF Receive, Stages
<1>4. ASSUME NEW h \in Handlers, LockWorkspace(h) PROVE TypeOK'
    BY <1>4 DEF LockWorkspace, Go, Stages
<1>5. ASSUME NEW h \in Handlers, Read(h) PROVE TypeOK'
    <2>1. CASE Answer(h) /\ UNCHANGED late
        BY <1>5, <2>1, <1>a DEF Read
    <2>2. Standing(h) \in SUBSET Invites
        BY DEF Standing, For, Unanswered
    <2>3. CASE Go(h, "write") /\ late' = late \cup {i \in Standing(h) : invite[i].expired}
                 /\ UNCHANGED <<lock, past>>
        BY <1>5, <2>2, <2>3 DEF Read, Go, Stages
    <2> QED
        BY <1>5, <2>1, <2>3 DEF Read
<1>6. ASSUME NEW h \in Handlers, Write(h) PROVE TypeOK'
    <2>1. req[h] \in Requests /\ pc[h] = "write"
        BY <1>6 DEF Write, Serving
    <2>2. CASE Grant(h)
        BY <1>6, <1>a, <1>m, <2>1, <2>2, RequestFields, SMTT(30) DEF Write, Grant, States
    <2>3. CASE Invite(h)
        <3>1. Mark(For(req[h].ws, req[h].who), "revoked") \in [Invites -> InviteRows]
            BY <1>m DEF States
        <3>2. [ws |-> req[h].ws, email |-> req[h].who, state |-> "open", expired |-> FALSE]
                 \in InviteRows
            BY <2>1, <2>3, RequestFields DEF Invite, InviteRows, States
        <3>3. invite' \in [Invites -> InviteRows] /\ members' = members
            BY <2>3, <3>1, <3>2 DEF Invite
        <3> QED
            BY <1>6, <1>a, <3>3 DEF Write
    <2>4. CASE Accept(h)
        <3>1. Target(req[h]) \in Workspaces
            BY <2>1, <2>4, TargetCreated DEF Accept
        <3> QED
            BY <1>6, <1>a, <1>m, <2>1, <2>4, <3>1, RequestFields, SMTT(30)
            DEF Write, Accept, States
    <2> QED
        BY <1>6, <2>2, <2>3, <2>4 DEF Write
<1>7. ASSUME NEW h \in Handlers, Abort(h) PROVE TypeOK'
    BY <1>7, <1>a DEF Abort
<1>8. ASSUME NEW h \in Handlers, Run(h) PROVE TypeOK'
    <2>1. req[h] \in Requests /\ pc[h] = "run"
        BY <1>8 DEF Run, Serving
    <2>2. CASE RemoveMember(h)
        BY <1>8, <1>a, <2>2 DEF Run, RemoveMember
    <2>3. CASE RevokeInvite(h)
        BY <1>8, <1>a, <1>m, <2>3 DEF Run, RevokeInvite, States
    <2>4. CASE Delete(h)
        BY <1>8, <1>a, <1>m, <2>1, <2>4, RequestFields, SMTT(30) DEF Run, Delete, States
    <2>5. CASE CreateKey(h)
        BY <1>8, <1>a, <2>1, <2>5, RequestFields DEF Run, CreateKey
    <2>6. CASE RevokeKey(h)
        BY <1>8, <1>a, <2>6 DEF Run, RevokeKey
    <2> QED
        BY <1>8, <2>2, <2>3, <2>4, <2>5, <2>6 DEF Run
<1>9. ASSUME UNCHANGED vars PROVE TypeOK'
    BY <1>9 DEF vars
<1> QED
    BY <1>1, <1>2, <1>3, <1>4, <1>5, <1>6, <1>7, <1>8, <1>9 DEF Next

-----------------------------------------------------------------------------
\* The steps that write to a table; the others leave all of them alone.
LEMMA RowSteps ==
    ASSUME Next
    PROVE  \/ \E w \in Workspaces, u \in Users : Create(w, u)
           \/ \E i \in Invites : Expire(i)
           \/ \E h \in Handlers : Write(h)
           \/ \E h \in Handlers : Run(h)
           \/ UNCHANGED <<owner, created, members, invite, keyed>>
<1>1. ASSUME NEW h \in Handlers, NEW r \in Requests, Receive(h, r)
      PROVE  UNCHANGED <<owner, created, members, invite, keyed>>
    BY <1>1 DEF Receive
<1>2. ASSUME NEW h \in Handlers, LockWorkspace(h)
      PROVE  UNCHANGED <<owner, created, members, invite, keyed>>
    BY <1>2 DEF LockWorkspace
<1>3. ASSUME NEW h \in Handlers, Read(h)
      PROVE  UNCHANGED <<owner, created, members, invite, keyed>>
    BY <1>3 DEF Read
<1>4. ASSUME NEW h \in Handlers, Abort(h)
      PROVE  UNCHANGED <<owner, created, members, invite, keyed>>
    BY <1>4 DEF Abort
<1> QED
    BY <1>1, <1>2, <1>3, <1>4 DEF Next

\* Of the single statements only a revoke and a delete write invites, and only a
\* delete writes workspaces; none adds a member.
LEMMA RunRows ==
    ASSUME NEW h \in Handlers, Run(h)
    PROVE  /\ RevokeInvite(h) \/ Delete(h) \/ UNCHANGED invite
           /\ Delete(h) \/ UNCHANGED owner
           /\ members' \subseteq members
           /\ pc[h] = "run" /\ UNCHANGED created
<1>1. /\ pc[h] = "run" /\ UNCHANGED created
      /\ RemoveMember(h) \/ RevokeInvite(h) \/ Delete(h) \/ CreateKey(h) \/ RevokeKey(h)
    BY DEF Run
<1>2. CASE RemoveMember(h)
    BY <1>1, <1>2 DEF RemoveMember
<1>3. CASE RevokeInvite(h)
    BY <1>1, <1>3 DEF RevokeInvite
<1>4. CASE Delete(h)
    BY <1>1, <1>4 DEF Delete
<1>5. CASE CreateKey(h) \/ RevokeKey(h)
    BY <1>1, <1>5 DEF CreateKey, RevokeKey
<1> QED
    BY <1>1, <1>2, <1>3, <1>4, <1>5

\* An invite that runs out keeps everything else.
LEMMA ExpireEffect ==
    ASSUME TypeOK, NEW j \in Invites, Expire(j), NEW i \in Invites
    PROVE  /\ invite'[i].ws = invite[i].ws
           /\ invite'[i].email = invite[i].email
           /\ invite'[i].state = invite[i].state
           /\ invite[i].expired => invite'[i].expired
BY DEF Expire, TypeOK, InviteRows

\* A marked row keeps its workspace, its address and whether it expired.
LEMMA MarkEffect ==
    ASSUME TypeOK, NEW S, NEW st, NEW i \in Invites
    PROVE  /\ Mark(S, st)[i].ws = invite[i].ws
           /\ Mark(S, st)[i].email = invite[i].email
           /\ Mark(S, st)[i].expired = invite[i].expired
           /\ Mark(S, st)[i].state = IF i \in S THEN st ELSE invite[i].state
BY DEF Mark, TypeOK, InviteRows

\* CreateInvite's row is new, and the other rows of its address are revoked.
LEMMA InviteEffect ==
    ASSUME TypeOK, NEW h \in Handlers, Invite(h), Exists(req[h].ws)
    PROVE  \E i \in Invites :
              /\ invite[i].state = "unused"
              /\ invite'[i] = [ws |-> req[h].ws, email |-> req[h].who,
                               state |-> "open", expired |-> FALSE]
              /\ \A j \in Invites \ {i} :
                    /\ invite'[j].ws = invite[j].ws
                    /\ invite'[j].email = invite[j].email
                    /\ invite'[j].expired = invite[j].expired
                    /\ invite'[j].state = IF j \in For(req[h].ws, req[h].who) THEN "revoked"
                                          ELSE invite[j].state
<1> DEFINE M == Mark(For(req[h].ws, req[h].who), "revoked")
<1>1. PICK i \in Invites :
        /\ invite[i].state = "unused"
        /\ invite' = [M EXCEPT ![i] = [ws |-> req[h].ws, email |-> req[h].who,
                                       state |-> "open", expired |-> FALSE]]
    BY DEF Invite
<1>2. DOMAIN M = Invites
    BY DEF Mark
<1>3. \A j \in Invites \ {i} : invite'[j] = M[j]
    BY <1>1, <1>2
<1>4. invite'[i] = [ws |-> req[h].ws, email |-> req[h].who, state |-> "open", expired |-> FALSE]
    BY <1>1, <1>2
<1>5. ASSUME NEW j \in Invites \ {i}
      PROVE  /\ invite'[j].ws = invite[j].ws
             /\ invite'[j].email = invite[j].email
             /\ invite'[j].expired = invite[j].expired
             /\ invite'[j].state = IF j \in For(req[h].ws, req[h].who) THEN "revoked"
                                   ELSE invite[j].state
    BY <1>3, <1>5, MarkEffect, SMTT(30)
<1> QED
    BY <1>1, <1>4, <1>5, Zenon

\* A row that is in use keeps its workspace and its address.
LEMMA RowsKept ==
    ASSUME TypeOK, Next, NEW i \in Invites, invite[i].state # "unused"
    PROVE  /\ invite'[i].state # "unused"
           /\ invite'[i].ws = invite[i].ws
           /\ invite'[i].email = invite[i].email
<1> DEFINE Kept == /\ invite'[i].state # "unused"
                   /\ invite'[i].ws = invite[i].ws
                   /\ invite'[i].email = invite[i].email
<1>1. ASSUME UNCHANGED invite PROVE Kept
    BY <1>1
<1>2. ASSUME NEW S, NEW st \in States \ {"unused"}, invite' = Mark(S, st) PROVE Kept
    BY <1>2, MarkEffect, SMTT(30)
<1>3. ASSUME NEW j \in Invites, Expire(j) PROVE Kept
    BY <1>3, ExpireEffect
<1>4. ASSUME NEW h \in Handlers, Write(h) PROVE Kept
    <2>1. CASE Grant(h)
        BY <1>1, <1>2, <2>1 DEF Grant, States
    <2>2. CASE Invite(h)
        BY <1>1, <2>2, InviteEffect DEF Invite
    <2>3. CASE Accept(h)
        BY <1>2, <2>3 DEF Accept, States
    <2> QED
        BY <1>4, <2>1, <2>2, <2>3 DEF Write
<1>5. ASSUME NEW h \in Handlers, Run(h) PROVE Kept
    <2>1. CASE RevokeInvite(h)
        BY <1>2, <2>1, SMTT(30) DEF RevokeInvite, States
    <2>2. CASE Delete(h)
        BY <1>1, <1>2, <2>2 DEF Delete, States
    <2> QED
        BY <1>1, <1>5, <2>1, <2>2, RunRows
<1>6. ASSUME NEW w \in Workspaces, NEW u \in Users, Create(w, u) PROVE Kept
    BY <1>1, <1>6 DEF Create
<1> QED
    BY <1>1, <1>3, <1>4, <1>5, <1>6, RowSteps

\* An open row was open before, or CreateInvite has just made it.
LEMMA OpenRows ==
    ASSUME TypeOK, Next, NEW i \in Invites, invite'[i].state = "open"
    PROVE  \/ /\ invite[i].state = "open"
              /\ invite'[i].ws = invite[i].ws
              /\ invite'[i].email = invite[i].email
              /\ invite[i].expired => invite'[i].expired
           \/ \E h \in Handlers :
                 /\ Write(h) /\ Invite(h) /\ Exists(req[h].ws)
                 /\ invite[i].state = "unused"
                 /\ invite'[i].ws = req[h].ws
                 /\ invite'[i].email = req[h].who
<1> DEFINE Old == /\ invite[i].state = "open"
                  /\ invite'[i].ws = invite[i].ws
                  /\ invite'[i].email = invite[i].email
                  /\ invite[i].expired => invite'[i].expired
           New == \E h \in Handlers :
                     /\ Write(h) /\ Invite(h) /\ Exists(req[h].ws)
                     /\ invite[i].state = "unused"
                     /\ invite'[i].ws = req[h].ws
                     /\ invite'[i].email = req[h].who
<1>1. ASSUME UNCHANGED invite PROVE Old
    BY <1>1
<1>2. ASSUME NEW S, NEW st \in States \ {"open"}, invite' = Mark(S, st) PROVE Old
    BY <1>2, MarkEffect, SMTT(30)
<1>3. ASSUME NEW j \in Invites, Expire(j) PROVE Old
    BY <1>3, ExpireEffect
<1>4. ASSUME NEW h \in Handlers, Write(h) PROVE Old \/ New
    <2>1. CASE Grant(h)
        BY <1>1, <1>2, <2>1 DEF Grant, States
    <2>2. CASE Invite(h) /\ Exists(req[h].ws)
        <3>1. PICK k \in Invites :
                /\ invite[k].state = "unused"
                /\ invite'[k] = [ws |-> req[h].ws, email |-> req[h].who,
                                 state |-> "open", expired |-> FALSE]
                /\ \A j \in Invites \ {k} :
                      /\ invite'[j].ws = invite[j].ws
                      /\ invite'[j].email = invite[j].email
                      /\ invite'[j].expired = invite[j].expired
                      /\ invite'[j].state = IF j \in For(req[h].ws, req[h].who) THEN "revoked"
                                            ELSE invite[j].state
            BY <2>2, InviteEffect
        <3>2. CASE i = k
            BY <1>4, <2>2, <3>1, <3>2, SMTT(30)
        <3>3. CASE i # k
            BY <3>1, <3>3
        <3> QED
            BY <3>2, <3>3
    <2>3. CASE Invite(h) /\ ~Exists(req[h].ws)
        BY <1>1, <2>3 DEF Invite
    <2>4. CASE Accept(h)
        BY <1>2, <2>4 DEF Accept, States
    <2> QED
        BY <1>4, <2>1, <2>2, <2>3, <2>4 DEF Write
<1>5. ASSUME NEW h \in Handlers, Run(h) PROVE Old
    <2>1. CASE RevokeInvite(h)
        BY <1>2, <2>1, SMTT(30) DEF RevokeInvite, States
    <2>2. CASE Delete(h)
        BY <1>1, <1>2, <2>2, SMTT(30) DEF Delete, States
    <2> QED
        BY <1>1, <1>5, <2>1, <2>2, RunRows
<1>6. ASSUME NEW w \in Workspaces, NEW u \in Users, Create(w, u) PROVE Old
    BY <1>1, <1>6 DEF Create
<1> QED
    BY <1>1, <1>3, <1>4, <1>5, <1>6, RowSteps

\* The delete of a workspace that is the caller's.
Deletes(h, w) ==
    /\ pc[h] = "run"
    /\ Delete(h)
    /\ req[h].ws = w
    /\ owner[w] = req[h].caller
    /\ lock[w] = NoOne

\* A workspace appears with a new id, and goes by a delete that waits for its
\* row lock and takes its memberships, invites and keys along.
LEMMA OwnerRows ==
    ASSUME TypeOK, Serving, Next, NEW w \in Workspaces
    PROVE  \/ owner'[w] = owner[w]
           \/ w \notin created /\ \E u \in Users : Create(w, u)
           \/ \E h \in Handlers : Deletes(h, w) /\ owner'[w] = NoOne
<1>1. ASSUME NEW v \in Workspaces, NEW u \in Users, Create(v, u), owner'[w] # owner[w]
      PROVE  w \notin created /\ Create(w, u)
    BY <1>1 DEF Create, TypeOK
<1>2. ASSUME NEW h \in Handlers, Run(h), owner'[w] # owner[w]
      PROVE  Deletes(h, w) /\ owner'[w] = NoOne
    <2>1. Delete(h) /\ pc[h] = "run"
        BY <1>2, RunRows
    <2>2. req[h].ws = w /\ owner[w] = req[h].caller /\ lock[w] = NoOne /\ owner'[w] = NoOne
        BY <1>2, <2>1 DEF Delete, TypeOK
    <2> QED
        BY <2>1, <2>2 DEF Deletes
<1>3. ASSUME NEW i \in Invites, Expire(i) PROVE UNCHANGED owner
    BY <1>3 DEF Expire
<1>4. ASSUME NEW h \in Handlers, Write(h) PROVE UNCHANGED owner
    BY <1>4 DEF Write
<1> QED
    BY <1>1, <1>2, <1>3, <1>4, RowSteps

\* An id that was given out stays given out.
LEMMA CreatedGrows == ASSUME Next PROVE created \subseteq created'
<1>1. ASSUME NEW w \in Workspaces, NEW u \in Users, Create(w, u) PROVE created \subseteq created'
    BY <1>1 DEF Create
<1>2. ASSUME NEW i \in Invites, Expire(i) PROVE UNCHANGED created
    BY <1>2 DEF Expire
<1>3. ASSUME NEW h \in Handlers, Write(h) PROVE UNCHANGED created
    BY <1>3 DEF Write
<1>4. ASSUME NEW h \in Handlers, Run(h) PROVE UNCHANGED created
    BY <1>4, RunRows
<1> QED
    BY <1>1, <1>2, <1>3, <1>4, RowSteps

\* How the state of an invite changes.
LEMMA StateRows ==
    ASSUME TypeOK, Next, NEW i \in Invites, invite'[i].state # invite[i].state
    PROVE  \/ \E h \in Handlers : /\ Write(h) /\ Grant(h)
                                  /\ i \in For(req[h].ws, req[h].who)
           \/ \E h \in Handlers : /\ Write(h) /\ Invite(h)
                                  /\ \/ i \in For(req[h].ws, req[h].who)
                                     \/ invite[i].state = "unused" /\ invite'[i].state = "open"
           \/ \E h \in Handlers : Write(h) /\ Accept(h) /\ i = req[h].inv
           \/ \E h \in Handlers : /\ Run(h) /\ RevokeInvite(h)
                                  /\ i = req[h].inv /\ i \in Unanswered(req[h].ws)
           \/ \E h \in Handlers : /\ Deletes(h, invite[i].ws)
                                  /\ invite'[i].state = "gone"
                                  /\ invite'[i].ws = invite[i].ws
<1>1. ASSUME NEW S, NEW st, invite' = Mark(S, st)
      PROVE  i \in S /\ invite'[i].state = st /\ invite'[i].ws = invite[i].ws
    BY <1>1, MarkEffect, SMTT(30)
<1>2. ASSUME NEW j \in Invites, Expire(j) PROVE FALSE
    BY <1>2, ExpireEffect
<1>3. ASSUME NEW h \in Handlers, Write(h)
      PROVE  \/ Grant(h) /\ i \in For(req[h].ws, req[h].who)
             \/ /\ Invite(h)
                /\ \/ i \in For(req[h].ws, req[h].who)
                   \/ invite[i].state = "unused" /\ invite'[i].state = "open"
             \/ Accept(h) /\ i = req[h].inv
    <2>1. CASE Grant(h)
        BY <1>1, <2>1 DEF Grant
    <2>2. CASE Invite(h) /\ Exists(req[h].ws)
        <3>1. PICK k \in Invites :
                /\ invite[k].state = "unused"
                /\ invite'[k] = [ws |-> req[h].ws, email |-> req[h].who,
                                 state |-> "open", expired |-> FALSE]
                /\ \A j \in Invites \ {k} :
                      /\ invite'[j].ws = invite[j].ws
                      /\ invite'[j].email = invite[j].email
                      /\ invite'[j].expired = invite[j].expired
                      /\ invite'[j].state = IF j \in For(req[h].ws, req[h].who) THEN "revoked"
                                            ELSE invite[j].state
            BY <2>2, InviteEffect
        <3>2. i \in For(req[h].ws, req[h].who) \/ i = k
            BY <3>1
        <3> QED
            BY <2>2, <3>1, <3>2, SMTT(30)
    <2>3. CASE Invite(h) /\ ~Exists(req[h].ws)
        BY <2>3 DEF Invite
    <2>4. CASE Accept(h)
        BY <1>1, <2>4, SMTT(30) DEF Accept
    <2> QED
        BY <1>3, <2>1, <2>2, <2>3, <2>4 DEF Write
<1>4. ASSUME NEW h \in Handlers, Run(h)
      PROVE  \/ /\ RevokeInvite(h)
                /\ i = req[h].inv /\ i \in Unanswered(req[h].ws)
             \/ /\ Deletes(h, invite[i].ws)
                /\ invite'[i].state = "gone"
                /\ invite'[i].ws = invite[i].ws
    <2>1. CASE RevokeInvite(h)
        BY <1>1, <2>1 DEF RevokeInvite
    <2>2. CASE Delete(h)
        <3>1. /\ owner[req[h].ws] = req[h].caller /\ lock[req[h].ws] = NoOne
              /\ invite' = Mark({j \in Invites : invite[j].ws = req[h].ws}, "gone")
            BY <2>2 DEF Delete
        <3>2. /\ invite[i].ws = req[h].ws
              /\ invite'[i].state = "gone" /\ invite'[i].ws = invite[i].ws
            BY <1>1, <3>1, SMTT(30)
        <3> QED
            BY <1>4, <2>2, <3>1, <3>2, RunRows DEF Deletes
    <2> QED
        BY <1>4, <2>1, <2>2, RunRows
<1>5. ASSUME NEW w \in Workspaces, NEW u \in Users, Create(w, u) PROVE FALSE
    BY <1>5 DEF Create
<1> QED
    BY <1>2, <1>3, <1>4, <1>5, RowSteps

\* A membership is new by a workspace's creation, an add or an accept.
LEMMA MemberRows ==
    ASSUME Next, NEW m \in members', m \notin members
    PROVE  \/ \E w \in Workspaces, u \in Users : Create(w, u) /\ m = <<w, u>>
           \/ \E h \in Handlers : /\ Write(h) /\ Grant(h)
                                  /\ m = <<req[h].ws, req[h].who>>
                                  /\ invite' = Mark(For(req[h].ws, req[h].who), "accepted")
           \/ \E h \in Handlers : /\ Write(h) /\ Accept(h)
                                  /\ m = <<Target(req[h]), req[h].caller>>
                                  /\ invite' = Mark({req[h].inv}, "accepted")
<1>1. ASSUME NEW w \in Workspaces, NEW u \in Users, Create(w, u) PROVE m = <<w, u>>
    BY <1>1 DEF Create
<1>2. ASSUME NEW h \in Handlers, Write(h)
      PROVE  \/ /\ Grant(h) /\ m = <<req[h].ws, req[h].who>>
                /\ invite' = Mark(For(req[h].ws, req[h].who), "accepted")
             \/ /\ Accept(h) /\ m = <<Target(req[h]), req[h].caller>>
                /\ invite' = Mark({req[h].inv}, "accepted")
    BY <1>2 DEF Write, Grant, Invite, Accept
<1>3. ASSUME NEW g \in Handlers, Run(g) PROVE FALSE
    BY <1>3, RunRows
<1>4. ASSUME NEW i \in Invites, Expire(i) PROVE FALSE
    BY <1>4 DEF Expire
<1> QED
    BY <1>1, <1>2, <1>3, <1>4, RowSteps

\* The history only grows.
LEMMA LateGrows == ASSUME Next PROVE late \subseteq late'
BY DEF Next, Create, Expire, Receive, LockWorkspace, Read, Write, Abort, Run

\* A step that writes no membership or invite of a workspace by a transaction of
\* its own leaves it no more members and open invites.
LEMMA Quiet ==
    ASSUME Inv, Next, NEW w \in Workspaces, owner[w] # NoOne,
           \A g \in Handlers : Write(g) => Target(req[g]) # w
    PROVE  /\ Members(w)' \subseteq Members(w)
           /\ Open(w)' \subseteq Open(w)
<1> USE DEF Inv
<1>1. w \in created
    BY DEF Rooted, Exists
<1>2. ASSUME NEW u \in Members(w)' PROVE u \in Members(w)
    <2>1. <<w, u>> \in members' /\ u \in Users
        BY <1>2 DEF Members
    <2>2. ASSUME NEW v \in Workspaces, NEW x \in Users, Create(v, x) PROVE <<w, u>> # <<v, x>>
        BY <1>1, <2>2 DEF Create
    <2>3. ASSUME NEW h \in Handlers, Write(h), Grant(h) PROVE <<w, u>> # <<req[h].ws, req[h].who>>
        BY <2>3 DEF Grant, Target
    <2>4. ASSUME NEW h \in Handlers, Write(h)
          PROVE  <<w, u>> # <<Target(req[h]), req[h].caller>>
        BY <2>4
    <2>5. <<w, u>> \in members
        BY <2>1, <2>2, <2>3, <2>4, MemberRows
    <2> QED
        BY <2>1, <2>5 DEF Members
<1>3. ASSUME NEW i \in Open(w)' PROVE i \in Open(w)
    <2>1. i \in Invites /\ invite'[i].state = "open" /\ invite'[i].ws = w /\ ~invite'[i].expired
        BY <1>3 DEF Open, Unanswered
    <2>2. ASSUME NEW h \in Handlers, Write(h), Invite(h) PROVE req[h].ws # w
        BY <2>2 DEF Invite, Target
    <2>3. invite[i].state = "open" /\ invite[i].ws = w /\ (invite[i].expired => invite'[i].expired)
        BY <2>1, <2>2, OpenRows
    <2> QED
        BY <2>1, <2>3 DEF Open, Unanswered
<1> QED
    BY <1>2, <1>3

\* Only the delete of its workspace takes an open invite away.
LEMMA GoneRows ==
    ASSUME Inv, Next, NEW i \in Invites, invite[i].state = "open", owner'[invite[i].ws] # NoOne
    PROVE  invite'[i].state # "gone"
<1> USE DEF Inv
<1>1. ASSUME NEW S, NEW st, invite' = Mark(S, st), st # "gone" PROVE invite'[i].state # "gone"
    BY <1>1, MarkEffect, SMTT(30)
<1>2. ASSUME NEW h \in Handlers, Write(h) PROVE invite'[i].state # "gone"
    <2>1. CASE Invite(h) /\ Exists(req[h].ws)
        BY <2>1, InviteEffect
    <2>2. CASE Grant(h)
        BY <1>1, <2>2 DEF Grant
    <2>3. CASE Invite(h) /\ ~Exists(req[h].ws)
        BY <2>3 DEF Invite
    <2>4. CASE Accept(h)
        BY <1>1, <2>4 DEF Accept
    <2> QED
        BY <1>2, <2>1, <2>2, <2>3, <2>4 DEF Write
<1>3. ASSUME NEW h \in Handlers, Run(h) PROVE invite'[i].state # "gone"
    <2>1. CASE RevokeInvite(h)
        BY <1>1, <2>1 DEF RevokeInvite
    <2>2. CASE Delete(h)
        <3>1. invite[i].ws \in Workspaces
            BY DEF Rooted, TypeOK
        <3>2. CASE owner[req[h].ws] = req[h].caller
            <4>1. invite[i].ws # req[h].ws
                BY <2>2, <3>1, <3>2 DEF Delete, TypeOK
            <4>2. invite' = Mark({j \in Invites : invite[j].ws = req[h].ws}, "gone")
                BY <2>2, <3>2 DEF Delete
            <4> QED
                BY <4>1, <4>2, MarkEffect, SMTT(30)
        <3> QED
            BY <2>2, <3>2 DEF Delete
    <2> QED
        BY <1>3, <2>1, <2>2, RunRows
<1>4. ASSUME NEW j \in Invites, Expire(j) PROVE invite'[i].state # "gone"
    BY <1>4, ExpireEffect
<1>5. ASSUME NEW w \in Workspaces, NEW u \in Users, Create(w, u) PROVE invite'[i].state # "gone"
    BY <1>5 DEF Create
<1> QED
    BY <1>2, <1>3, <1>4, <1>5, RowSteps

-----------------------------------------------------------------------------

\* Invites stay with workspaces that were created, open ones with those that are.
LEMMA RootedStep == ASSUME Inv, Next PROVE Rooted'
<1> USE DEF Inv
<1>1. TypeOK'
    BY TypeStep
<1>2. ASSUME NEW w \in Workspaces, Exists(w)' PROVE w \in created'
    BY <1>2, OwnerRows, CreatedGrows DEF Rooted, Exists, Create
<1>3. ASSUME NEW i \in Invites, invite'[i].state # "unused" PROVE invite'[i].ws \in created'
    <2>1. CASE invite[i].state # "unused"
        BY <2>1, RowsKept, CreatedGrows DEF Rooted
    <2>2. CASE invite[i].state = "unused" /\ invite'[i].state = "open"
        <3>1. PICK h \in Handlers : Write(h) /\ Invite(h) /\ invite'[i].ws = req[h].ws
            BY <2>2, OpenRows
        <3>2. req[h].ws \in created
            BY <3>1 DEF Serving, Write, Invite
        <3> QED
            BY <3>1, <3>2, CreatedGrows
    <2>3. CASE invite[i].state = "unused" /\ invite'[i].state # "open"
        <3>1. \A w, u : i \notin For(w, u) /\ i \notin Unanswered(w)
            BY <2>3 DEF For, Unanswered
        <3>2. ASSUME NEW h \in Handlers, Write(h), Accept(h) PROVE i # req[h].inv
            BY <2>3, <3>2 DEF Write, Accept, Decided
        <3>3. PICK h \in Handlers : Deletes(h, invite[i].ws) /\ invite'[i].ws = invite[i].ws
            BY <1>3, <2>3, <3>1, <3>2, StateRows
        <3>4. /\ req[h].ws \in Workspaces /\ req[h].caller \in Users
              /\ invite'[i].ws = req[h].ws /\ owner[req[h].ws] = req[h].caller
            BY <3>3, RequestFields DEF Serving, Deletes, Delete
        <3> QED
            BY <3>4, CreatedGrows, MembershipAssumption DEF Rooted, Exists
    <2> QED
        BY <1>3, <2>1, <2>2, <2>3
<1>4. ASSUME NEW i \in Invites, invite'[i].state = "open" PROVE Exists(invite[i].ws)'
    <2>1. CASE invite[i].state = "open" /\ invite'[i].ws = invite[i].ws
        <3> DEFINE w == invite[i].ws
        <3>1. w \in Workspaces /\ w \in created /\ Exists(w)
            BY <2>1 DEF Rooted, TypeOK
        <3>2. ASSUME NEW h \in Handlers, Deletes(h, w) PROVE FALSE
            <4>1. invite' = Mark({j \in Invites : invite[j].ws = w}, "gone")
                BY <3>2 DEF Deletes, Delete
            <4> QED
                BY <1>4, <4>1, MarkEffect, SMTT(30)
        <3>3. owner'[w] # NoOne
            BY <3>1, <3>2, OwnerRows, MembershipAssumption DEF Exists
        <3> QED
            BY <2>1, <3>3 DEF Exists
    <2>2. ASSUME NEW h \in Handlers, Write(h), Exists(req[h].ws), invite'[i].ws = req[h].ws
          PROVE  Exists(invite[i].ws)'
        BY <2>2 DEF Write, Exists
    <2> QED
        BY <1>4, <2>1, <2>2, OpenRows
<1>5. ASSUME NEW w \in Workspaces, NEW u \in Users, <<w, u>> \in members' PROVE w \in created'
    <2>1. ASSUME NEW v \in Workspaces, NEW x \in Users, Create(v, x), <<w, u>> = <<v, x>>
          PROVE  w \in created'
        BY <2>1 DEF Create
    <2>2. ASSUME NEW h \in Handlers, Write(h), Grant(h) \/ Accept(h), w = Target(req[h])
          PROVE  w \in created'
        BY <2>2, TargetCreated, CreatedGrows DEF Write
    <2>3. CASE <<w, u>> \in members
        BY <2>3, CreatedGrows DEF Rooted
    <2>4. ASSUME NEW h \in Handlers, Grant(h) PROVE req[h].ws = Target(req[h])
        BY <2>4 DEF Grant, Target
    <2> QED
        BY <1>5, <2>1, <2>2, <2>3, <2>4, MemberRows
<1> QED
    BY <1>2, <1>3, <1>4, <1>5 DEF Rooted

-----------------------------------------------------------------------------
\* RemoveMember spares the owner and a delete takes the workspace as well.
LEMMA OwnerStep == ASSUME Inv, Next PROVE OwnerIsMember'
<1> USE DEF Inv
<1> SUFFICES ASSUME NEW w \in Workspaces, Exists(w)' PROVE <<w, owner'[w]>> \in members'
    BY DEF OwnerIsMember
<1>1. ASSUME UNCHANGED owner, members \subseteq members' PROVE <<w, owner'[w]>> \in members'
    BY <1>1 DEF OwnerIsMember, Exists
<1>2. ASSUME NEW v \in Workspaces, NEW u \in Users, Create(v, u)
      PROVE  <<w, owner'[w]>> \in members'
    BY <1>2 DEF Create, OwnerIsMember, Exists, TypeOK
<1>3. ASSUME NEW h \in Handlers, Write(h) PROVE <<w, owner'[w]>> \in members'
    BY <1>1, <1>3 DEF Write, Grant, Invite, Accept
<1>4. ASSUME NEW h \in Handlers, Run(h) PROVE <<w, owner'[w]>> \in members'
    <2>1. CASE RemoveMember(h)
        BY <2>1 DEF RemoveMember, OwnerIsMember, Exists
    <2>2. CASE Delete(h)
        BY <2>2 DEF Delete, OwnerIsMember, Exists, TypeOK
    <2>3. CASE RevokeInvite(h) \/ CreateKey(h) \/ RevokeKey(h)
        BY <1>1, <2>3 DEF RevokeInvite, CreateKey, RevokeKey
    <2> QED
        BY <1>4, <2>1, <2>2, <2>3 DEF Run
<1>5. ASSUME NEW i \in Invites, Expire(i) PROVE <<w, owner'[w]>> \in members'
    BY <1>1, <1>5 DEF Expire
<1> QED
    BY <1>1, <1>2, <1>3, <1>4, <1>5, RowSteps

\* A key is made for a workspace that exists, and deleted with it.
LEMMA KeysStep == ASSUME Inv, Next PROVE KeysOfLiveWorkspaces'
<1> USE DEF Inv
<1> SUFFICES ASSUME NEW k \in Keys, keyed'[k] # NoOne PROVE owner'[keyed'[k]] # NoOne
    BY DEF KeysOfLiveWorkspaces, Exists
<1>1. ASSUME UNCHANGED <<owner, keyed>> PROVE owner'[keyed'[k]] # NoOne
    BY <1>1 DEF KeysOfLiveWorkspaces, Exists
<1>2. ASSUME NEW v \in Workspaces, NEW u \in Users, Create(v, u)
      PROVE  owner'[keyed'[k]] # NoOne
    BY <1>2, MembershipAssumption DEF Create, KeysOfLiveWorkspaces, Exists, TypeOK
<1>3. ASSUME NEW h \in Handlers, Run(h) PROVE owner'[keyed'[k]] # NoOne
    <2>1. CASE Delete(h)
        BY <1>1, <2>1, SMTT(30) DEF Delete, KeysOfLiveWorkspaces, Exists, TypeOK
    <2>2. CASE CreateKey(h)
        BY <1>1, <2>2 DEF CreateKey, KeysOfLiveWorkspaces, Exists, TypeOK
    <2>3. CASE RevokeKey(h)
        BY <2>3 DEF RevokeKey, KeysOfLiveWorkspaces, Exists, TypeOK
    <2>4. CASE RemoveMember(h) \/ RevokeInvite(h)
        BY <1>1, <2>4 DEF RemoveMember, RevokeInvite
    <2> QED
        BY <1>3, <2>1, <2>2, <2>3, <2>4 DEF Run
<1>4. ASSUME NEW i \in Invites, Expire(i) PROVE owner'[keyed'[k]] # NoOne
    BY <1>1, <1>4 DEF Expire
<1>5. ASSUME NEW h \in Handlers, Write(h) PROVE owner'[keyed'[k]] # NoOne
    BY <1>1, <1>5 DEF Write
<1> QED
    BY <1>1, <1>2, <1>3, <1>4, <1>5, RowSteps

-----------------------------------------------------------------------------
\* What a step does to a handler: it begins a request, goes on with the one it
\* serves, answers, or is left alone.
LEMMA HandlerStep ==
    ASSUME TypeOK, Next, NEW h \in Handlers
    PROVE  \/ \E r \in Requests : Receive(h, r)
           \/ LockWorkspace(h)
           \/ Read(h) /\ Proceeds(h) /\ pc'[h] = "write" /\ req'[h] = req[h]
           \/ pc'[h] = "idle"
           \/ pc'[h] = pc[h] /\ req'[h] = req[h]
<1>1. ASSUME NEW g \in Handlers, Answer(g)
      PROVE  pc'[h] = "idle" \/ (pc'[h] = pc[h] /\ req'[h] = req[h])
    BY <1>1 DEF Answer, TypeOK
<1>2. ASSUME NEW g \in Handlers, Write(g) \/ Abort(g) \/ Run(g)
      PROVE  pc'[h] = "idle" \/ (pc'[h] = pc[h] /\ req'[h] = req[h])
    BY <1>1, <1>2 DEF Write, Abort, Run
<1>3. ASSUME NEW g \in Handlers, Read(g), ~(Read(h) /\ Proceeds(h) /\ pc'[h] = "write" /\ req'[h] = req[h])
      PROVE  pc'[h] = "idle" \/ (pc'[h] = pc[h] /\ req'[h] = req[h])
    BY <1>1, <1>3, SMTT(30) DEF Read, Go, TypeOK
<1>4. ASSUME NEW g \in Handlers, NEW r \in Requests, Receive(g, r), g # h
      PROVE  pc'[h] = pc[h] /\ req'[h] = req[h]
    BY <1>4 DEF Receive, TypeOK
<1>5. ASSUME NEW g \in Handlers, LockWorkspace(g), g # h
      PROVE  pc'[h] = pc[h] /\ req'[h] = req[h]
    BY <1>5 DEF LockWorkspace, Go, TypeOK
<1>6. ASSUME NEW i \in Invites, Expire(i) PROVE pc'[h] = pc[h] /\ req'[h] = req[h]
    BY <1>6 DEF Expire
<1>7. ASSUME NEW w \in Workspaces, NEW u \in Users, Create(w, u)
      PROVE  pc'[h] = pc[h] /\ req'[h] = req[h]
    BY <1>7 DEF Create
<1> QED
    BY <1>2, <1>3, <1>4, <1>5, <1>6, <1>7 DEF Next

\* A request stays about the same workspace.
LEMMA TargetKept ==
    ASSUME TypeOK, Serving, Next, NEW h \in Handlers,
           pc[h] \in {"lock", "read", "write"}, req'[h] = req[h]
    PROVE  Target(req[h])' = Target(req[h])
<1>1. req[h] \in Requests
    BY DEF Serving
<1>2. CASE req[h].op = "acceptInvite"
    BY <1>1, <1>2, RequestFields, RowsKept DEF Serving, Target
<1>3. CASE req[h].op # "acceptInvite"
    BY <1>3 DEF Target
<1> QED
    BY <1>2, <1>3

\* A handler serves a request until it answers.
LEMMA ServingStep == ASSUME Inv, Next PROVE Serving'
<1> USE DEF Inv
<1> SUFFICES ASSUME NEW h \in Handlers
             PROVE  /\ pc'[h] # "idle" => req'[h] \in Requests
                    /\ pc'[h] = "run" => req'[h].op \notin Locking
                    /\ pc'[h] \in {"lock", "read", "write"} =>
                          /\ req'[h].op \in Locking
                          /\ req'[h].op = "acceptInvite" => invite'[req'[h].inv].state # "unused"
                          /\ req'[h].op # "acceptInvite" => req'[h].ws \in created'
    BY DEF Serving
<1>1. ASSUME NEW r \in Requests, Receive(h, r)
      PROVE  /\ pc'[h] \in {"lock", "run"} /\ req'[h] = r
             /\ pc'[h] = "run" => r.op \notin Locking
             /\ pc'[h] = "lock" =>
                   /\ r.op \in Locking
                   /\ r.op = "acceptInvite" => invite'[r.inv].state # "unused"
                   /\ r.op # "acceptInvite" => r.ws \in created'
    <2>1. /\ req'[h] = r /\ Permitted(r)
          /\ \/ r.op \in Locking /\ pc'[h] = "lock"
             \/ r.op \notin Locking /\ pc'[h] = "run"
          /\ UNCHANGED <<invite, created>>
        BY <1>1 DEF Receive, TypeOK
    <2>2. r.op = "acceptInvite" => invite[r.inv].state # "unused"
        BY <2>1 DEF Permitted
    <2>3. r.op \in {"addMember", "createInvite"} => r.ws \in created
        <3>1. r.op \in {"addMember", "createInvite"} => owner[r.ws] = r.caller
            BY <2>1 DEF Permitted
        <3> QED
            BY <3>1, RequestFields, MembershipAssumption DEF Rooted, Exists
    <2> QED
        BY <2>1, <2>2, <2>3 DEF Locking
<1>2. ASSUME pc[h] \in {"lock", "read", "write"}, req'[h] = req[h]
      PROVE  /\ req'[h].op \in Locking
             /\ req'[h].op = "acceptInvite" => invite'[req'[h].inv].state # "unused"
             /\ req'[h].op # "acceptInvite" => req'[h].ws \in created'
    BY <1>2, RowsKept, RequestFields, CreatedGrows DEF Serving
<1>3. CASE LockWorkspace(h)
    <2>1. pc[h] = "lock" /\ pc'[h] = "read" /\ req'[h] = req[h]
        BY <1>3 DEF LockWorkspace, Go, TypeOK
    <2> QED
        BY <1>2, <2>1 DEF Serving
<1>4. CASE Read(h) /\ pc'[h] = "write" /\ req'[h] = req[h]
    <2>1. pc[h] = "read"
        BY <1>4 DEF Read
    <2> QED
        BY <1>2, <1>4, <2>1 DEF Serving
<1>5. CASE pc'[h] = pc[h] /\ req'[h] = req[h]
    BY <1>2, <1>5 DEF Serving
<1> QED
    BY <1>1, <1>3, <1>4, <1>5, HandlerStep

\* A lock is kept until its handler answers.
LEMMA LockKept ==
    ASSUME TypeOK, Next, NEW h \in Handlers, NEW w \in Workspaces,
           lock[w] = h, pc'[h] # "idle"
    PROVE  lock'[w] = h
<1>1. ASSUME NEW g \in Handlers, Answer(g) PROVE lock'[w] = h
    BY <1>1 DEF Answer, TypeOK
<1>2. ASSUME NEW g \in Handlers, LockWorkspace(g) PROVE lock'[w] = h
    BY <1>2, MembershipAssumption DEF LockWorkspace, TypeOK
<1>3. ASSUME NEW g \in Handlers, Read(g) \/ Write(g) \/ Abort(g) \/ Run(g) PROVE lock'[w] = h
    BY <1>1, <1>3 DEF Read, Write, Abort, Run
<1>4. ASSUME NEW g \in Handlers, NEW r \in Requests, Receive(g, r) PROVE lock'[w] = h
    BY <1>4 DEF Receive
<1>5. ASSUME NEW i \in Invites, Expire(i) PROVE lock'[w] = h
    BY <1>5 DEF Expire
<1>6. ASSUME NEW v \in Workspaces, NEW u \in Users, Create(v, u) PROVE lock'[w] = h
    BY <1>6 DEF Create
<1> QED
    BY <1>2, <1>3, <1>4, <1>5, <1>6 DEF Next

\* Ids are not used twice, so a row that was not there to be locked stays away.
LEMMA HoldingStep == ASSUME Inv, Next PROVE Holding'
<1> USE DEF Inv
<1> SUFFICES ASSUME NEW h \in Handlers, pc'[h] \in {"read", "write"},
                    Exists(Target(req[h]))'
             PROVE  lock'[Target(req[h])'] = h
    BY DEF Holding
<1>1. ~\E r \in Requests : Receive(h, r)
    BY DEF Receive, TypeOK
<1> DEFINE w == Target(req[h])
<1>2. CASE LockWorkspace(h)
    <2>1. pc[h] = "lock" /\ req'[h] = req[h] /\ UNCHANGED owner
        BY <1>2 DEF LockWorkspace, Go, TypeOK
    <2>2. Target(req[h])' = w /\ w \in Workspaces
        BY <2>1, TargetKept, TargetCreated
    <2>3. Exists(w)
        BY <2>1, <2>2 DEF Exists
    <2>4. lock' = [lock EXCEPT ![w] = h]
        BY <1>2, <2>3 DEF LockWorkspace
    <2> QED
        BY <2>2, <2>4 DEF TypeOK
<1>3. CASE pc[h] \in {"read", "write"} /\ req'[h] = req[h]
    <2>1. Target(req[h])' = w /\ w \in Workspaces /\ w \in created
        BY <1>3, TargetKept, TargetCreated
    <2>2. owner'[w] # NoOne
        BY <2>1 DEF Exists
    <2>3. owner[w] # NoOne
        BY <2>1, <2>2, OwnerRows
    <2>4. lock[w] = h
        BY <1>3, <2>3 DEF Holding, Exists
    <2> QED
        BY <2>1, <2>4, LockKept
<1>4. CASE Read(h) /\ req'[h] = req[h]
    BY <1>3, <1>4 DEF Read
<1> QED
    BY <1>1, <1>2, <1>3, <1>4, HandlerStep

-----------------------------------------------------------------------------
\* Two handlers past lockWorkspace are about different workspaces, unless theirs
\* is gone.
LEMMA Exclusive ==
    ASSUME Inv, NEW g \in Handlers, NEW h \in Handlers, g # h,
           pc[g] \in {"read", "write"}, pc[h] \in {"read", "write"}, Exists(Target(req[h]))
    PROVE  Target(req[g]) # Target(req[h])
BY DEF Inv, Holding

\* While a handler holds its workspace nobody joins it and it is not deleted.
LEMMA Guarded ==
    ASSUME Inv, Next, NEW h \in Handlers, pc[h] = "write", pc'[h] = "write",
           Exists(Target(req[h])), NEW u \in Users,
           <<Target(req[h]), u>> \in members'
    PROVE  <<Target(req[h]), u>> \in members
<1> USE DEF Inv
<1> DEFINE w == Target(req[h])
<1>1. w \in created
    BY TargetCreated
<1>2. ASSUME NEW v \in Workspaces, NEW x \in Users, Create(v, x) PROVE w # v
    BY <1>1, <1>2 DEF Create
<1>3. ASSUME NEW g \in Handlers, Write(g) PROVE Target(req[g]) # w
    <2>1. g # h /\ pc[g] = "write"
        BY <1>3 DEF Write, Answer, TypeOK
    <2> QED
        BY <2>1, Exclusive
<1>4. ASSUME NEW g \in Handlers, Grant(g) PROVE req[g].ws = Target(req[g])
    BY <1>4 DEF Grant, Target
<1> HIDE DEF w
<1>5. <<w, u>> \in members
    BY <1>2, <1>3, <1>4, MemberRows DEF w
<1> QED
    BY <1>5 DEF w

\* While an accept is about to write, its invite stays open: whoever could
\* answer it waits for the workspace's lock or for the invite's.
LEMMA AcceptGuarded ==
    ASSUME Inv, Next, NEW h \in Handlers, pc[h] = "write", pc'[h] = "write",
           req[h].op = "acceptInvite"
    PROVE  invite'[req[h].inv].state = "open"
<1> USE DEF Inv
<1> DEFINE i == req[h].inv
           w == Target(req[h])
<1>1. /\ i \in Invites
      /\ invite[i].state = "open" /\ invite[i].ws = w
      /\ w \in Workspaces /\ w \in created
    BY TargetCreated, RequestFields DEF Decided, Target
<1>2. Exists(w) /\ lock[w] = h
    BY <1>1 DEF Rooted, Holding
<1>3. ASSUME NEW g \in Handlers, Write(g) PROVE Target(req[g]) # w
    <2>1. g # h /\ pc[g] = "write"
        BY <1>3 DEF Write, Answer, TypeOK
    <2> QED
        BY <1>2, <2>1, Exclusive
<1>4. ASSUME NEW g \in Handlers, Write(g), Grant(g) \/ Invite(g)
      PROVE  i \notin For(req[g].ws, req[g].who)
    <2>1. req[g].ws # w
        BY <1>3, <1>4 DEF Grant, Invite, Target
    <2> QED
        BY <1>1, <2>1 DEF For, Unanswered
<1>5. ASSUME NEW g \in Handlers, Write(g), Accept(g) PROVE i # req[g].inv
    <2>1. Target(req[g]) = invite[req[g].inv].ws
        BY <1>5 DEF Accept, Target
    <2> QED
        BY <1>1, <1>3, <1>5, <2>1
<1>6. ASSUME NEW g \in Handlers, RevokeInvite(g) PROVE i # req[g].inv
    BY <1>6 DEF RevokeInvite, InviteLocked
<1>7. ASSUME NEW g \in Handlers, Deletes(g, invite[i].ws) PROVE FALSE
    BY <1>1, <1>2, <1>7, MembershipAssumption DEF Deletes
<1> HIDE DEF i, w
<1>8. i \in Invites /\ invite[i].state = "open"
    BY <1>1
<1>9. invite'[i].state = "open"
    BY <1>4, <1>5, <1>6, <1>7, <1>8, StateRows
<1> QED
    BY <1>9 DEF i

\* What Read decided stays true while the handler holds the row lock.
LEMMA DecidedStep == ASSUME Inv, Next PROVE Decided'
<1> USE DEF Inv
<1> SUFFICES ASSUME NEW h \in Handlers, pc'[h] = "write"
             PROVE  /\ req'[h].op = "acceptInvite" =>
                          /\ invite'[req'[h].inv].state = "open"
                          /\ invite'[req'[h].inv].email = req'[h].caller
                    /\ req'[h].op = "createInvite" /\ owner'[req'[h].ws] # NoOne =>
                          <<req'[h].ws, req'[h].who>> \notin members'
    BY DEF Decided, Exists
<1>1. CASE Read(h) /\ Proceeds(h) /\ req'[h] = req[h]
    <2>1. req[h] \in Requests /\ UNCHANGED <<invite, owner, members>>
        BY <1>1 DEF Read, Serving
    <2>2. ASSUME req[h].op = "acceptInvite"
          PROVE  /\ invite[req[h].inv].state = "open"
                 /\ invite[req[h].inv].email = req[h].caller
        <3>1. Standing(h) # {}
            BY <1>1, <2>2 DEF Proceeds, GrantProceeds, InviteProceeds, AcceptProceeds
        <3>2. req[h].inv \in For(Target(req[h]), req[h].caller)
            BY <2>2, <3>1 DEF Standing
        <3> QED
            BY <3>2 DEF For, Unanswered
    <2>3. ASSUME req[h].op = "createInvite" PROVE <<req[h].ws, req[h].who>> \notin members
        <3>1. req[h].who \notin Members(req[h].ws)
            BY <1>1, <2>3 DEF Proceeds, GrantProceeds, InviteProceeds, AcceptProceeds
        <3> QED
            BY <2>1, <2>3, <3>1, RequestFields DEF Members
    <2> QED
        BY <1>1, <2>1, <2>2, <2>3
<1>2. CASE pc[h] = "write" /\ req'[h] = req[h]
    <2>1. req[h] \in Requests
        BY <1>2 DEF Serving
    <2>2. ASSUME req[h].op = "acceptInvite"
          PROVE  /\ invite'[req[h].inv].state = "open"
                 /\ invite'[req[h].inv].email = req[h].caller
        BY <1>2, <2>1, <2>2, AcceptGuarded, RowsKept, RequestFields DEF Decided
    <2>3. ASSUME req[h].op = "createInvite", owner'[req[h].ws] # NoOne
          PROVE  <<req[h].ws, req[h].who>> \notin members'
        <3>1. Target(req[h]) = req[h].ws
            BY <2>3 DEF Target
        <3>2. Exists(req[h].ws)
            BY <1>2, <2>3, <3>1, OwnerRows, TargetCreated DEF Exists
        <3> QED
            BY <1>2, <2>1, <2>3, <3>1, <3>2, Guarded, RequestFields DEF Decided
    <2> QED
        BY <1>2, <2>2, <2>3
<1>3. ~(\E r \in Requests : Receive(h, r)) /\ ~LockWorkspace(h)
    BY DEF Receive, LockWorkspace, Go, TypeOK
<1> QED
    BY <1>1, <1>2, <1>3, HandlerStep

\* Who becomes a member had no invite but the one that is answered with it.
LEMMA OneSeatStep == ASSUME Inv, Next PROVE OneSeat'
<1> USE DEF Inv
<1>1. ASSUME NEW i \in Invites, invite'[i].state = "open"
      PROVE  <<invite'[i].ws, invite'[i].email>> \notin members'
    <2> DEFINE m == <<invite'[i].ws, invite'[i].email>>
    <2>1. CASE /\ invite[i].state = "open" /\ invite'[i].ws = invite[i].ws
               /\ invite'[i].email = invite[i].email
        <3>1. m \notin members /\ invite[i].ws \in created
            BY <2>1 DEF OneSeat, Rooted
        <3>2. ASSUME NEW w \in Workspaces, NEW u \in Users, Create(w, u) PROVE m # <<w, u>>
            BY <2>1, <3>1, <3>2 DEF Create
        <3>3. ASSUME NEW h \in Handlers,
                     invite' = Mark(For(req[h].ws, req[h].who), "accepted")
              PROVE  m # <<req[h].ws, req[h].who>>
            <4>1. i \notin For(req[h].ws, req[h].who)
                BY <1>1, <3>3, MarkEffect, SMTT(30)
            <4> QED
                BY <2>1, <4>1 DEF For, Unanswered
        <3>4. ASSUME NEW h \in Handlers, Write(h), Accept(h),
                     invite' = Mark({req[h].inv}, "accepted")
              PROVE  m # <<Target(req[h]), req[h].caller>>
            <4>1. i # req[h].inv
                BY <1>1, <3>4, MarkEffect, SMTT(30)
            <4>2. req[h].op = "acceptInvite" /\ pc[h] = "write" /\ req[h] \in Requests
                BY <3>4 DEF Write, Accept, Serving
            <4>3. /\ req[h].inv \in Invites /\ invite[req[h].inv].state = "open"
                  /\ invite[req[h].inv].ws = Target(req[h])
                  /\ invite[req[h].inv].email = req[h].caller
                BY <4>2, RequestFields DEF Decided, Target
            <4> QED
                BY <2>1, <4>1, <4>3 DEF OneSeat
        <3> QED
            BY <3>1, <3>2, <3>3, <3>4, MemberRows
    <2>2. ASSUME NEW h \in Handlers, Write(h), Invite(h), Exists(req[h].ws),
                 invite'[i].ws = req[h].ws, invite'[i].email = req[h].who
          PROVE  m \notin members'
        BY <2>2 DEF Write, Invite, Decided
    <2> QED
        BY <1>1, <2>1, <2>2, OpenRows
<1>2. ASSUME NEW i \in Invites, NEW j \in Invites, j # i,
             invite'[i].state = "open", invite'[j].state = "open"
      PROVE  invite'[j].ws # invite'[i].ws \/ invite'[j].email # invite'[i].email
    <2>1. CASE \E h \in Handlers : Write(h) /\ Invite(h) /\ Exists(req[h].ws)
        <3>1. PICK h \in Handlers : Invite(h) /\ Exists(req[h].ws)
            BY <2>1
        <3>2. PICK k \in Invites :
                /\ invite'[k] = [ws |-> req[h].ws, email |-> req[h].who,
                                 state |-> "open", expired |-> FALSE]
                /\ \A n \in Invites \ {k} :
                      /\ invite'[n].ws = invite[n].ws
                      /\ invite'[n].email = invite[n].email
                      /\ invite'[n].state = IF n \in For(req[h].ws, req[h].who) THEN "revoked"
                                            ELSE invite[n].state
            BY <3>1, InviteEffect, SMTT(30)
        <3>3. ASSUME NEW n \in Invites \ {k}, invite'[n].state = "open"
              PROVE  /\ invite[n].state = "open"
                     /\ invite[n].ws # req[h].ws \/ invite[n].email # req[h].who
            BY <3>2, <3>3 DEF For, Unanswered
        <3>4. CASE i # k /\ j # k
            BY <1>2, <3>2, <3>3, <3>4 DEF OneSeat
        <3>5. CASE i = k \/ j = k
            BY <1>2, <3>2, <3>3, <3>5, SMTT(30)
        <3> QED
            BY <3>4, <3>5
    <2>2. CASE ~\E h \in Handlers : Write(h) /\ Invite(h) /\ Exists(req[h].ws)
        BY <1>2, <2>2, OpenRows DEF OneSeat
    <2> QED
        BY <2>1, <2>2
<1> QED
    BY <1>1, <1>2 DEF OneSeat

-----------------------------------------------------------------------------
\* Every step keeps the invariant, one lemma per conjunct.
LEMMA InvStep == Inv /\ [Next]_vars => Inv'
<1>1. ASSUME Inv, Next PROVE Inv'
    BY <1>1, TypeStep, OwnerStep, KeysStep, RootedStep, ServingStep, HoldingStep,
       DecidedStep, OneSeatStep DEF Inv
<1>2. ASSUME Inv, UNCHANGED vars PROVE Inv'
    <2>1. /\ owner' = owner /\ created' = created /\ members' = members /\ invite' = invite
          /\ keyed' = keyed /\ lock' = lock /\ pc' = pc /\ req' = req
        BY <1>2 DEF vars
    <2>2. TypeOK' /\ OwnerIsMember' /\ KeysOfLiveWorkspaces'
        BY <1>2, <2>1, TypeStep DEF Inv, OwnerIsMember, KeysOfLiveWorkspaces, Exists
    <2>3. Rooted' /\ OneSeat'
        BY <1>2, <2>1 DEF Inv, Rooted, OneSeat, Exists
    <2>4. Serving'
        BY <1>2, <2>1 DEF Inv, Serving
    <2>5. Holding' /\ Decided'
        BY <1>2, <2>1 DEF Inv, Holding, Decided, Target, Exists
    <2> QED
        BY <2>2, <2>3, <2>4, <2>5 DEF Inv
<1> QED
    BY <1>1, <1>2

\* The invariant holds in every behaviour.
LEMMA Invariance == Spec => []Inv
BY InitInv, InvStep, PTL DEF Spec

\* An answer is kept by every step but the delete of its workspace: an add and a
\* new invite answer unanswered rows, a revoke does too, and an accept writes to
\* an invite that is still open.
LEMMA AnswerKept ==
    ASSUME Inv, Next, NEW i \in Invites, invite[i].state \in {"accepted", "revoked"}
    PROVE  \/ invite'[i].state = invite[i].state
           \/ invite'[i].state = "gone" /\ \E h \in Handlers : Deletes(h, invite[i].ws)
<1>1. \A w, u : i \notin For(w, u) /\ i \notin Unanswered(w)
    BY DEF For, Unanswered
<1>2. ASSUME NEW h \in Handlers, Write(h), Accept(h) PROVE i # req[h].inv
    BY <1>2 DEF Inv, Write, Accept, Decided
<1> QED
    BY <1>1, <1>2, StateRows DEF Inv

-----------------------------------------------------------------------------
\* The tables and the handlers keep their types.
THEOREM WellTyped == Spec => []TypeOK
<1>1. Inv => TypeOK
    BY DEF Inv
<1> QED
    BY <1>1, Invariance, PTL

\* No workspace is without its owner among its members (RemoveMember, GrantMember
\* and Delete at once).
THEOREM OwnersBelong == Spec => []OwnerIsMember
<1>1. Inv => OwnerIsMember
    BY DEF Inv
<1> QED
    BY <1>1, Invariance, PTL

\* Every active key grants a workspace that exists, though its insert and the
\* delete of the workspace race.
THEOREM KeysAreLive == Spec => []KeysOfLiveWorkspaces
<1>1. Inv => KeysOfLiveWorkspaces
    BY DEF Inv
<1> QED
    BY <1>1, Invariance, PTL

\* A member of a workspace has no open invite to it, however GrantMember,
\* CreateInvite and AcceptInvite interleave.
THEOREM OneSeatEach == Spec => []NoDoubleSeat
<1>1. Inv => NoDoubleSeat
    BY DEF Inv, NoDoubleSeat, OneSeat, Members, For, Open, Unanswered
<1> QED
    BY <1>1, Invariance, PTL

\* An accepted invite is never revoked and a revoked one never accepted, for any
\* number of handlers that accept, revoke and replace it at once.
THEOREM AnswersStand == Spec => AnswersAreFinal
<1>1. ASSUME Inv, [Next]_vars
      PROVE  [\A i \in Invites :
                invite[i].state \in {"accepted", "revoked"} =>
                   invite'[i].state \in {invite[i].state, "gone"}]_vars
    BY <1>1, AnswerKept
<1> QED
    BY <1>1, Invariance, PTL DEF Spec, AnswersAreFinal

--------------------------------------------------------------------------------

\* The invites of a workspace that were answered after a transaction had taken
\* them for open past their expiry.
LateAnswered(w) ==
    {i \in late : invite[i].ws = w /\ invite[i].state \in {"accepted", "revoked"}}

\* Whose seat a locking request is about.
Addressee(r) == IF r.op = "acceptInvite" THEN r.caller ELSE r.who

\* The seats of a workspace, counting only the late invites that were answered.
SeatCount ==
    \A w \in Workspaces :
        Exists(w) =>
            /\ Cardinality(Members(w)) <= Seats
            /\ Cardinality(Members(w)) + Cardinality(Open(w))
                  <= Seats + Cardinality(LateAnswered(w))

\* There is a seat to take, or the addressee has an invite that gives one up.
SeatFree(w, u) ==
    \/ Cardinality(Members(w)) + Cardinality(Open(w)) < Seats + Cardinality(LateAnswered(w))
    \/ \E i \in For(w, u) : i \in Open(w) \/ i \in late

\* What the provider allowed at Read still holds at Write.
SeatTaken ==
    \A h \in Handlers :
        pc[h] = "write" /\ Exists(Target(req[h])) =>
            /\ req[h].op # "createInvite" => Cardinality(Members(Target(req[h]))) < Seats
            /\ SeatFree(Target(req[h]), Addressee(req[h]))

SeatInv == SeatCount /\ SeatTaken

-----------------------------------------------------------------------------
\* What the argument needs to know of cardinalities.
Counting ==
    /\ \A S, T : IsFiniteSet(S) /\ T \subseteq S =>
          /\ IsFiniteSet(T)
          /\ Cardinality(S) \in Nat /\ Cardinality(T) \in Nat
          /\ Cardinality(T) <= Cardinality(S)
          /\ \A x \in S : x \notin T => Cardinality(T) + 1 <= Cardinality(S)
    /\ \A S, x : IsFiniteSet(S) =>
          /\ IsFiniteSet(S \cup {x})
          /\ Cardinality(S \cup {x}) = Cardinality(S) \/ Cardinality(S \cup {x}) = Cardinality(S) + 1
    /\ \A S, x : IsFiniteSet(S) => Cardinality(S) <= Cardinality(S \ {x}) + 1
    /\ \A x : Cardinality({x}) = 1
    /\ Cardinality({}) = 0

\* A subset has no more elements, and one fewer if it misses one.
LEMMA Fewer ==
    ASSUME Counting, NEW S, IsFiniteSet(S), NEW T, T \subseteq S
    PROVE  /\ IsFiniteSet(T)
           /\ Cardinality(S) \in Nat /\ Cardinality(T) \in Nat
           /\ Cardinality(T) <= Cardinality(S)
           /\ \A x \in S : x \notin T => Cardinality(T) + 1 <= Cardinality(S)
BY DEF Counting

\* One more element adds at most one, one less takes away at most one.
LEMMA OneMore ==
    ASSUME Counting, NEW S, IsFiniteSet(S), NEW x
    PROVE  /\ IsFiniteSet(S \cup {x})
           /\ Cardinality(S \cup {x}) = Cardinality(S) \/ Cardinality(S \cup {x}) = Cardinality(S) + 1
BY DEF Counting

\* Removing an element takes at most one from the count.
LEMMA OneLess ==
    ASSUME Counting, NEW S, IsFiniteSet(S), NEW x
    PROVE  Cardinality(S) <= Cardinality(S \ {x}) + 1
BY DEF Counting

\* The sets that are counted are finite, before and after a step.
LEMMA CountsFinite ==
    ASSUME Counting, Inv, Next, NEW w
    PROVE  /\ IsFiniteSet(Members(w)) /\ IsFiniteSet(Members(w)')
           /\ IsFiniteSet(Open(w)) /\ IsFiniteSet(Open(w)')
           /\ IsFiniteSet(LateAnswered(w)) /\ IsFiniteSet(LateAnswered(w)')
<1>1. late \subseteq Invites /\ late' \subseteq Invites
    BY TypeStep DEF Inv, TypeOK
<1>2. Members(w) \subseteq Users /\ Members(w)' \subseteq Users
    BY DEF Members
<1>3. Open(w) \subseteq Invites /\ Open(w)' \subseteq Invites
    BY DEF Open, Unanswered
<1>4. LateAnswered(w) \subseteq Invites /\ LateAnswered(w)' \subseteq Invites
    BY <1>1 DEF LateAnswered
<1> QED
    BY <1>2, <1>3, <1>4, Fewer, FiniteAssumption

\* A late answer stays one as long as the workspace exists.
LEMMA LateAnsweredGrows ==
    ASSUME Inv, Next, NEW w \in Workspaces, owner'[w] # NoOne
    PROVE  LateAnswered(w) \subseteq LateAnswered(w)'
<1> USE DEF Inv
<1> SUFFICES ASSUME NEW i \in LateAnswered(w) PROVE i \in LateAnswered(w)'
    OBVIOUS
<1>1. i \in Invites /\ i \in late /\ invite[i].ws = w /\ invite[i].state \in {"accepted", "revoked"}
    BY DEF LateAnswered, TypeOK
<1>2. ASSUME NEW h \in Handlers, Deletes(h, w) PROVE FALSE
    BY <1>2 DEF Deletes, Delete, TypeOK
<1>3. invite'[i].state = invite[i].state /\ invite'[i].ws = w
    BY <1>1, <1>2, AnswerKept, RowsKept
<1> QED
    BY <1>1, <1>3, LateGrows DEF LateAnswered

\* What a quiet step does to the counts.
LEMMA QuietCounts ==
    ASSUME Counting, Inv, Next, NEW w \in Workspaces, owner[w] # NoOne, owner'[w] # NoOne,
           \A g \in Handlers : Write(g) => Target(req[g]) # w
    PROVE  /\ Cardinality(Members(w)') <= Cardinality(Members(w))
           /\ Cardinality(Open(w)') <= Cardinality(Open(w))
           /\ Cardinality(LateAnswered(w)) <= Cardinality(LateAnswered(w)')
           /\ \A i \in Open(w) :
                 i \notin Open(w)' => Cardinality(Open(w)') + 1 <= Cardinality(Open(w))
           /\ \A i \in LateAnswered(w)' :
                 i \notin LateAnswered(w) =>
                    Cardinality(LateAnswered(w)) + 1 <= Cardinality(LateAnswered(w)')
<1>1. IsFiniteSet(Members(w)) /\ IsFiniteSet(Open(w)) /\ IsFiniteSet(LateAnswered(w)')
    BY CountsFinite
<1>2. /\ Members(w)' \subseteq Members(w) /\ Open(w)' \subseteq Open(w)
      /\ LateAnswered(w) \subseteq LateAnswered(w)'
    BY Quiet, LateAnsweredGrows
<1> QED
    BY <1>1, <1>2, Fewer

\* The numbers behind the counts.
LEMMA CountsNat ==
    ASSUME Counting, Inv, Next, NEW w
    PROVE  /\ Cardinality(Members(w)) \in Nat /\ Cardinality(Members(w)') \in Nat
           /\ Cardinality(Open(w)) \in Nat /\ Cardinality(Open(w)') \in Nat
           /\ Cardinality(LateAnswered(w)) \in Nat /\ Cardinality(LateAnswered(w)') \in Nat
BY CountsFinite, Fewer

\* The bounds of one workspace.
Within(w) ==
    /\ Cardinality(Members(w)) <= Seats
    /\ Cardinality(Members(w)) + Cardinality(Open(w)) <= Seats + Cardinality(LateAnswered(w))

\* A seat that was free for somebody stays so: an invite that expires or is
\* answered meanwhile leaves its place.
LEMMA FreeKept ==
    ASSUME Counting, Inv, Next, NEW w \in Workspaces, owner[w] # NoOne, owner'[w] # NoOne,
           \A g \in Handlers : Write(g) => Target(req[g]) # w,
           Within(w), NEW u, SeatFree(w, u)
    PROVE  SeatFree(w, u)'
<1> USE DEF Inv
<1>1. Seats \in Nat
    BY MembershipAssumption
<1> DEFINE m == Cardinality(Members(w))
           o == Cardinality(Open(w))
           l == Cardinality(LateAnswered(w))
<1>2. /\ m \in Nat /\ o \in Nat /\ l \in Nat /\ m' \in Nat /\ o' \in Nat /\ l' \in Nat
      /\ m' <= m /\ o' <= o /\ l <= l'
    BY CountsNat, QuietCounts
<1>3. CASE m + o < Seats + l
    <2>1. m' + o' < Seats + l'
        BY <1>1, <1>2, <1>3, SMTT(30)
    <2> QED
        BY <2>1 DEF SeatFree
<1>4. ASSUME NEW i \in For(w, u), i \in Open(w) \/ i \in late PROVE SeatFree(w, u)'
    <2>1. /\ i \in Invites /\ invite[i].state = "open" /\ invite[i].ws = w
          /\ invite[i].email = u
        BY DEF For, Unanswered
    <2>2. invite'[i].ws = w /\ invite'[i].email = u /\ invite'[i].state # "unused"
        BY <2>1, RowsKept
    <2>3. m + o <= Seats + l
        BY DEF Within
    <2>4. CASE invite'[i].state = "open" /\ (i \in Open(w)' \/ i \in late')
        <3>1. i \in For(w, u)'
            BY <2>1, <2>2, <2>4 DEF For, Unanswered
        <3> QED
            BY <2>4, <3>1 DEF SeatFree
    <2>5. CASE i \in Open(w) /\ i \notin Open(w)'
        <3>1. o' + 1 <= o
            BY <2>5, QuietCounts
        <3>2. m' + o' < Seats + l'
            BY <1>1, <1>2, <2>3, <3>1, SMTT(30)
        <3> QED
            BY <3>2 DEF SeatFree
    <2>6. CASE i \in late /\ invite'[i].state # "open"
        <3>1. invite'[i].state # "gone"
            BY <2>1, GoneRows
        <3>2. invite'[i].state \in {"accepted", "revoked"}
            BY <2>1, <2>2, <2>6, <3>1, TypeStep DEF TypeOK, InviteRows, States
        <3>3. i \in LateAnswered(w)' /\ i \notin LateAnswered(w)
            BY <2>1, <2>2, <2>6, <3>2, LateGrows DEF LateAnswered
        <3>4. l + 1 <= l'
            BY <3>3, QuietCounts
        <3>5. m' + o' < Seats + l'
            BY <1>1, <1>2, <2>3, <3>4, SMTT(30)
        <3> QED
            BY <3>5 DEF SeatFree
    <2>7. i \in Open(w)' => invite'[i].state = "open"
        BY DEF Open, Unanswered
    <2> QED
        BY <1>4, <2>4, <2>5, <2>6, <2>7, LateGrows
<1> QED
    BY <1>3, <1>4 DEF SeatFree

-----------------------------------------------------------------------------
\* The write of a transaction answers every unanswered invite of its addressee.
LEMMA WriteAnswers ==
    ASSUME Inv, Next, NEW h \in Handlers, Write(h), NEW w \in Workspaces,
           w = Target(req[h]), owner[w] # NoOne,
           NEW i \in For(w, Addressee(req[h]))
    PROVE  /\ i \in Invites /\ i \notin LateAnswered(w) /\ i \notin Open(w)'
           /\ i \in late => i \in LateAnswered(w)'
<1> USE DEF Inv
<1>1. /\ i \in Invites /\ invite[i].state = "open" /\ invite[i].ws = w
      /\ invite[i].email = Addressee(req[h])
    BY DEF For, Unanswered
<1>2. ASSUME NEW S, NEW st, invite' = Mark(S, st), i \in S PROVE invite'[i].state = st
    BY <1>1, <1>2, MarkEffect, SMTT(30)
<1>3. invite'[i].state \in {"accepted", "revoked"}
    <2>1. CASE Grant(h)
        <3>1. req[h].ws = w /\ Addressee(req[h]) = req[h].who
            BY <2>1 DEF Grant, Target, Addressee
        <3>2. req[h].who \notin Members(w)
            BY <1>1, <3>1 DEF OneSeat, Members
        <3>3. invite' = Mark(For(w, req[h].who), "accepted")
            BY <2>1, <3>1, <3>2 DEF Grant
        <3> QED
            BY <1>2, <3>1, <3>3
    <2>2. CASE Invite(h)
        <3>1. req[h].ws = w /\ Addressee(req[h]) = req[h].who
            BY <2>2 DEF Invite, Target, Addressee
        <3>2. Exists(req[h].ws)
            BY <3>1 DEF Exists
        <3> QED
            BY <1>1, <2>2, <3>1, <3>2, InviteEffect
    <2>3. CASE Accept(h)
        <3>1. pc[h] = "write" /\ req[h].op = "acceptInvite" /\ req[h] \in Requests
            BY <2>3 DEF Write, Accept, Serving
        <3>2. /\ req[h].inv \in Invites /\ invite[req[h].inv].state = "open"
              /\ invite[req[h].inv].email = req[h].caller /\ invite[req[h].inv].ws = w
              /\ Addressee(req[h]) = req[h].caller
            BY <3>1, RequestFields DEF Decided, Target, Addressee
        <3>3. i = req[h].inv
            BY <1>1, <3>2 DEF OneSeat
        <3> QED
            BY <1>2, <2>3, <3>3 DEF Accept
    <2> QED
        BY <2>1, <2>2, <2>3 DEF Write
<1>4. invite'[i].ws = w
    BY <1>1, RowsKept
<1> QED
    BY <1>1, <1>3, <1>4, LateGrows DEF LateAnswered, Open, Unanswered

\* The write takes one seat: a member's, or an invite's that is not among those
\* it answers.
LEMMA WriteTakes ==
    ASSUME Inv, Next, NEW h \in Handlers, Write(h), NEW w \in Workspaces,
           w = Target(req[h]), owner[w] # NoOne
    PROVE  \/ /\ req[h].op # "createInvite"
              /\ \E u : Members(w)' \subseteq Members(w) \cup {u}
              /\ Open(w)' \subseteq Open(w)
           \/ /\ req[h].op = "createInvite"
              /\ Members(w)' = Members(w)
              /\ \E k : Open(w)' \ {k} \subseteq Open(w)
<1> USE DEF Inv
<1>1. ASSUME Grant(h) \/ Accept(h)
      PROVE  /\ req[h].op # "createInvite"
             /\ \E u : Members(w)' \subseteq Members(w) \cup {u}
             /\ Open(w)' \subseteq Open(w)
    <2>1. PICK u : Members(w)' \subseteq Members(w) \cup {u}
        BY <1>1, SMTT(30) DEF Grant, Accept, Members
    <2>2. req[h].op # "createInvite"
        BY <1>1 DEF Grant, Accept
    <2>3. ASSUME NEW i \in Open(w)' PROVE i \in Open(w)
        <3>1. i \in Invites /\ invite'[i].state = "open" /\ invite'[i].ws = w /\ ~invite'[i].expired
            BY <2>3 DEF Open, Unanswered
        <3>2. CASE UNCHANGED invite
            BY <3>1, <3>2 DEF Open, Unanswered
        <3>3. ASSUME NEW S, invite' = Mark(S, "accepted") PROVE i \in Open(w)
            BY <3>1, <3>3, MarkEffect, SMTT(30) DEF Open, Unanswered
        <3> QED
            BY <1>1, <3>2, <3>3 DEF Grant, Accept
    <2> QED
        BY <2>1, <2>2, <2>3
<1>2. ASSUME Invite(h)
      PROVE  /\ req[h].op = "createInvite"
             /\ Members(w)' = Members(w)
             /\ \E k : Open(w)' \ {k} \subseteq Open(w)
    <2>1. req[h].op = "createInvite" /\ UNCHANGED members /\ req[h].ws = w
        BY <1>2 DEF Invite, Target
    <2>2. Exists(req[h].ws)
        BY <2>1 DEF Exists
    <2>3. PICK k \in Invites :
            /\ invite[k].state = "unused"
            /\ invite'[k] = [ws |-> req[h].ws, email |-> req[h].who,
                             state |-> "open", expired |-> FALSE]
            /\ \A j \in Invites \ {k} :
                  /\ invite'[j].ws = invite[j].ws
                  /\ invite'[j].email = invite[j].email
                  /\ invite'[j].expired = invite[j].expired
                  /\ invite'[j].state = IF j \in For(req[h].ws, req[h].who) THEN "revoked"
                                        ELSE invite[j].state
        BY <1>2, <2>2, InviteEffect
    <2>4. ASSUME NEW i \in Open(w)' \ {k} PROVE i \in Open(w)
        <3>1. i \in Invites \ {k} /\ invite'[i].state = "open" /\ invite'[i].ws = w
                /\ ~invite'[i].expired
            BY <2>4 DEF Open, Unanswered
        <3> QED
            BY <2>3, <3>1 DEF Open, Unanswered
    <2> QED
        BY <2>1, <2>4 DEF Members
<1> QED
    BY <1>1, <1>2 DEF Write

\* A write leaves its workspace within the seats: what it takes was free, or is
\* what an invite of the addressee gives up.
LEMMA WriteWithin ==
    ASSUME Counting, Inv, SeatInv, Next, NEW h \in Handlers, Write(h), NEW w \in Workspaces,
           w = Target(req[h]), owner[w] # NoOne
    PROVE  Within(w)'
<1> DEFINE m == Cardinality(Members(w))
           o == Cardinality(Open(w))
           l == Cardinality(LateAnswered(w))
<1>1. Seats \in Nat
    BY MembershipAssumption
<1>2. m \in Nat /\ o \in Nat /\ l \in Nat /\ m' \in Nat /\ o' \in Nat /\ l' \in Nat
    BY CountsNat
<1>3. pc[h] = "write" /\ owner'[w] # NoOne
    BY DEF Write
<1>4. /\ m <= Seats /\ m + o <= Seats + l
      /\ req[h].op # "createInvite" => m < Seats
      /\ SeatFree(w, Addressee(req[h]))
    BY <1>3 DEF SeatInv, SeatCount, SeatTaken, Exists
<1>5. /\ IsFiniteSet(Members(w)) /\ IsFiniteSet(Open(w)) /\ IsFiniteSet(Open(w)')
      /\ IsFiniteSet(LateAnswered(w)')
    BY CountsFinite
<1>6. l <= l'
    BY <1>3, <1>5, LateAnsweredGrows, Fewer
\* Members and open invites grow by one, less the open invites answered.
<1>7. /\ m' <= Seats
      /\ m' + o' <= m + o + 1
      /\ \A i \in For(w, Addressee(req[h])) : i \in Open(w) => m' + o' <= m + o
    <2>1. CASE /\ req[h].op # "createInvite"
               /\ \E u : Members(w)' \subseteq Members(w) \cup {u}
               /\ Open(w)' \subseteq Open(w)
        <3>1. PICK u : Members(w)' \subseteq Members(w) \cup {u}
            BY <2>1
        <3>2. m' <= m + 1
            <4>1. /\ IsFiniteSet(Members(w) \cup {u})
                  /\ Cardinality(Members(w) \cup {u}) = m \/ Cardinality(Members(w) \cup {u}) = m + 1
                BY <1>5, OneMore
            <4>2. m' <= Cardinality(Members(w) \cup {u}) /\ Cardinality(Members(w) \cup {u}) \in Nat
                BY <3>1, <4>1, Fewer
            <4> QED
                BY <1>2, <4>1, <4>2, SMTT(30)
        <3>3. o' <= o
            BY <1>5, <2>1, Fewer
        <3>4. ASSUME NEW i \in For(w, Addressee(req[h])), i \in Open(w) PROVE o' + 1 <= o
            BY <1>5, <2>1, <3>4, Fewer, WriteAnswers
        <3>5. m' <= Seats /\ m' + o' <= m + o + 1
            BY <1>1, <1>2, <1>4, <2>1, <3>2, <3>3, SMTT(30)
        <3>6. ASSUME NEW i \in For(w, Addressee(req[h])), i \in Open(w) PROVE m' + o' <= m + o
            BY <1>2, <3>2, <3>4, <3>6, SMTT(30)
        <3> QED
            BY <3>5, <3>6
    <2>2. CASE /\ req[h].op = "createInvite"
               /\ Members(w)' = Members(w)
               /\ \E k : Open(w)' \ {k} \subseteq Open(w)
        <3>1. PICK k : Open(w)' \ {k} \subseteq Open(w)
            BY <2>2
        <3> DEFINE c == Cardinality(Open(w)' \ {k})
        <3>2. o' <= c + 1 /\ c \in Nat
            <4>1. IsFiniteSet(Open(w)' \ {k}) /\ c \in Nat
                BY <1>5, <3>1, Fewer
            <4> QED
                BY <1>5, <4>1, OneLess
        <3>3. c <= o
            BY <1>5, <3>1, Fewer
        <3>4. ASSUME NEW i \in For(w, Addressee(req[h])), i \in Open(w) PROVE c + 1 <= o
            <4>1. i \notin Open(w)' \ {k}
                BY <3>4, WriteAnswers
            <4> QED
                BY <1>5, <3>1, <3>4, <4>1, Fewer
        <3>5. m' = m
            BY <2>2
        <3> HIDE DEF c
        <3>6. m' <= Seats /\ m' + o' <= m + o + 1
            BY <1>1, <1>2, <1>4, <3>2, <3>3, <3>5, SMTT(30)
        <3>7. ASSUME NEW i \in For(w, Addressee(req[h])), i \in Open(w) PROVE m' + o' <= m + o
            BY <1>2, <3>2, <3>4, <3>5, <3>7, SMTT(30)
        <3> QED
            BY <3>6, <3>7
    <2> QED
        BY <2>1, <2>2, WriteTakes
<1>8. m' + o' <= Seats + l'
    <2>1. CASE m + o < Seats + l
        BY <1>1, <1>2, <1>6, <1>7, <2>1, SMTT(30)
    <2>2. ASSUME NEW i \in For(w, Addressee(req[h])), i \in Open(w) PROVE m' + o' <= Seats + l'
        BY <1>1, <1>2, <1>4, <1>6, <1>7, <2>2, SMTT(30)
    <2>3. ASSUME NEW i \in For(w, Addressee(req[h])), i \in late PROVE m' + o' <= Seats + l'
        <3>1. i \in LateAnswered(w)' /\ i \notin LateAnswered(w)
            BY <2>3, WriteAnswers
        <3>2. l + 1 <= l'
            BY <1>3, <1>5, <3>1, LateAnsweredGrows, Fewer
        <3> QED
            BY <1>1, <1>2, <1>4, <1>7, <3>2, SMTT(30)
    <2> QED
        BY <1>4, <2>1, <2>2, <2>3 DEF SeatFree
<1> QED
    BY <1>7, <1>8 DEF Within

-----------------------------------------------------------------------------
\* Every step keeps the seats: only Write takes one, and it was free.
LEMMA SeatCountStep == ASSUME Counting, Inv, SeatInv, Next PROVE SeatCount'
<1> USE DEF Inv
<1> SUFFICES ASSUME NEW w \in Workspaces, owner'[w] # NoOne PROVE Within(w)'
    BY DEF SeatCount, Within, Exists
<1>1. Seats \in Nat \ {0}
    BY MembershipAssumption
<1>2. CASE owner[w] # NoOne
    <2>1. CASE \E h \in Handlers : Write(h) /\ Target(req[h]) = w
        BY <1>2, <2>1, WriteWithin
    <2>2. CASE \A h \in Handlers : Write(h) => Target(req[h]) # w
        <3>1. Within(w)
            BY <1>2 DEF SeatInv, SeatCount, Within, Exists
        <3> QED
            BY <1>1, <1>2, <2>2, <3>1, QuietCounts, CountsNat, SMTT(30) DEF Within
    <2> QED
        BY <2>1, <2>2
<1>3. CASE owner[w] = NoOne
    <2>1. PICK u \in Users : Create(w, u) /\ w \notin created
        BY <1>3, OwnerRows
    <2>2. Members(w)' = {u}
        BY <2>1 DEF Create, Members, Rooted
    <2>3. Open(w)' = {}
        BY <2>1 DEF Create, Open, Unanswered, Rooted
    <2>4. Cardinality(Members(w)') = 1 /\ Cardinality(Open(w)') = 0
        BY <2>2, <2>3 DEF Counting
    <2> QED
        BY <1>1, <2>4, CountsNat, SMTT(30) DEF Within
<1> QED
    BY <1>2, <1>3

\* What Read lets through has a seat to take.
LEMMA ReadFree ==
    ASSUME Counting, Inv, Next, NEW h \in Handlers, Read(h), Proceeds(h), pc'[h] = "write",
           NEW w \in Workspaces, w = Target(req[h])
    PROVE  /\ req[h].op # "createInvite" => Cardinality(Members(w)') < Seats
           /\ \/ Cardinality(Members(w)') + Cardinality(Open(w)')
                   < Seats + Cardinality(LateAnswered(w)')
              \/ \E i \in For(w, Addressee(req[h]))' : i \in Open(w)' \/ i \in late'
<1> USE DEF Inv
<1>1. Seats \in Nat
    BY MembershipAssumption
<1>2. /\ pc[h] = "read" /\ req[h] \in Requests /\ UNCHANGED <<members, invite, req>>
      /\ late' = late \cup {i \in Standing(h) : invite[i].expired}
    BY DEF Read, Answer, Go, Serving, TypeOK
<1>3. /\ Members(w)' = Members(w) /\ Open(w)' = Open(w)
      /\ For(w, Addressee(req[h]))' = For(w, Addressee(req[h]))
    BY <1>2 DEF Members, Open, For, Unanswered, Addressee
<1>4. /\ Cardinality(Members(w)) \in Nat /\ Cardinality(Open(w)) \in Nat
      /\ Cardinality(LateAnswered(w)') \in Nat
    BY CountsNat
<1>5. ASSUME NEW i \in Standing(h) PROVE i \in Open(w) \/ i \in late'
    BY <1>2, <1>5 DEF Standing, For, Open, Target
<1>6. Standing(h) \subseteq For(w, Addressee(req[h]))
    BY DEF Standing, Addressee, Target
<1>7. Standing(h) # {} => \E i \in For(w, Addressee(req[h])) : i \in Open(w) \/ i \in late'
    BY <1>5, <1>6
<1>8. InviteAllowed(w) =>
        /\ Cardinality(Members(w)) < Seats
        /\ Cardinality(Members(w)) + Cardinality(Open(w)) < Seats + Cardinality(LateAnswered(w)')
    BY <1>1, <1>4, SMTT(30) DEF InviteAllowed
<1>9. CASE GrantProceeds(h)
    <2>1. req[h].ws = w
        BY <1>9 DEF GrantProceeds, Target
    <2> QED
        BY <1>3, <1>7, <1>8, <1>9, <2>1 DEF GrantProceeds, MemberAllowed
<1>10. CASE InviteProceeds(h)
    <2>1. req[h].ws = w
        BY <1>10 DEF InviteProceeds, Target
    <2> QED
        BY <1>3, <1>7, <1>8, <1>10, <2>1 DEF InviteProceeds
<1>11. CASE AcceptProceeds(h)
    <2>1. /\ req[h].inv \in For(w, req[h].caller)
        BY <1>11 DEF AcceptProceeds, Standing
    <2>2. req[h].caller \notin Members(w)
        BY <2>1 DEF For, Unanswered, Members, OneSeat
    <2> QED
        BY <1>3, <1>7, <1>11, <2>2 DEF AcceptProceeds, MemberAllowed
<1> QED
    BY <1>9, <1>10, <1>11 DEF Proceeds

\* A seat that was free at Read is free at Write, whatever others do between.
LEMMA SeatTakenStep == ASSUME Counting, Inv, SeatInv, Next PROVE SeatTaken'
<1> USE DEF Inv
<1> SUFFICES ASSUME NEW h \in Handlers, pc'[h] = "write", Exists(Target(req[h]))'
             PROVE  /\ req'[h].op # "createInvite" =>
                         Cardinality(Members(Target(req[h]))') < Seats
                    /\ SeatFree(Target(req[h]), Addressee(req[h]))'
    BY DEF SeatTaken
<1>1. ~(\E r \in Requests : Receive(h, r)) /\ ~LockWorkspace(h)
    BY DEF Receive, LockWorkspace, Go, TypeOK
<1>2. /\ req'[h] = req[h]
      /\ pc[h] = "write" \/ (Read(h) /\ Proceeds(h) /\ pc[h] = "read")
    BY <1>1, HandlerStep DEF Read
<1>3. PICK w \in Workspaces : w = Target(req[h]) /\ w \in created
    BY <1>2, TargetCreated
<1>4. Target(req[h])' = w
    BY <1>2, <1>3, TargetKept
<1>5. PICK a : a = Addressee(req[h])
    OBVIOUS
<1>6. Addressee(req[h])' = a
    BY <1>2, <1>5 DEF Addressee
<1>7. owner'[w] # NoOne /\ owner[w] # NoOne
    <2>1. owner'[w] # NoOne
        BY <1>4 DEF Exists
    <2> QED
        BY <1>3, <2>1, OwnerRows
<1>8. SUFFICES /\ req[h].op # "createInvite" => Cardinality(Members(w)') < Seats
               /\ SeatFree(w, a)'
    BY <1>2, <1>4, <1>6 DEF SeatFree, Members, Open, For, Unanswered, LateAnswered
<1>9. CASE pc[h] = "write"
    <2>1. ASSUME NEW g \in Handlers, Write(g) PROVE Target(req[g]) # w
        <3>1. g # h /\ pc[g] = "write"
            BY <2>1 DEF Write, Answer, TypeOK
        <3> QED
            BY <1>3, <1>7, <1>9, <3>1, Exclusive DEF Exists
    <2>2. Within(w) /\ SeatFree(w, a)
            /\ (req[h].op # "createInvite" => Cardinality(Members(w)) < Seats)
        BY <1>3, <1>5, <1>7, <1>9 DEF SeatInv, SeatCount, SeatTaken, Within, Exists
    <2>3. SeatFree(w, a)'
        BY <1>7, <2>1, <2>2, FreeKept
    <2>4. Cardinality(Members(w)') <= Cardinality(Members(w))
        BY <1>7, <2>1, QuietCounts
    <2> QED
        BY <2>2, <2>3, <2>4, CountsNat, MembershipAssumption, SMTT(30)
<1>10. CASE Read(h) /\ Proceeds(h)
    <2>1. /\ req[h].op # "createInvite" => Cardinality(Members(w)') < Seats
          /\ \/ Cardinality(Members(w)') + Cardinality(Open(w)')
                  < Seats + Cardinality(LateAnswered(w)')
             \/ \E i \in For(w, Addressee(req[h]))' : i \in Open(w)' \/ i \in late'
        BY <1>3, <1>10, ReadFree
    <2>2. For(w, Addressee(req[h]))' = For(w, a)'
        BY <1>6 DEF For
    <2> QED
        BY <2>1, <2>2 DEF SeatFree
<1> QED
    BY <1>2, <1>9, <1>10

\* Nothing changes: the seats are as they were.
LEMMA SeatStutter == ASSUME SeatInv, UNCHANGED vars PROVE SeatInv'
<1>1. UNCHANGED <<owner, members, invite, pc, req, late>>
    BY DEF vars
<1>2. ASSUME NEW w
      PROVE  /\ Members(w)' = Members(w) /\ Open(w)' = Open(w)
             /\ LateAnswered(w)' = LateAnswered(w) /\ Exists(w)' = Exists(w)
    BY <1>1 DEF Members, Open, Unanswered, LateAnswered, Exists
<1>3. SeatCount'
    BY <1>2 DEF SeatInv, SeatCount
<1>4. ASSUME NEW h \in Handlers
      PROVE  Target(req[h])' = Target(req[h]) /\ Addressee(req[h])' = Addressee(req[h])
    BY <1>1 DEF Target, Addressee
<1>5. ASSUME NEW w, NEW u, SeatFree(w, u) PROVE SeatFree(w, u)'
    BY <1>1, <1>2, <1>5 DEF SeatFree, For, Unanswered
<1>6. SeatTaken'
    <2> SUFFICES ASSUME NEW h \in Handlers, pc'[h] = "write", Exists(Target(req[h]))'
                 PROVE  /\ req'[h].op # "createInvite" =>
                             Cardinality(Members(Target(req[h]))') < Seats
                        /\ SeatFree(Target(req[h]), Addressee(req[h]))'
        BY DEF SeatTaken
    <2>1. PICK w : w = Target(req[h])
        OBVIOUS
    <2>2. PICK u : u = Addressee(req[h])
        OBVIOUS
    <2>3. Target(req[h])' = w /\ Addressee(req[h])' = u
        BY <1>4, <2>1, <2>2
    <2>4. Exists(w) /\ pc[h] = "write" /\ req'[h] = req[h]
        BY <1>1, <2>3 DEF Exists
    <2>5. (req[h].op # "createInvite" => Cardinality(Members(w)) < Seats) /\ SeatFree(w, u)
        BY <2>1, <2>2, <2>4 DEF SeatInv, SeatTaken
    <2>6. (req'[h].op # "createInvite" => Cardinality(Members(w)') < Seats) /\ SeatFree(w, u)'
        BY <1>2, <1>5, <2>4, <2>5
    <2> QED
        BY <2>3, <2>6 DEF SeatFree, Members, Open, For, Unanswered, LateAnswered
<1> QED
    BY <1>3, <1>6 DEF SeatInv
-----------------------------------------------------------------------------
(***************************************************************************)
(* The facts about cardinalities, from the library, and the theorem.       *)
(***************************************************************************)


\* From here on, the library's facts about finite sets.
INSTANCE FiniteSetTheorems

\* What the steps assume of cardinalities.
LEMMA CountingHolds == Counting
<1>1. ASSUME NEW S, IsFiniteSet(S), NEW T, T \subseteq S
      PROVE  /\ IsFiniteSet(T)
             /\ Cardinality(S) \in Nat /\ Cardinality(T) \in Nat
             /\ Cardinality(T) <= Cardinality(S)
             /\ \A x \in S : x \notin T => Cardinality(T) + 1 <= Cardinality(S)
    <2>1. /\ IsFiniteSet(T)
          /\ Cardinality(T) <= Cardinality(S)
          /\ Cardinality(S) = Cardinality(T) => S = T
        BY <1>1, FS_Subset
    <2>2. Cardinality(S) \in Nat /\ Cardinality(T) \in Nat
        BY <1>1, <2>1, FS_CardinalityType
    <2>3. ASSUME NEW x \in S, x \notin T PROVE Cardinality(T) + 1 <= Cardinality(S)
        <3>1. Cardinality(S) # Cardinality(T)
            BY <2>1, <2>3
        <3> QED
            BY <2>1, <2>2, <3>1, SMTT(30)
    <2> QED
        BY <2>1, <2>2, <2>3
<1>2. ASSUME NEW S, NEW x, IsFiniteSet(S)
      PROVE  /\ IsFiniteSet(S \cup {x})
             /\ Cardinality(S \cup {x}) = Cardinality(S) \/ Cardinality(S \cup {x}) = Cardinality(S) + 1
    BY <1>2, FS_AddElement
<1>3. ASSUME NEW S, NEW x, IsFiniteSet(S)
      PROVE  Cardinality(S) <= Cardinality(S \ {x}) + 1
    <2>1. IsFiniteSet(S \ {x}) /\ Cardinality(S) \in Nat
        BY <1>1, <1>3
    <2>2. x \in S => Cardinality(S \ {x}) = Cardinality(S) - 1
        BY <1>3, FS_RemoveElement
    <2>3. x \notin S => S \ {x} = S
        OBVIOUS
    <2> QED
        BY <2>1, <2>2, <2>3, SMTT(30)
<1>4. ASSUME NEW x PROVE Cardinality({x}) = 1
    BY FS_Singleton
<1>5. Cardinality({}) = 0
    BY FS_EmptySet
<1> QED
    BY <1>1, <1>2, <1>3, <1>4, <1>5 DEF Counting

\* The invariant of the seats, next to that of the rows and the locks.
LEMMA SeatInvariance == Spec => [](Inv /\ SeatInv)
<1>1. Init => Inv /\ SeatInv
    BY InitInv DEF Init, SeatInv, SeatCount, SeatTaken, Exists
<1>2. ASSUME Inv, SeatInv, Next PROVE SeatInv'
    BY <1>2, CountingHolds, SeatCountStep, SeatTakenStep DEF SeatInv
<1>3. Inv /\ SeatInv /\ [Next]_vars => (Inv /\ SeatInv)'
    BY <1>2, SeatStutter, InvStep
<1> QED
    BY <1>1, <1>3, PTL DEF Spec

\* However GrantMember, CreateInvite, AcceptInvite, removals, revocations and
\* expiries interleave, a workspace has no more members than seats, and no more
\* members and open invites than seats and invites honoured late.
THEOREM SeatsHold == Spec => []SeatsRespected
<1>1. ASSUME Inv, SeatInv PROVE SeatsRespected
    <2> SUFFICES ASSUME NEW w \in Workspaces, Exists(w)
                 PROVE  /\ Cardinality(Members(w)) <= Seats
                        /\ Cardinality(Members(w)) + Cardinality(Open(w))
                              <= Seats + Cardinality({i \in late : invite[i].ws = w})
        BY DEF SeatsRespected
    <2> DEFINE L == {i \in late : invite[i].ws = w}
    <2>1. /\ Members(w) \subseteq Users /\ Open(w) \subseteq Invites
          /\ L \subseteq Invites /\ LateAnswered(w) \subseteq L
        BY <1>1 DEF Inv, TypeOK, Members, Open, Unanswered, LateAnswered
    <2>2. IsFiniteSet(L) /\ Cardinality(Members(w)) \in Nat /\ Cardinality(Open(w)) \in Nat
        BY <2>1, CountingHolds, Fewer, FiniteAssumption
    <2>3. /\ Cardinality(LateAnswered(w)) \in Nat /\ Cardinality(L) \in Nat
          /\ Cardinality(LateAnswered(w)) <= Cardinality(L)
        BY <2>1, <2>2, CountingHolds, Fewer
    <2>4. /\ Cardinality(Members(w)) <= Seats
          /\ Cardinality(Members(w)) + Cardinality(Open(w))
                <= Seats + Cardinality(LateAnswered(w))
        BY <1>1 DEF SeatInv, SeatCount
    <2> HIDE DEF L
    <2> QED
        BY <2>2, <2>3, <2>4, MembershipAssumption, SMTT(30) DEF L
<1> QED
    BY <1>1, SeatInvariance, PTL
================================================================================
