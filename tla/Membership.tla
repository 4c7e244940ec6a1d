------------------------------ MODULE Membership ------------------------------
(***************************************************************************)
(* Workspaces, their members, invites and ingest keys, as the API's        *)
(* handlers change them in Postgres (workspace/store.go, invite.go,        *)
(* apikey/store.go).  A handler first checks the caller's right, then runs *)
(* a transaction; several run at once.  The membership transactions take   *)
(* the workspace's row lock, read, consult the entitlements provider and   *)
(* write; the others are single statements.  An account stands for its     *)
(* normalised email: accounts are never deleted and their emails are       *)
(* unique.  A workspace id is never used twice.                            *)
(***************************************************************************)
EXTENDS Integers, FiniteSets

CONSTANTS
    Users,
    Workspaces,
    Invites,      \* invite rows, each with the token of its link
    Keys,         \* ingest keys
    Handlers,     \* requests being served
    NoOne,
    Seats         \* the provider's limit on members and open invites

ASSUME MembershipAssumption ==
    /\ NoOne \notin Users \cup Handlers
    /\ Seats \in Nat \ {0}

\* The tables of accounts and invites are finite.
ASSUME FiniteAssumption == IsFiniteSet(Users) /\ IsFiniteSet(Invites)

VARIABLES
    owner,      \* workspaces.user_id, NoOne when there is no such row
    created,    \* history: ids that have been given to a workspace
    members,    \* workspace_members, as pairs of workspace and user
    invite,     \* workspace_invites
    keyed,      \* api_keys: the workspace of each active key
    lock,       \* the transaction holding a workspace's row lock
    pc,         \* what each handler does next
    req,        \* the request it serves
    past,       \* the invites already expired at its transaction's NOW()
    late        \* history: invites a transaction took for open past their expiry

vars == <<owner, created, members, invite, keyed, lock, pc, req, past, late>>

-----------------------------------------------------------------------------
\* What a caller may ask for; an accept names only the link it follows.
Requests ==
    [op : {"addMember", "removeMember", "createInvite"},
     caller : Users, ws : Workspaces, who : Users]
    \cup [op : {"revokeInvite"}, caller : Users, ws : Workspaces, inv : Invites]
    \cup [op : {"acceptInvite"}, caller : Users, inv : Invites]
    \cup [op : {"delete", "createKey"}, caller : Users, ws : Workspaces]
    \cup [op : {"revokeKey"}, caller : Users, ws : Workspaces, k : Keys]

States == {"unused", "open", "accepted", "revoked", "gone"}
InviteRows == [ws : Workspaces \cup {NoOne}, email : Users \cup {NoOne},
               state : States, expired : BOOLEAN]
Unused == [ws |-> NoOne, email |-> NoOne, state |-> "unused", expired |-> FALSE]

\* The workspace a request is about.
Target(r) == IF r.op = "acceptInvite" THEN invite[r.inv].ws ELSE r.ws

Exists(w) == owner[w] # NoOne
Members(w) == {u \in Users : <<w, u>> \in members}

\* accepted_at IS NULL AND revoked_at IS NULL, and then also unexpired.
Unanswered(w) == {i \in Invites : invite[i].state = "open" /\ invite[i].ws = w}
Open(w) == {i \in Unanswered(w) : ~invite[i].expired}
For(w, u) == {i \in Unanswered(w) : invite[i].email = u}

\* The provider's answer to a feature check: a new seat, or a seat already held
\* by an open invite that its holder now takes.
InviteAllowed(w) == Cardinality(Members(w)) + Cardinality(Open(w)) < Seats
MemberAllowed(w) == Cardinality(Members(w)) < Seats

Init ==
    /\ owner = [w \in Workspaces |-> NoOne]
    /\ created = {}
    /\ members = {}
    /\ invite = [i \in Invites |-> Unused]
    /\ keyed = [k \in Keys |-> NoOne]
    /\ lock = [w \in Workspaces |-> NoOne]
    /\ pc = [h \in Handlers |-> "idle"]
    /\ req = [h \in Handlers |-> NoOne]
    /\ past = [h \in Handlers |-> {}]
    /\ late = {}

Go(h, stage) == pc' = [pc EXCEPT ![h] = stage] /\ UNCHANGED req

\* The handler answers; a transaction it was in ends and gives up its lock.
Answer(h) ==
    /\ pc' = [pc EXCEPT ![h] = "idle"]
    /\ req' = [req EXCEPT ![h] = NoOne]
    /\ past' = [past EXCEPT ![h] = {}]
    /\ lock' = [w \in Workspaces |-> IF lock[w] = h THEN NoOne ELSE lock[w]]

\* Create: the workspace and its owner's membership in one transaction.
Create(w, u) ==
    /\ w \notin created
    /\ created' = created \cup {w}
    /\ owner' = [owner EXCEPT ![w] = u]
    /\ members' = members \cup {<<w, u>>}
    /\ UNCHANGED <<invite, keyed, lock, pc, req, past, late>>

\* The time of an open invite runs out.
Expire(i) ==
    /\ invite[i].state = "open"
    /\ ~invite[i].expired
    /\ invite' = [invite EXCEPT ![i].expired = TRUE]
    /\ UNCHANGED <<owner, created, members, keyed, lock, pc, req, past, late>>

\* requireOwner for member and invite management, resolveWorkspaceScope for
\* keys; accepting needs only the link, and delete checks in its statement.
Permitted(r) ==
    CASE r.op \in {"addMember", "removeMember", "createInvite", "revokeInvite"} ->
            owner[r.ws] = r.caller
      [] r.op \in {"createKey", "revokeKey"} -> <<r.ws, r.caller>> \in members
      [] r.op = "acceptInvite" -> invite[r.inv].state \notin {"unused", "gone"}
      [] r.op = "delete" -> TRUE

Locking == {"addMember", "createInvite", "acceptInvite"}

\* A request arrives and its caller's right is checked.  If it needs the lock
\* its transaction begins: from here on its NOW() stands still, however long it
\* waits.
Receive(h, r) ==
    /\ pc[h] = "idle"
    /\ Permitted(r)
    /\ req' = [req EXCEPT ![h] = r]
    /\ \/ /\ r.op \in Locking
          /\ pc' = [pc EXCEPT ![h] = "lock"]
          /\ past' = [past EXCEPT ![h] = {i \in Invites : invite[i].expired}]
       \/ /\ r.op \notin Locking
          /\ pc' = [pc EXCEPT ![h] = "run"]
          /\ UNCHANGED past
    /\ UNCHANGED <<owner, created, members, invite, keyed, lock, late>>

\* Mutant of LockWorkspace: the row is read without FOR UPDATE.
LockNothing(h) ==
    /\ pc[h] = "lock"
    /\ Go(h, "read")
    /\ UNCHANGED <<owner, created, members, invite, keyed, lock, past, late>>

\* lockWorkspace: SELECT ... FOR UPDATE waits for the row's lock, and finds and
\* locks nothing when the row is gone.
LockWorkspace(h) ==
    /\ pc[h] = "lock"
    /\ LET w == Target(req[h])
       IN  /\ lock[w] = NoOne
           /\ lock' = IF Exists(w) THEN [lock EXCEPT ![w] = h] ELSE lock
    /\ Go(h, "read")
    /\ UNCHANGED <<owner, created, members, invite, keyed, past, late>>

\* The open invites of the request's addressee, by the transaction's NOW().
Standing(h) ==
    LET r == req[h]
    IN  IF r.op = "acceptInvite" THEN ({r.inv} \cap For(Target(r), r.caller)) \ past[h]
        ELSE For(r.ws, r.who) \ past[h]

\* GrantMember up to and including the seat check: it goes on to write.
GrantProceeds(h) ==
    LET r == req[h]
    IN  /\ r.op = "addMember"
        /\ r.who \notin Members(r.ws)
        /\ IF Standing(h) # {} THEN MemberAllowed(r.ws) ELSE InviteAllowed(r.ws)

\* CreateInvite likewise: replacing an open invite takes no new seat.
InviteProceeds(h) ==
    LET r == req[h]
    IN  /\ r.op = "createInvite"
        /\ r.who \notin Members(r.ws)
        /\ Standing(h) # {} \/ InviteAllowed(r.ws)

\* AcceptInvite likewise: the invite is open and addressed to the caller.
AcceptProceeds(h) ==
    LET r == req[h]
    IN  /\ r.op = "acceptInvite"
        /\ Standing(h) # {}
        /\ r.caller \in Members(Target(r)) \/ MemberAllowed(Target(r))

Proceeds(h) == GrantProceeds(h) \/ InviteProceeds(h) \/ AcceptProceeds(h)

Read(h) ==
    /\ pc[h] = "read"
    /\ \/ /\ Proceeds(h)
          /\ Go(h, "write")
          /\ late' = late \cup {i \in Standing(h) : invite[i].expired}
          /\ UNCHANGED <<lock, past>>
       \/ /\ ~Proceeds(h)
          /\ Answer(h)
          /\ UNCHANGED late
    /\ UNCHANGED <<owner, created, members, invite, keyed>>

\* The row lock AcceptInvite holds on its invite from read to commit.
InviteLocked(i) ==
    \E h \in Handlers : pc[h] = "write" /\ req[h].op = "acceptInvite" /\ req[h].inv = i

\* Mutant of Mark: the column written is not one the queries look at.
MarkClosed(is, state) ==
    [i \in Invites |-> IF i \in is THEN [invite[i] EXCEPT !.state = "closed"] ELSE invite[i]]

Mark(is, state) ==
    [i \in Invites |-> IF i \in is THEN [invite[i] EXCEPT !.state = state] ELSE invite[i]]

\* Mutant of Grant: the open invite is left open.
GrantOnly(h) ==
    LET r == req[h]
    IN  /\ r.op = "addMember"
        /\ members' = members \cup {<<r.ws, r.who>>}
        /\ UNCHANGED invite

\* GrantMember's writes: the membership, which must be new, and the open invite
\* it fulfils, expired or not.
Grant(h) ==
    LET r == req[h]
    IN  /\ r.op = "addMember"
        /\ IF r.who \in Members(r.ws)
           THEN UNCHANGED <<members, invite>>
           ELSE /\ members' = members \cup {<<r.ws, r.who>>}
                /\ invite' = Mark(For(r.ws, r.who), "accepted")

\* CreateInvite's writes: the address's open invite is revoked and replaced.
\* The foreign key refuses the new row once the workspace is gone.
Invite(h) ==
    LET r == req[h]
    IN  /\ r.op = "createInvite"
        /\ \/ /\ Exists(r.ws)
              /\ \E i \in Invites :
                    /\ invite[i].state = "unused"
                    /\ invite' = [Mark(For(r.ws, r.who), "revoked") EXCEPT ![i] =
                                     [ws |-> r.ws, email |-> r.who,
                                      state |-> "open", expired |-> FALSE]]
           \/ ~Exists(r.ws) /\ UNCHANGED invite
        /\ UNCHANGED members

\* AcceptInvite's writes.
Accept(h) ==
    LET r == req[h]
    IN  /\ r.op = "acceptInvite"
        /\ members' = members \cup {<<Target(r), r.caller>>}
        /\ invite' = Mark({r.inv}, "accepted")

Write(h) ==
    /\ pc[h] = "write"
    /\ Grant(h) \/ Invite(h) \/ Accept(h)
    /\ Answer(h)
    /\ UNCHANGED <<owner, created, keyed, late>>

\* A statement fails or the request is canceled: what was begun is rolled back.
Abort(h) ==
    /\ pc[h] # "idle"
    /\ Answer(h)
    /\ UNCHANGED <<owner, created, members, invite, keyed, late>>

\* Mutant of RemoveMember: the owner can be removed.
RemoveAnyMember(h) ==
    /\ req[h].op = "removeMember"
    /\ members' = members \ {<<req[h].ws, req[h].who>>}
    /\ UNCHANGED <<owner, invite, keyed>>

RemoveMember(h) ==
    /\ req[h].op = "removeMember"
    /\ members' = IF owner[req[h].ws] = req[h].who THEN members
                  ELSE members \ {<<req[h].ws, req[h].who>>}
    /\ UNCHANGED <<owner, invite, keyed>>

\* Mutant of RevokeInvite: it does not wait for an accept under way.
RevokeUnlocked(h) ==
    /\ req[h].op = "revokeInvite"
    /\ invite' = Mark({req[h].inv} \cap Unanswered(req[h].ws), "revoked")
    /\ UNCHANGED <<owner, members, keyed>>

RevokeInvite(h) ==
    /\ req[h].op = "revokeInvite"
    /\ ~InviteLocked(req[h].inv)
    /\ invite' = Mark({req[h].inv} \cap Unanswered(req[h].ws), "revoked")
    /\ UNCHANGED <<owner, members, keyed>>

\* Mutant of Delete: the keys are not deleted with their workspace.
DeleteKeepingKeys(h) ==
    LET w == req[h].ws
    IN  /\ req[h].op = "delete"
        /\ lock[w] = NoOne
        /\ owner[w] = req[h].caller
        /\ owner' = [owner EXCEPT ![w] = NoOne]
        /\ members' = {m \in members : m[1] # w}
        /\ invite' = Mark({i \in Invites : invite[i].ws = w}, "gone")
        /\ UNCHANGED keyed

\* Delete: the workspace row, by ON DELETE CASCADE its invites and keys, and
\* the memberships there are by then.
Delete(h) ==
    LET w == req[h].ws
    IN  /\ req[h].op = "delete"
        /\ \/ /\ owner[w] = req[h].caller
              /\ lock[w] = NoOne
              /\ owner' = [owner EXCEPT ![w] = NoOne]
              /\ members' = {m \in members : m[1] # w}
              /\ invite' = Mark({i \in Invites : invite[i].ws = w}, "gone")
              /\ keyed' = [k \in Keys |-> IF keyed[k] = w THEN NoOne ELSE keyed[k]]
           \/ /\ owner[w] # req[h].caller
              /\ UNCHANGED <<owner, members, invite, keyed>>

\* Insert of a key: the foreign key waits for the workspace's row lock.
CreateKey(h) ==
    LET w == req[h].ws
    IN  /\ req[h].op = "createKey"
        /\ lock[w] = NoOne
        /\ \/ /\ Exists(w)
              /\ \E k \in Keys : keyed[k] = NoOne /\ keyed' = [keyed EXCEPT ![k] = w]
           \/ ~Exists(w) /\ UNCHANGED keyed
        /\ UNCHANGED <<owner, members, invite>>

RevokeKey(h) ==
    /\ req[h].op = "revokeKey"
    /\ keyed' = IF keyed[req[h].k] = req[h].ws THEN [keyed EXCEPT ![req[h].k] = NoOne]
                ELSE keyed
    /\ UNCHANGED <<owner, members, invite>>

Run(h) ==
    /\ pc[h] = "run"
    /\ \/ RemoveMember(h) \/ RevokeInvite(h) \/ Delete(h)
       \/ CreateKey(h) \/ RevokeKey(h)
    /\ Answer(h)
    /\ UNCHANGED <<created, late>>

Next ==
    \/ \E w \in Workspaces, u \in Users : Create(w, u)
    \/ \E i \in Invites : Expire(i)
    \/ \E h \in Handlers :
        \/ \E r \in Requests : Receive(h, r)
        \/ LockWorkspace(h) \/ Read(h) \/ Write(h) \/ Abort(h) \/ Run(h)

Spec == Init /\ [][Next]_vars
-----------------------------------------------------------------------------
(***************************************************************************)
(* Properties.                                                             *)
(***************************************************************************)
Stages == {"idle", "lock", "read", "write", "run"}

TypeOK ==
    /\ owner \in [Workspaces -> Users \cup {NoOne}]
    /\ created \in SUBSET Workspaces
    /\ members \in SUBSET (Workspaces \X Users)
    /\ invite \in [Invites -> InviteRows]
    /\ keyed \in [Keys -> Workspaces \cup {NoOne}]
    /\ lock \in [Workspaces -> Handlers \cup {NoOne}]
    /\ pc \in [Handlers -> Stages]
    /\ req \in [Handlers -> Requests \cup {NoOne}]
    /\ past \in [Handlers -> SUBSET Invites]
    /\ late \in SUBSET Invites

\* A workspace never exists without its owner among its members, whatever
\* removals, adds and deletions run at the same time.
OwnerIsMember ==
    \A w \in Workspaces : Exists(w) => <<w, owner[w]>> \in members

\* However adds, invites, accepts, removals and expiries interleave, members
\* never outnumber the provider's seats, and members and open invites together
\* exceed them by at most the invites that a waiting transaction, its NOW()
\* frozen, honoured after their expiry had freed the seat.
SeatsRespected ==
    \A w \in Workspaces :
        Exists(w) =>
            /\ Cardinality(Members(w)) <= Seats
            /\ Cardinality(Members(w)) + Cardinality(Open(w))
                  <= Seats + Cardinality({i \in late : invite[i].ws = w})

\* Nobody holds two seats: who is a member has no open invite left.
NoDoubleSeat ==
    \A w \in Workspaces : \A u \in Members(w) : For(w, u) \cap Open(w) = {}

\* An active key always grants a workspace that exists.
KeysOfLiveWorkspaces ==
    \A k \in Keys : keyed[k] # NoOne => Exists(keyed[k])

\* An answered invite stays as it was answered: a revoked link is never
\* accepted after all, an accepted one never revoked.
AnswersAreFinal ==
    [][\A i \in Invites :
         invite[i].state \in {"accepted", "revoked"} =>
            invite'[i].state \in {invite[i].state, "gone"}]_vars

\* Delete "removes a workspace and all its memberships": none is left, or made
\* later, for a workspace that does not exist.
NoOrphanMembers ==
    \A m \in members : Exists(m[1])
=============================================================================
