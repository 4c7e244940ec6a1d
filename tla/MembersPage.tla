------------------------------- MODULE MembersPage -----------------------------
(***************************************************************************)
(* The members tab of the settings, as the owner of a workspace sees it:   *)
(* the people in it, the invites that are pending, the link of the invite  *)
(* just created, and the calls that invite, remove and revoke.  The people *)
(* who were invited accept in their own time.  One busyId serves every     *)
(* row, so that the end of one call enables the button of another one.     *)
(***************************************************************************)
EXTENDS PageState, Naturals, FiniteSets

CONSTANTS
    People,      \* everyone but the owner, by email
    MaxLinks,    \* bound: invite links ever created
    MaxActs      \* bound: calls in flight that remove or revoke

\* An invite that is sent, and its link once there is one; null is neither.
Invitations == [email : People, link : Nat \cup {None}]

ASSUME MembersAssumption ==
    MaxLinks \in Nat /\ MaxActs \in Nat /\ None \notin Nat \cup Invitations

MembersInit ==
    {[name |-> "members",
      members |-> m,                     \* server
      invites |-> [e \in {} |-> 0],      \* server: the link of each pending invite
      links |-> 0,                       \* server: how many links there have been
      people |-> Query!Ask(Query!Cold),
      pending |-> Query!Ask(Query!Cold),
      inviting |-> None,                 \* the call of sendInvite, if in flight
      created |-> None,                  \* the invite whose link is shown
      acts |-> {},                       \* the calls of runAction in flight
      busy |-> None,                     \* busyId
      lost |-> FALSE] :                  \* history: an invite whose answer was lost
        m \in SUBSET People}

\* The rows that offer Remove, and the pending invites.
PeopleRows(p) == IF p.people.rows = None THEN {} ELSE p.people.rows

InviteRows(p) == IF p.pending.rows = None THEN {} ELSE p.pending.rows

--------------------------------------------------------------------------------

\* Either list goes stale, is served, arrives or fails.
RefetchMembers ==
    \/ page' = [page EXCEPT !.people = Query!Ask(@)]
    \/ page' = [page EXCEPT !.pending = Query!Ask(@)]

ServeMembers ==
    \/ /\ page.people.step = "sent"
       /\ page' = [page EXCEPT !.people = Query!Serve(@, page.members)]
    \/ /\ page.pending.step = "sent"
       /\ page' = [page EXCEPT !.pending = Query!Serve(@, DOMAIN page.invites)]

LandMembers ==
    \/ /\ page.people.step = "served"
       /\ page' = [page EXCEPT !.people = Query!Land(@)]
    \/ /\ page.pending.step = "served"
       /\ page' = [page EXCEPT !.pending = Query!Land(@)]

FailMembers ==
    \/ /\ page.people.step = "sent"
       /\ page' = [page EXCEPT !.people = Query!Fail(@)]
    \/ /\ page.pending.step = "sent"
       /\ page' = [page EXCEPT !.pending = Query!Fail(@)]

\* The person invited joins, unknown to this tab.
AcceptElsewhere ==
    \E e \in DOMAIN page.invites :
        page' = [page EXCEPT
            !.members = @ \cup {e},
            !.invites = [f \in DOMAIN @ \ {e} |-> @[f]],
            !.people = Query!Miss(@), !.pending = Query!Miss(@)]

--------------------------------------------------------------------------------

\* sendInvite, from the form or from the New link button of a pending invite.
sendInvite ==
    /\ page.inviting = None /\ page.links < MaxLinks
    /\ \E e \in People :
          /\ e \in InviteRows(page) => page.busy # <<"revoke", e>>
          /\ page' = [page EXCEPT !.inviting = [email |-> e, link |-> None]]

\* A new link replaces the one before; a member cannot be invited.
InviteOnServer ==
    LET e == page.inviting.email
        n == page.links + 1
    IN  /\ page.inviting # None /\ page.inviting.link = None /\ e \notin page.members
        /\ page' = [page EXCEPT
               !.inviting.link = n, !.links = n,
               !.invites = [f \in DOMAIN @ \cup {e} |-> IF f = e THEN n ELSE @[f]]]

Invited ==
    /\ page.inviting # None /\ page.inviting.link # None
    /\ page' = [page EXCEPT !.inviting = None, !.created = page.inviting,
                            !.pending = Query!Invalidate(@)]

InviteFails ==
    /\ page.inviting # None
    /\ page' = [page EXCEPT
           !.inviting = None,
           !.lost = @ \/ page.inviting.link # None,
           !.pending = IF page.inviting.link = None THEN @ ELSE Query!Miss(@)]

CloseLink == page' = [page EXCEPT !.created = None]

--------------------------------------------------------------------------------

\* runAction of a row whose button is enabled.
runAction(kind, rows) ==
    /\ Cardinality(page.acts) < MaxActs
    /\ \E e \in rows :
          /\ page.busy # <<kind, e>>
          /\ page' = [page EXCEPT !.busy = <<kind, e>>,
                                  !.acts = @ \cup {[kind |-> kind, who |-> e, step |-> "sent"]}]

RemoveMember == runAction("remove", PeopleRows(page))

RevokeInvite == runAction("revoke", InviteRows(page))

Outcome(done) == IF done THEN "done" ELSE "refused"

ActOnServer ==
    \E a \in page.acts :
        /\ a.step = "sent"
        /\ \/ /\ a.kind = "remove"
              /\ page' = [page EXCEPT
                     !.members = @ \ {a.who},
                     !.acts = (@ \ {a}) \cup {[a EXCEPT !.step = Outcome(a.who \in page.members)]}]
           \/ /\ a.kind = "revoke"
              /\ page' = [page EXCEPT
                     !.invites = [f \in DOMAIN @ \ {a.who} |-> @[f]],
                     !.acts = (@ \ {a}) \cup {[a EXCEPT !.step = Outcome(a.who \in DOMAIN page.invites)]}]

RefreshedNot(p, kind) == p

\* refreshMembers and refreshInvites.
RefreshedList(p, kind) ==
    IF kind = "remove" THEN [p EXCEPT !.people = Query!Invalidate(@)]
    ELSE [p EXCEPT !.pending = Query!Invalidate(@)]

Acted ==
    \E a \in page.acts :
        /\ a.step = "done"
        /\ page' = [RefreshedList(page, a.kind) EXCEPT !.acts = @ \ {a}, !.busy = None]

\* The server refuses, or the answer is lost.
ActFails ==
    \E a \in page.acts :
        page' = [page EXCEPT
            !.acts = @ \ {a}, !.busy = None,
            !.people = IF a.kind = "remove" /\ a.step = "done" THEN Query!Miss(@) ELSE @,
            !.pending = IF a.kind = "revoke" /\ a.step = "done" THEN Query!Miss(@) ELSE @]

MembersNext ==
    /\ On("members")
    /\ \/ RefetchMembers \/ ServeMembers \/ LandMembers \/ FailMembers \/ AcceptElsewhere
       \/ sendInvite \/ InviteOnServer \/ Invited \/ InviteFails \/ CloseLink
       \/ RemoveMember \/ RevokeInvite \/ ActOnServer \/ Acted \/ ActFails

--------------------------------------------------------------------------------

\* With nothing in flight the members and the invites listed are the
\* server's, unless an answer was lost or someone joined since.
MembersCatchUp ==
    On("members") /\ page.inviting = None /\ page.acts = {} =>
        /\ Query!Settled(page.people) => page.people.rows = page.members
        /\ Query!Settled(page.pending) => page.pending.rows = DOMAIN page.invites

\* While its invite is pending, the link on the screen is the one that works,
\* although a new link for the same person kills the one before.
LinkIsCurrent ==
    On("members") /\ page.created # None /\ page.inviting = None /\ ~page.lost =>
        \A e \in DOMAIN page.invites :
            e = page.created.email => page.invites[e] = page.created.link
================================================================================
