---------------------------- MODULE Invitations ----------------------------
(***************************************************************************)
(* The invitations an organization's admins send to one address            *)
(* (lib/data/invitations.ts and its routes), and the account that          *)
(* accepting one makes, whose module this one extends: the two share the   *)
(* handlers, a handler with a stage is at work on an invitation.  There is *)
(* one organization: members and open invitations are looked up in its own. *)
(***************************************************************************)
EXTENDS Accounts

VARIABLES
    stage,                  \* where a request about invitations stands
    accepting,              \* the invitation it has found
    sent,                   \* the rows; an invitation is named for its request
    delivered,              \* those whose link went out
    acceptedBy,             \* acceptedByUserId, None if it was not accepted
    revoked,                \* revokedAt
    lapsed,                 \* those past their expiresAt
    rivals,                 \* history: requests that had listed when another created
    pursued                 \* history: invitations revoked while being accepted

invitationVars == <<sent, delivered, acceptedBy, revoked, lapsed, rivals, pursued>>
vars == <<accountVars, stage, accepting, invitationVars>>

AtWork == {"list", "create", "deliver", "find", "join"}
Stages == AtWork \cup {"none", "done"}

accepted == {i \in Handlers : acceptedBy[i] # None}

\* What the route takes for open, without a look at expiresAt.
Open == sent \ (accepted \cup revoked)

\* What can still be accepted.
Pending == Open \ lapsed

InvitationsInit ==
    /\ Init
    /\ stage = [h \in Handlers |-> "none"]
    /\ accepting = [h \in Handlers |-> None]
    /\ sent = {} /\ delivered = {} /\ revoked = {} /\ lapsed = {}
    /\ acceptedBy = [i \in Handlers |-> None]
    /\ rivals = {} /\ pursued = {}

Idle(h) == pc[h] = "idle" /\ stage[h] = "none"

Turn(h, l) == stage' = [stage EXCEPT ![h] = l]

Drop(h) == accepting' = [accepting EXCEPT ![h] = None]

\* The request is answered.
Finish(h) == Turn(h, "done") /\ Drop(h)
-----------------------------------------------------------------------------
(***************************************************************************)
(* An admin invites: is there such a member, ...                           *)
(***************************************************************************)
Invite(h, admin) ==
    /\ Idle(h)
    /\ \/ ~(admin /\ password = None) /\ Finish(h)
       \/ admin /\ password = None /\ Turn(h, "list") /\ UNCHANGED accepting
    /\ UNCHANGED <<accountVars, invitationVars>>

\* Mutant: the route creates without asking what is open.
ListInvitations_Unasked(h) ==
    /\ stage[h] = "list"
    /\ Turn(h, "create")
    /\ UNCHANGED <<accountVars, accepting, invitationVars>>

\* ... is there an open invitation, ...
ListInvitations(h) ==
    /\ stage[h] = "list"
    /\ \/ Open # {} /\ Finish(h)
       \/ Open = {} /\ Turn(h, "create") /\ UNCHANGED accepting
    /\ UNCHANGED <<accountVars, invitationVars>>

\* ... createInvitation, ...
CreateInvitation(h) ==
    /\ stage[h] = "create"
    /\ sent' = sent \cup {h}
    /\ rivals' = rivals \cup {o \in Handlers \ {h} : stage[o] = "create"}
    /\ Turn(h, "deliver")
    /\ UNCHANGED <<accountVars, accepting, delivered, acceptedBy, revoked, lapsed, pursued>>

\* ... and the mail with the link.
Deliver(h) ==
    /\ stage[h] = "deliver"
    /\ delivered' = delivered \cup {h}
    /\ Finish(h)
    /\ UNCHANGED <<accountVars, sent, acceptedBy, revoked, lapsed, rivals, pursued>>

\* Mutant: whether the invitation was accepted does not matter.
Revocable_Accepted(i) == i \in sent \ revoked

Revocable(i) == i \in sent \ (revoked \cup accepted)

\* revokeInvitation, one conditional update.
RevokeInvitation(h, i) ==
    /\ Idle(h)
    /\ \/ /\ Revocable(i)
          /\ revoked' = revoked \cup {i}
          /\ pursued' = IF \E o \in Handlers : accepting[o] = i THEN pursued \cup {i} ELSE pursued
          /\ Finish(h)
          /\ UNCHANGED <<accountVars, sent, delivered, acceptedBy, lapsed, rivals>>
       \/ /\ ~Revocable(i)
          /\ Finish(h)
          /\ UNCHANGED <<accountVars, invitationVars>>

LapseInvitation(i) ==
    /\ i \in sent \ lapsed
    /\ lapsed' = lapsed \cup {i}
    /\ UNCHANGED <<accountVars, stage, accepting, sent, delivered, acceptedBy, revoked, rivals, pursued>>
-----------------------------------------------------------------------------
(***************************************************************************)
(* The invited accept: the invitation is found, ...                        *)
(***************************************************************************)
\* resolveInvitation.
Acceptable(i) == i \in delivered \cap Pending

AcceptInvitation(h, i) ==
    /\ Idle(h)
    /\ i \in delivered
    /\ \/ Acceptable(i) /\ Turn(h, "find") /\ accepting' = [accepting EXCEPT ![h] = i]
       \/ ~Acceptable(i) /\ Finish(h)
    /\ UNCHANGED <<accountVars, invitationVars>>

\* ... the address has no account yet, ...
FindExisting(h) ==
    /\ stage[h] = "find"
    /\ \/ password # None /\ Finish(h)
       \/ password = None /\ Turn(h, "join") /\ UNCHANGED accepting
    /\ UNCHANGED <<accountVars, invitationVars>>

\* Mutant: the invitation is marked whether or not the account could be made.
Marked_Always(h) == acceptedBy' = [acceptedBy EXCEPT ![accepting[h]] = h]

\* The transaction marks the invitation, by its id alone, if it makes the account.
Marked(h) ==
    acceptedBy' = IF owner = None THEN [acceptedBy EXCEPT ![accepting[h]] = h] ELSE acceptedBy

\* ... and gets one, with which the handler goes on to issue a session.
Join(h, p) ==
    /\ stage[h] = "join"
    /\ Register(h, p)
    /\ Marked(h)
    /\ Turn(h, "none") /\ Drop(h)
    /\ UNCHANGED <<sent, delivered, revoked, lapsed, rivals, pursued>>

\* A call throws, or the process dies.
Break(h) ==
    /\ stage[h] \in AtWork
    /\ Crash(h)
    /\ Finish(h)
    /\ UNCHANGED invitationVars
-----------------------------------------------------------------------------
\* The route in front of each: the session is that of an admin or is not.
InviteRoute(h) ==
    \/ \E admin \in BOOLEAN : Invite(h, admin)
    \/ ListInvitations(h) \/ CreateInvitation(h) \/ Deliver(h)

RevokeRoute(h) == \E i \in Handlers : RevokeInvitation(h, i)

AcceptRoute(h) ==
    \/ \E i \in Handlers : AcceptInvitation(h, i)
    \/ FindExisting(h)
    \/ \E p \in Passwords : Join(h, p)

\* The account's own requests, and time.
AccountStep ==
    /\ Lapse \/ \E h \in Handlers : stage[h] = "none" /\ Request(h)
    /\ UNCHANGED <<stage, accepting, invitationVars>>

InvitationsNext ==
    \/ AccountStep
    \/ \E h \in Handlers : InviteRoute(h) \/ RevokeRoute(h) \/ AcceptRoute(h) \/ Break(h)
    \/ \E i \in Handlers : LapseInvitation(i)

Spec == InvitationsInit /\ [][InvitationsNext]_vars
-----------------------------------------------------------------------------
TypeOK ==
    /\ AccountTypeOK
    /\ stage \in [Handlers -> Stages]
    /\ accepting \in [Handlers -> Handlers \cup {None}]
    /\ \A h \in Handlers : accepting[h] # None <=> stage[h] \in {"find", "join"}
    /\ sent \subseteq Handlers
    /\ acceptedBy \in [Handlers -> Handlers \cup {None}]
    /\ delivered \cup accepted \cup revoked \cup lapsed \cup pursued \subseteq sent
    /\ rivals \subseteq Handlers

\* invitations.ts:15, "An invitation is single-use": however many people follow
\* however many links to one address, one of them gets the account, and the one
\* invitation that is marked accepted names that one.
OneAcceptance == \A i, j \in accepted : i = j /\ acceptedBy[i] = owner

\* invitations.ts:15-16, "can be revoked by the issuing admin before acceptance":
\* one that is both revoked and accepted was being accepted when it was revoked.
RevokedStaysOut == accepted \cap revoked \subseteq pursued

\* route.ts:47-50, "An active invitation already exists": of an address's invitations
\* one at most can still be accepted, unless two requests had both listed them
\* before either created its own.
OneOpenInvitation == \A i, j \in Pending : i # j => {i, j} \cap rivals # {}
=============================================================================
