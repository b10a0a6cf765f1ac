------------------------- MODULE Invitations_proofs -------------------------
(***************************************************************************)
(* Theorems about Accounts and Invitations, for any number of requests and *)
(* mishaps.                                                                *)
(*                                                                         *)
(* The argument. Three requests act on what they have read earlier, and    *)
(* each has its own reason why that is harmless. A change of the password  *)
(* is answered after its revocation, and whatever session is created later *)
(* is younger than the password. A reset removes its link, which is never  *)
(* issued again, so whoever holds it too has found it before. A            *)
(* confirmation that was not overtaken still holds the current secret.     *)
(*                                                                         *)
(* A request about an invitation leaves the account alone until it joins,  *)
(* so that every step is one of Accounts, whose theorems carry over. An    *)
(* invitation is marked only in the transaction that makes the account,    *)
(* which happens once: before it nothing is accepted, and after it the     *)
(* account stays.                                                          *)
(***************************************************************************)
EXTENDS Invitations, TLAPS
-----------------------------------------------------------------------------
(***************************************************************************)
(* Accounts and their sessions.                                            *)
(***************************************************************************)

\* A request under way is on behalf of an account, and writes nothing before its
\* time.
Requests ==
    /\ \A h \in Handlers : pc[h] \in Busy => password # None
    /\ \A h \in Handlers : pc[h] \notin {"issue", "revokeOthers"} \cup Ends => wrote[h] = 0
    /\ \A h \in Handlers : holding[h] # None => pc[h] \in {"enableMfa", "reset", "ok"}
    /\ \A h \in Handlers : wrote[h] <= age /\ checked[h] <= age

\* Nothing is named for a request that has yet to come.
NamesAreOld ==
    \A h \in Handlers : pc[h] = "idle" =>
        /\ h \notin {secret, token} /\ h \notin mailed
        /\ \A g \in Handlers : holding[g] # h

TypeInv == AccountTypeOK /\ Requests /\ NamesAreOld

\* A session that is about to be issued to a new account is its first.
FirstSession ==
    \A h \in Handlers, s \in live : pc[h] = "issue" => wrote[h] <= born[s]

\* The link a reset has used is gone, and who holds it still found it before.
LinksAreSpent ==
    \A g \in Handlers : pc[g] = "ok" /\ holding[g] # None =>
        /\ token # holding[g]
        /\ \A h \in Handlers :
              pc[h] = "reset" /\ holding[h] = holding[g] => checked[h] < wrote[g]

\* What a confirmation holds is the secret, unless it was overtaken.
Confirming ==
    \A h \in Handlers : pc[h] = "enableMfa" =>
        h \in overtaken \/ (holding[h] = secret /\ secret # None)

IInv == /\ TypeInv /\ FirstSession /\ LinksAreSpent /\ Confirming
        /\ RevokedOnChange /\ SingleUse /\ MfaConfirmed
-----------------------------------------------------------------------------
USE NameAssumption, MishapAssumption
    DEF userVars, mfaVars, requestVars, historyVars, Names, NameOrNone, Busy, Ends

LEMMA InitInv == Init => IInv
<1> SUFFICES ASSUME Init PROVE IInv
  OBVIOUS
<1> USE DEF Init
<1>1. AccountTypeOK
  <2>1. enabled \in BOOLEAN /\ fresh \in BOOLEAN
    OBVIOUS
  <2>2. password = None => ~enabled
    OBVIOUS
  <2> QED
    BY <2>1, <2>2 DEF AccountTypeOK
<1>2. Requests /\ NamesAreOld
  BY DEF Requests, NamesAreOld
<1>3. FirstSession /\ LinksAreSpent /\ Confirming
  BY DEF FirstSession, LinksAreSpent, Confirming
<1>4. RevokedOnChange /\ SingleUse /\ MfaConfirmed
  BY DEF RevokedOnChange, SingleUse, MfaConfirmed
<1> QED
  BY <1>1, <1>2, <1>3, <1>4 DEF IInv, TypeInv

\* The session a request is made with is live.
LEMMA SessionIsLive ==
    ASSUME NEW c, NEW b PROVE SessionOf(c, b) # None => SessionOf(c, b) \in live
  BY DEF SessionOf, Admits, IsLive

(***************************************************************************)
(* The types.                                                              *)
(***************************************************************************)
LEMMA TypeRequest ==
    ASSUME TypeInv, NEW h \in Handlers, Request(h) \/ Elsewhere(h)
    PROVE  TypeInv'
<1> USE DEF TypeInv, AccountTypeOK, Requests, NamesAreOld, Goto, Leave, Refuse
<1>1. ASSUME NEW r \in {"password", "sessions", "logout", "enable", "confirm", "disable", "render"},
             NEW s \in live \cup {None}, pc[h] = "idle", Enter(h, r, s)
      PROVE  TypeInv'
  BY <1>1 DEF Enter
<1>2. CASE LoginRoute(h)
  <2>1. CASE TurnAway(h)
    BY <2>1 DEF TurnAway
  <2>2. ASSUME NEW p \in Passwords, NEW code \in Codes, Login(h, p, code) PROVE TypeInv'
    BY <2>2 DEF Login, Verifies
  <2>3. CASE IssueSession(h)
    BY <2>3 DEF IssueSession
  <2> QED
    BY <1>2, <2>1, <2>2, <2>3 DEF LoginRoute
<1>3. CASE PasswordRoute(h)
  <2>1. ASSUME NEW p \in Passwords, VerifyPassword(h, p) PROVE TypeInv'
    BY <2>1 DEF VerifyPassword
  <2>2. ASSUME NEW p \in Passwords, StorePassword(h, p) PROVE TypeInv'
    BY <2>2 DEF StorePassword, Store
  <2>3. CASE RevokeOthers(h)
    BY <2>3 DEF RevokeOthers
  <2> QED
    BY <1>1, <1>3, <2>1, <2>2, <2>3, SessionIsLive DEF PasswordRoute, Authenticate
<1>4. CASE ForgotRoute(h)
  <2>1. CASE RequestReset(h)
    <3>1. AccountTypeOK'
      <4>1. fresh' \in BOOLEAN /\ enabled' = enabled
        BY <2>1 DEF RequestReset
      <4> QED
        BY <4>1, <2>1 DEF RequestReset
    <3>2. Requests'
      BY <2>1 DEF RequestReset
    <3>3. NamesAreOld'
      BY <2>1 DEF RequestReset
    <3> QED
      BY <3>1, <3>2, <3>3
  <2>2. CASE MailLink(h)
    BY <2>2 DEF MailLink
  <2> QED
    BY <1>4, <2>1, <2>2 DEF ForgotRoute
<1>5. CASE ResetRoute(h)
  <2>1. ASSUME NEW t \in Handlers, FindToken(h, t) PROVE TypeInv'
    BY <2>1 DEF FindToken
  <2>2. ASSUME NEW p \in Passwords, ResetPassword(h, p) PROVE TypeInv'
    <3>1. AccountTypeOK'
      <4>1. fresh' \in BOOLEAN /\ enabled' = enabled
        BY <2>2 DEF ResetPassword, SpendToken
      <4> QED
        BY <4>1, <2>2 DEF ResetPassword, Store, SpendToken
    <3>2. Requests'
      BY <2>2 DEF ResetPassword, Store, SpendToken
    <3>3. NamesAreOld'
      BY <2>2 DEF ResetPassword, Store, SpendToken
    <3> QED
      BY <3>1, <3>2, <3>3
  <2> QED
    BY <1>5, <2>1, <2>2 DEF ResetRoute
<1>6. CASE SessionsRoute(h)
  <2>1. ASSUME NEW s \in Names, RevokeSession(h, s) PROVE TypeInv'
    BY <2>1 DEF RevokeSession
  <2> QED
    BY <1>1, <1>6, <2>1, SessionIsLive DEF SessionsRoute, Authenticate
<1>7. CASE LogoutRoute(h)
  <2>1. CASE Logout(h)
    BY <2>1 DEF Logout
  <2> QED
    BY <1>1, <1>7, <2>1, SessionIsLive DEF LogoutRoute, Authenticate
<1>8. CASE MfaEnableRoute(h)
  <2>1. CASE Enroll(h)
    <3>1. AccountTypeOK'
      BY <2>1 DEF Enroll, SwitchedOff, Overtake
    <3>2. Requests'
      BY <2>1 DEF Enroll, SwitchedOff, Overtake
    <3>3. NamesAreOld'
      BY <2>1 DEF Enroll, SwitchedOff, Overtake
    <3> QED
      BY <3>1, <3>2, <3>3
  <2> QED
    BY <1>1, <1>8, <2>1, SessionIsLive DEF MfaEnableRoute, Authenticate
<1>9. CASE MfaConfirmRoute(h)
  <2>1. ASSUME NEW code \in Codes, ConfirmMfa(h, code) PROVE TypeInv'
    BY <2>1 DEF ConfirmMfa, Shows
  <2>2. CASE EnableMfa(h)
    BY <2>2 DEF EnableMfa
  <2> QED
    BY <1>1, <1>9, <2>1, <2>2, SessionIsLive DEF MfaConfirmRoute, Authenticate
<1>10. CASE MfaDisableRoute(h)
  <2>1. ASSUME NEW p \in Passwords, VerifyForMfa(h, p) PROVE TypeInv'
    BY <2>1 DEF VerifyForMfa
  <2>2. CASE DisableMfa(h)
    <3>1. AccountTypeOK'
      BY <2>2 DEF DisableMfa, Overtake
    <3>2. Requests'
      BY <2>2 DEF DisableMfa, Overtake
    <3>3. NamesAreOld'
      BY <2>2 DEF DisableMfa, Overtake
    <3> QED
      BY <3>1, <3>2, <3>3
  <2> QED
    BY <1>1, <1>10, <2>1, <2>2, SessionIsLive DEF MfaDisableRoute, Authenticate
<1>11. CASE Proxy(h)
  BY <1>1, <1>11, SessionIsLive DEF Proxy
<1>12. CASE Render(h)
  BY <1>12 DEF Render
<1>13. CASE Fault(h) \/ Elsewhere(h)
  <2>1. CASE Crash(h)
    BY <2>1 DEF Crash
  <2>2. ASSUME NEW p \in Passwords, Register(h, p) PROVE TypeInv'
    BY <2>2 DEF Register, Store
  <2> QED
    BY <1>13, <2>1, <2>2 DEF Fault, Elsewhere
<1> QED
  BY <1>2, <1>3, <1>4, <1>5, <1>6, <1>7, <1>8, <1>9, <1>10, <1>11, <1>12, <1>13 DEF Request

(***************************************************************************)
(* The rest.                                                               *)
(***************************************************************************)
Safe == FirstSession /\ LinksAreSpent /\ Confirming /\ RevokedOnChange /\ SingleUse /\ MfaConfirmed

LEMMA SafeRequest ==
    ASSUME IInv, NEW h \in Handlers, Request(h) \/ Elsewhere(h)
    PROVE  Safe'
<1> USE DEF TypeInv, AccountTypeOK, Requests, NamesAreOld, Goto, Leave, Refuse,
           IInv, Safe, FirstSession, LinksAreSpent, Confirming, RevokedOnChange, SingleUse, MfaConfirmed
<1>1. ASSUME NEW r \in {"password", "sessions", "logout", "enable", "confirm", "disable", "render"},
             NEW s \in live \cup {None}, pc[h] = "idle", Enter(h, r, s)
      PROVE  Safe'
  BY <1>1 DEF Enter
<1>2. CASE LoginRoute(h)
  <2>1. CASE TurnAway(h)
    BY <2>1 DEF TurnAway
  <2>2. ASSUME NEW p \in Passwords, NEW code \in Codes, Login(h, p, code) PROVE Safe'
    BY <2>2 DEF Login, Verifies
  <2>3. CASE IssueSession(h)
    BY <2>3 DEF IssueSession
  <2> QED
    BY <1>2, <2>1, <2>2, <2>3 DEF LoginRoute
<1>3. CASE PasswordRoute(h)
  <2>1. ASSUME NEW p \in Passwords, VerifyPassword(h, p) PROVE Safe'
    BY <2>1 DEF VerifyPassword
  <2>2. ASSUME NEW p \in Passwords, StorePassword(h, p) PROVE Safe'
    BY <2>2 DEF StorePassword, Store
  <2>3. CASE RevokeOthers(h)
    BY <2>3 DEF RevokeOthers
  <2> QED
    BY <1>1, <1>3, <2>1, <2>2, <2>3, SessionIsLive DEF PasswordRoute, Authenticate
<1>4. CASE ForgotRoute(h)
  <2>1. CASE RequestReset(h)
    BY <2>1 DEF RequestReset
  <2>2. CASE MailLink(h)
    BY <2>2 DEF MailLink
  <2> QED
    BY <1>4, <2>1, <2>2 DEF ForgotRoute
<1>5. CASE ResetRoute(h)
  <2>1. ASSUME NEW t \in Handlers, FindToken(h, t) PROVE Safe'
    BY <2>1 DEF FindToken
  <2>2. ASSUME NEW p \in Passwords, ResetPassword(h, p) PROVE Safe'
    BY <2>2 DEF ResetPassword, Store, SpendToken
  <2> QED
    BY <1>5, <2>1, <2>2 DEF ResetRoute
<1>6. CASE SessionsRoute(h)
  <2>1. ASSUME NEW s \in Names, RevokeSession(h, s) PROVE Safe'
    BY <2>1 DEF RevokeSession
  <2> QED
    BY <1>1, <1>6, <2>1, SessionIsLive DEF SessionsRoute, Authenticate
<1>7. CASE LogoutRoute(h)
  <2>1. CASE Logout(h)
    BY <2>1 DEF Logout
  <2> QED
    BY <1>1, <1>7, <2>1, SessionIsLive DEF LogoutRoute, Authenticate
<1>8. CASE MfaEnableRoute(h)
  <2>1. CASE Enroll(h)
    BY <2>1 DEF Enroll, SwitchedOff, Overtake
  <2> QED
    BY <1>1, <1>8, <2>1, SessionIsLive DEF MfaEnableRoute, Authenticate
<1>9. CASE MfaConfirmRoute(h)
  <2>1. ASSUME NEW code \in Codes, ConfirmMfa(h, code) PROVE Safe'
    BY <2>1 DEF ConfirmMfa, Shows
  <2>2. CASE EnableMfa(h)
    BY <2>2 DEF EnableMfa
  <2> QED
    BY <1>1, <1>9, <2>1, <2>2, SessionIsLive DEF MfaConfirmRoute, Authenticate
<1>10. CASE MfaDisableRoute(h)
  <2>1. ASSUME NEW p \in Passwords, VerifyForMfa(h, p) PROVE Safe'
    BY <2>1 DEF VerifyForMfa
  <2>2. CASE DisableMfa(h)
    BY <2>2 DEF DisableMfa, Overtake
  <2> QED
    BY <1>1, <1>10, <2>1, <2>2, SessionIsLive DEF MfaDisableRoute, Authenticate
<1>11. CASE Proxy(h)
  BY <1>1, <1>11, SessionIsLive DEF Proxy
<1>12. CASE Render(h)
  BY <1>12 DEF Render
<1>13. CASE Fault(h) \/ Elsewhere(h)
  <2>1. CASE pc[h] \in {"idle"} \cup Busy /\ Crash(h)
    BY <2>1 DEF Crash
  <2>2. ASSUME NEW p \in Passwords, Register(h, p) PROVE Safe'
    BY <2>2 DEF Register, Store
  <2> QED
    BY <1>13, <2>1, <2>2 DEF Fault, Elsewhere
<1> QED
  BY <1>2, <1>3, <1>4, <1>5, <1>6, <1>7, <1>8, <1>9, <1>10, <1>11, <1>12, <1>13 DEF Request
LEMMA LapseStep ==
    ASSUME IInv, Lapse PROVE IInv'
<1> USE DEF IInv, TypeInv, AccountTypeOK, Requests, NamesAreOld, FirstSession, LinksAreSpent,
            Confirming, RevokedOnChange, SingleUse, MfaConfirmed
<1>1. CASE ExpireToken
  BY <1>1 DEF ExpireToken
<1>2. ASSUME NEW s \in Names, Expire(s) PROVE IInv'
  BY <1>2 DEF Expire
<1> QED
  BY <1>1, <1>2 DEF Lapse

LEMMA Preserved ==
    ASSUME IInv, [Next]_accountVars PROVE IInv'
<1>1. ASSUME NEW h \in Handlers, Request(h) \/ Elsewhere(h) PROVE IInv'
  BY <1>1, TypeRequest, SafeRequest DEF IInv, Safe
<1>2. CASE UNCHANGED accountVars
  BY <1>2 DEF accountVars, IInv, TypeInv, AccountTypeOK, Requests, NamesAreOld,
        FirstSession, LinksAreSpent, Confirming, RevokedOnChange, SingleUse, MfaConfirmed
<1> QED
  BY <1>1, <1>2, LapseStep DEF Next

LEMMA Inductive == AccountsSpec => []IInv
  BY InitInv, Preserved, PTL DEF AccountsSpec
-----------------------------------------------------------------------------
\* The state keeps its types, and an address without an account has no session,
\* no second factor and no reset link.
THEOREM AccountTypes == AccountsSpec => []AccountTypeOK
<1>1. IInv => AccountTypeOK
  BY DEF IInv, TypeInv
<1> QED
  BY <1>1, Inductive, PTL

\* A change or a reset of the password that has been answered has ended every
\* session that was there when it stored the password, but its own, however many
\* log-ins, changes and resets ran beside it and failed half way.
THEOREM SessionsAreRevoked == AccountsSpec => []RevokedOnChange
<1>1. IInv => RevokedOnChange
  BY DEF IInv
<1> QED
  BY <1>1, Inductive, PTL

\* A reset link that is used by several was found by all of them before the first
\* stored its password.
THEOREM LinksAreSingleUse == AccountsSpec => []SingleUse
<1>1. IInv => SingleUse
  BY DEF IInv
<1> QED
  BY <1>1, Inductive, PTL

\* A second factor is on only with a secret its user has shown a code of, unless
\* its confirmation was overtaken by an enrolment or a removal.
THEOREM FactorIsConfirmed == AccountsSpec => []MfaConfirmed
<1>1. IInv => MfaConfirmed
  BY DEF IInv
<1> QED
  BY <1>1, Inductive, PTL

-----------------------------------------------------------------------------
(***************************************************************************)
(* Invitations, a layer above them.                                        *)
(***************************************************************************)

InvitationTypeOK ==
    /\ stage \in [Handlers -> Stages]
    /\ accepting \in [Handlers -> Handlers \cup {None}]
    /\ \A h \in Handlers : accepting[h] # None <=> stage[h] \in {"find", "join"}
    /\ sent \subseteq Handlers
    /\ acceptedBy \in [Handlers -> Handlers \cup {None}]
    /\ delivered \subseteq sent /\ accepted \subseteq sent /\ revoked \subseteq sent
    /\ lapsed \subseteq sent /\ pursued \subseteq sent
    /\ rivals \subseteq Handlers

\* What a request at work on an invitation relies on.
Working ==
    \A h \in Handlers :
        /\ stage[h] \in AtWork => pc[h] = "idle"
        /\ stage[h] = "deliver" => h \in sent
        /\ accepting[h] # None => accepting[h] \in delivered

\* An acceptance whose invitation was revoked meanwhile was overtaken.
Pursued == \A h \in Handlers : accepting[h] \in revoked => accepting[h] \in pursued

\* Nothing is accepted as long as there is no account.
NoneAccepted == owner = None => accepted = {}

\* Who has seen no open invitation where there is one now has a rival.
Rivalry == \A h \in Handlers : stage[h] = "create" /\ Open # {} => h \in rivals

InvInv == /\ InvitationTypeOK /\ Working /\ Pursued /\ NoneAccepted /\ Rivalry
          /\ OneAcceptance /\ RevokedStaysOut /\ OneOpenInvitation
-----------------------------------------------------------------------------
USE NameAssumption, MishapAssumption
    DEF userVars, mfaVars, requestVars, historyVars, Names, NameOrNone, Busy, Ends,
        invitationVars, accepted, Open, Pending, Stages, AtWork, Turn, Drop, Finish, Idle

\* A request of the account's own changes neither the id of its row nor where the
\* other requests stand.
LEMMA OwnRequests ==
    ASSUME IInv, NEW h \in Handlers, Request(h)
    PROVE  owner' = owner /\ \A g \in Handlers \ {h} : pc'[g] = pc[g]
<1> USE DEF IInv, TypeInv, AccountTypeOK, Goto, Leave, Refuse
<1>1. ASSUME NEW r, NEW s, Enter(h, r, s)
      PROVE  owner' = owner /\ \A g \in Handlers \ {h} : pc'[g] = pc[g]
  BY <1>1 DEF Enter
<1>2. CASE LoginRoute(h)
  BY <1>2 DEF LoginRoute, TurnAway, Login, IssueSession
<1>3. CASE PasswordRoute(h)
  BY <1>1, <1>3 DEF PasswordRoute, Authenticate, VerifyPassword, StorePassword, RevokeOthers
<1>4. CASE ForgotRoute(h) \/ ResetRoute(h)
  BY <1>4 DEF ForgotRoute, RequestReset, MailLink, ResetRoute, FindToken, ResetPassword
<1>5. CASE SessionsRoute(h) \/ LogoutRoute(h)
  BY <1>1, <1>5 DEF SessionsRoute, RevokeSession, LogoutRoute, Logout, Authenticate
<1>6. CASE MfaEnableRoute(h) \/ MfaConfirmRoute(h)
  BY <1>1, <1>6 DEF MfaEnableRoute, Enroll, MfaConfirmRoute, ConfirmMfa, EnableMfa, Authenticate
<1>7. CASE MfaDisableRoute(h)
  BY <1>1, <1>7 DEF MfaDisableRoute, VerifyForMfa, DisableMfa, Authenticate
<1>8. CASE Proxy(h) \/ Render(h) \/ Fault(h)
  BY <1>1, <1>8 DEF Proxy, Render, Fault, Crash
<1> QED
  BY <1>2, <1>3, <1>4, <1>5, <1>6, <1>7, <1>8 DEF Request

LEMMA InvitationsInitInv == InvitationsInit => InvInv
  BY DEF InvitationsInit, Init, InvInv, InvitationTypeOK, Working, Pursued, NoneAccepted,
         Rivalry, OneAcceptance, RevokedStaysOut, OneOpenInvitation

LEMMA AccountSteps ==
    ASSUME IInv, InvInv, AccountStep PROVE InvInv'
<1> USE DEF InvInv, InvitationTypeOK, Working, Pursued, NoneAccepted,
            Rivalry, OneAcceptance, RevokedStaysOut, OneOpenInvitation
<1>1. CASE Lapse
  BY <1>1 DEF AccountStep, Lapse, ExpireToken, Expire, requestVars, userVars
<1>2. ASSUME NEW h \in Handlers, stage[h] = "none", Request(h) PROVE InvInv'
  BY <1>2, OwnRequests DEF AccountStep
<1> QED
  BY <1>1, <1>2 DEF AccountStep

LEMMA InvitationSteps ==
    ASSUME IInv, InvInv, NEW h \in Handlers,
           InviteRoute(h) \/ RevokeRoute(h) \/ AcceptRoute(h) \/ Break(h)
    PROVE  InvInv'
<1> USE DEF InvInv, InvitationTypeOK, Working, Pursued, NoneAccepted,
            Rivalry, OneAcceptance, RevokedStaysOut, OneOpenInvitation,
            accountVars, userVars, requestVars
<1>1. ASSUME NEW admin \in BOOLEAN, Invite(h, admin) PROVE InvInv'
  BY <1>1 DEF Invite
<1>2. CASE ListInvitations(h)
  BY <1>2 DEF ListInvitations
<1>3. CASE CreateInvitation(h)
  BY <1>3 DEF CreateInvitation
<1>4. CASE Deliver(h)
  BY <1>4 DEF Deliver
<1>5. ASSUME NEW i \in Handlers, RevokeInvitation(h, i) PROVE InvInv'
  BY <1>5 DEF RevokeInvitation, Revocable
<1>6. ASSUME NEW i \in Handlers, AcceptInvitation(h, i) PROVE InvInv'
  BY <1>6 DEF AcceptInvitation, Acceptable
<1>7. CASE FindExisting(h)
  BY <1>7 DEF FindExisting
<1>8. ASSUME NEW p \in Passwords, Join(h, p) PROVE InvInv'
  BY <1>8 DEF Join, Register, Marked, Goto, Leave, IInv, TypeInv, AccountTypeOK
<1>9. CASE Break(h)
  BY <1>9 DEF Break, Crash, Leave, Goto, IInv, TypeInv, AccountTypeOK
<1> QED
  BY <1>1, <1>2, <1>3, <1>4, <1>5, <1>6, <1>7, <1>8, <1>9
     DEF InviteRoute, RevokeRoute, AcceptRoute

LEMMA InvitationsInductive ==
    ASSUME IInv, InvInv, [InvitationsNext]_vars PROVE InvInv'
<1>1. ASSUME NEW i \in Handlers, LapseInvitation(i) PROVE InvInv'
  BY <1>1 DEF LapseInvitation, InvInv, InvitationTypeOK, Working, Pursued, NoneAccepted,
          Rivalry, OneAcceptance, RevokedStaysOut, OneOpenInvitation, accountVars, requestVars
<1>2. CASE UNCHANGED vars
  BY <1>2 DEF vars, accountVars, InvInv, InvitationTypeOK, Working, Pursued, NoneAccepted,
          Rivalry, OneAcceptance, RevokedStaysOut, OneOpenInvitation
<1> QED
  BY <1>1, <1>2, AccountSteps, InvitationSteps DEF InvitationsNext

LEMMA StepsOfAccounts ==
    ASSUME InvInv, [InvitationsNext]_vars PROVE [Next]_accountVars
<1>1. ASSUME NEW h \in Handlers, InviteRoute(h) \/ RevokeRoute(h) \/ AcceptRoute(h)
      PROVE  [Next]_accountVars
  <2>1. ASSUME NEW p \in Passwords, Join(h, p) PROVE Elsewhere(h)
    BY <2>1 DEF Join, Register, Elsewhere
  <2> QED
    BY <1>1, <2>1 DEF Next, InviteRoute, Invite, ListInvitations, CreateInvitation, Deliver,
          RevokeRoute, RevokeInvitation, AcceptRoute, AcceptInvitation, FindExisting
<1>2. ASSUME NEW h \in Handlers, Break(h) PROVE Elsewhere(h)
  BY <1>2 DEF Break, Elsewhere, InvInv, Working
<1>3. ASSUME NEW i \in Handlers, LapseInvitation(i) PROVE UNCHANGED accountVars
  BY <1>3 DEF LapseInvitation
<1> QED
  BY <1>1, <1>2, <1>3 DEF InvitationsNext, AccountStep, Next, vars
-----------------------------------------------------------------------------
LEMMA AllInductive == Spec => [](IInv /\ InvInv)
<1>1. InvitationsInit => IInv /\ InvInv
  BY InitInv, InvitationsInitInv DEF InvitationsInit
<1>2. ASSUME IInv, InvInv, [InvitationsNext]_vars PROVE IInv' /\ InvInv'
  BY <1>2, InvitationsInductive, StepsOfAccounts, Preserved
<1> QED
  BY <1>1, <1>2, PTL DEF Spec

\* Whatever requests do about invitations is, for the account, something that
\* Accounts allows: its module says all there is to know of it.
THEOREM ImplementsAccounts == Spec => AccountsSpec
<1>1. InvitationsInit => Init
  BY DEF InvitationsInit
<1> QED
  BY <1>1, StepsOfAccounts, AllInductive, PTL DEF Spec, AccountsSpec

\* The state keeps its types, of the account and of its invitations.
THEOREM InvitationTypes == Spec => []TypeOK
<1>1. IInv /\ InvInv => TypeOK
  BY DEF IInv, TypeInv, InvInv, InvitationTypeOK, TypeOK
<1> QED
  BY <1>1, AllInductive, PTL

\* An address gets one account through one invitation, which names it, however
\* many links are followed at once.
THEOREM AcceptedOnce == Spec => []OneAcceptance
<1>1. InvInv => OneAcceptance
  BY DEF InvInv
<1> QED
  BY <1>1, AllInductive, PTL

\* What is revoked before anybody follows its link is never accepted.
THEOREM RevokedIsOut == Spec => []RevokedStaysOut
<1>1. InvInv => RevokedStaysOut
  BY DEF InvInv
<1> QED
  BY <1>1, AllInductive, PTL

\* Two invitations that both could still be accepted come only of requests that
\* raced.
THEOREM OpenOnce == Spec => []OneOpenInvitation
<1>1. InvInv => OneOpenInvitation
  BY DEF InvInv
<1> QED
  BY <1>1, AllInductive, PTL

\* What the password's change, its reset and the second factor promise holds of
\* accounts that were made by an invitation, too.
THEOREM AccountPromises == Spec => [](RevokedOnChange /\ SingleUse /\ MfaConfirmed)
  BY ImplementsAccounts, SessionsAreRevoked, LinksAreSingleUse, FactorIsConfirmed, PTL
=============================================================================
