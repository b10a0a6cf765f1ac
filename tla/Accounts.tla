------------------------------ MODULE Accounts ------------------------------
(***************************************************************************)
(* One account: its password, second factor and reset link (lib/data/auth, *)
(* a row of "users") and its sessions (lib/data/sessions), with the routes *)
(* under app/api/auth and the proxy in front of the pages.                 *)
(*                                                                         *)
(* A request is split where it awaits: it finds its session in one call,   *)
(* reads and checks in another and writes in a third, which says nothing   *)
(* of what it has read.  Hashes, signatures and ciphers are what they      *)
(* prove: a hash is the password it is of, a TOTP code the secret it was   *)
(* made with, a token the session or the reset it was issued for.          *)
(***************************************************************************)
EXTENDS Integers, FiniteSets

CONSTANTS
    Handlers,       \* requests, each made once
    Passwords,
    First,          \* names what an account had at the start
    None,
    MaxMishaps      \* bound: calls that throw and processes that die

ASSUME NameAssumption == None # First /\ {None, First} \cap (Handlers \cup Passwords) = {}
ASSUME MishapAssumption == MaxMishaps \in Nat

\* A session, a secret, a batch of recovery codes or a reset token is named for
\* the request that made it.
Names == Handlers \cup {First}
NameOrNone == Names \cup {None}

\* What a user types as a second factor.
Codes == [kind : {"totp", "recovery"}, of : Names] \cup {[kind |-> "empty", of |-> None]}

VARIABLES
    owner,          \* the row's id, None if there is no such account
    password,       \* passwordHash
    secret,         \* mfaSecretEncrypted
    enabled,        \* mfaEnabled
    recovery,       \* recoveryCodesHash
    token, fresh,   \* passwordResetTokenHash, and whether it has yet to expire
    live,           \* the sessions that are neither revoked nor expired
    pc,             \* where a request stands
    session,        \* the session it is made with
    holding,        \* the secret or token it found, which it will act upon
    mailed,         \* the reset links that went out
    age,            \* history: how many passwords the account has had
    checked, wrote, \* history: its age when a request found its link, and when it wrote
    born,           \* history: the account's age when a session was created, or 0
    confirmed,      \* history: secrets for which a code was given
    overtaken,      \* history: confirmations another request came in between of
    mishaps         \* how much of the bound is used

userVars == <<owner, password, secret, enabled, recovery, token, fresh>>
mfaVars == <<secret, enabled, recovery>>
requestVars == <<pc, session, holding>>
historyVars == <<age, checked, wrote, born, confirmed, overtaken>>
accountVars == <<userVars, live, requestVars, mailed, historyVars, mishaps>>

\* A request that is under way, and how it may end.
Busy == {"password", "store", "revokeOthers", "enable", "confirm", "enableMfa", "disable",
         "disableMfa", "sessions", "logout", "mail", "reset", "issue", "render"}
Ends == {"ok", "failed"}
-----------------------------------------------------------------------------
Init ==
    /\ password \in Passwords \cup {None}
    /\ owner = IF password = None THEN None ELSE First
    /\ live = IF password = None THEN {} ELSE {First}
    /\ enabled \in BOOLEAN
    /\ enabled => password # None
    /\ secret = IF enabled THEN First ELSE None
    /\ recovery = secret
    /\ token = None /\ fresh = FALSE
    /\ pc = [h \in Handlers |-> "idle"]
    /\ session = [h \in Handlers |-> None]
    /\ holding = [h \in Handlers |-> None]
    /\ mailed = {}
    /\ age = IF password = None THEN 0 ELSE 1
    /\ checked = [h \in Handlers |-> 0]
    /\ wrote = [h \in Handlers |-> 0]
    /\ born = [s \in Names |-> IF s = First THEN age ELSE 0]
    /\ confirmed = {First}
    /\ overtaken = {}
    /\ mishaps = 0

Goto(h, l) == pc' = [pc EXCEPT ![h] = l]

\* The request is answered, or throws: what it held goes with it.
Leave(h, end) ==
    /\ Goto(h, end)
    /\ session' = [session EXCEPT ![h] = None]
    /\ holding' = [holding EXCEPT ![h] = None]

Refuse(h) ==
    /\ Leave(h, "failed")
    /\ UNCHANGED <<userVars, live, mailed, historyVars, mishaps>>
-----------------------------------------------------------------------------
(***************************************************************************)
(* Sessions.                                                               *)
(***************************************************************************)
\* resolveLiveSession.
IsLive(s) == s \in live

\* verifySession: the token was signed here, and the session it names is live.
Admits(t) == t \in Names /\ IsLive(t)

\* getSessionFromRequest: a cookie that is no live session gives way to a bearer
\* token; a request that has neither is made with no session.
SessionOf(cookie, bearer) ==
    IF Admits(cookie) THEN cookie ELSE IF Admits(bearer) THEN bearer ELSE None

\* requireSessionFromRequest, the first call of these routes; a log-out without a
\* session is answered all the same.
Enter(h, route, s) ==
    \/ /\ s # None
       /\ Goto(h, route)
       /\ session' = [session EXCEPT ![h] = s]
       /\ UNCHANGED <<userVars, live, holding, mailed, historyVars, mishaps>>
    \/ /\ s = None
       /\ Leave(h, IF route = "logout" THEN "ok" ELSE "failed")
       /\ UNCHANGED <<userVars, live, mailed, historyVars, mishaps>>

\* issueSessionToken.
IssueSession(h) ==
    /\ pc[h] = "issue"
    /\ live' = live \cup {h}
    /\ born' = [born EXCEPT ![h] = age]
    /\ Leave(h, "ok")
    /\ UNCHANGED <<userVars, mailed, age, checked, wrote, confirmed, overtaken, mishaps>>

\* revokeSession of one of the account's other sessions, dead ones included ...
RevokeSession(h, s) ==
    /\ pc[h] = "sessions"
    /\ \/ /\ s # session[h] /\ born[s] > 0
          /\ live' = live \ {s}
          /\ Leave(h, "ok")
          /\ UNCHANGED <<userVars, mailed, historyVars, mishaps>>
       \/ /\ s = session[h] \/ born[s] = 0
          /\ Refuse(h)

\* ... and of its own.
Logout(h) ==
    /\ pc[h] = "logout"
    /\ live' = live \ {session[h]}
    /\ Leave(h, "ok")
    /\ UNCHANGED <<userVars, mailed, historyVars, mishaps>>

\* A page the proxy has let through asks for the session again.
Render(h) ==
    /\ pc[h] = "render"
    /\ Leave(h, IF Admits(session[h]) THEN "ok" ELSE "failed")
    /\ UNCHANGED <<userVars, live, mailed, historyVars, mishaps>>

Expire(s) ==
    /\ s \in live
    /\ live' = live \ {s}
    /\ UNCHANGED <<userVars, requestVars, mailed, historyVars, mishaps>>
-----------------------------------------------------------------------------
(***************************************************************************)
(* Log-in.                                                                 *)
(***************************************************************************)
\* The schema of the log-in route: six digits, or nothing.
WellFormed(code) == code.kind \in {"totp", "empty"}

\* verifyPassword.
Verifies(p) == owner # None /\ p = password

\* verifyTotpCode.
Shows(code) == secret # None /\ code.kind = "totp" /\ code.of = secret

\* The second factor, as authenticateUser checks it.
Proves(code) ==
    /\ secret # None
    /\ \/ Shows(code)
       \/ code.kind = "recovery" /\ recovery # None /\ code.of = recovery

\* authenticateUser.  It would take a recovery code off the list it accepts it
\* from, but the schema lets none through to it.
Login(h, p, code) ==
    /\ pc[h] = "idle"
    /\ \/ /\ WellFormed(code)
          /\ Verifies(p)
          /\ enabled => Proves(code)
          /\ Goto(h, "issue")
          /\ UNCHANGED <<userVars, live, session, holding, mailed, historyVars, mishaps>>
       \/ /\ ~WellFormed(code) \/ ~Verifies(p) \/ (enabled /\ ~Proves(code))
          /\ Refuse(h)

\* Too many attempts, by the buckets of RateLimiter, or a body the schema of a
\* route refuses.
TurnAway(h) == pc[h] = "idle" /\ Refuse(h)
-----------------------------------------------------------------------------
(***************************************************************************)
(* Change and reset of the password.                                       *)
(***************************************************************************)
Store(h, p) ==
    /\ password' = p
    /\ age' = age + 1
    /\ wrote' = [wrote EXCEPT ![h] = age + 1]

\* changePassword reads and verifies ...
VerifyPassword(h, p) ==
    /\ pc[h] = "password"
    /\ \/ /\ Verifies(p)
          /\ Goto(h, "store")
          /\ UNCHANGED <<userVars, live, session, holding, mailed, historyVars, mishaps>>
       \/ ~Verifies(p) /\ Refuse(h)

\* ... then writes, by the id alone, ...
StorePassword(h, p) ==
    /\ pc[h] = "store"
    /\ Store(h, p)
    /\ Goto(h, "revokeOthers")
    /\ UNCHANGED <<owner, mfaVars, token, fresh, live, session, holding, mailed, checked, born,
                   confirmed, overtaken, mishaps>>

\* Mutant: the session of the request is all that is revoked.
RevokeOthers_Own(h) ==
    /\ pc[h] = "revokeOthers"
    /\ live' = live \ {session[h]}
    /\ Goto(h, "ok")
    /\ UNCHANGED <<userVars, session, holding, mailed, historyVars, mishaps>>

\* ... and the route ends the account's other sessions.
RevokeOthers(h) ==
    /\ pc[h] = "revokeOthers"
    /\ live' = live \cap {session[h]}
    /\ Goto(h, "ok")
    /\ UNCHANGED <<userVars, session, holding, mailed, historyVars, mishaps>>

\* Mutant: nobody asks whether there is such an account.
RequestReset_Anyone(h) ==
    /\ pc[h] = "idle"
    /\ token' = h /\ fresh' = TRUE
    /\ Goto(h, "mail")
    /\ UNCHANGED <<owner, password, mfaVars, live, session, holding, mailed, historyVars, mishaps>>

\* requestPasswordReset: a link replaces the one before ...
RequestReset(h) ==
    /\ pc[h] = "idle"
    /\ \/ /\ password # None
          /\ token' = h /\ fresh' = TRUE
          /\ Goto(h, "mail")
          /\ UNCHANGED <<owner, password, mfaVars, live, session, holding, mailed, historyVars, mishaps>>
       \/ /\ password = None
          /\ Leave(h, "ok")
          /\ UNCHANGED <<userVars, live, mailed, historyVars, mishaps>>

\* ... and is mailed.
MailLink(h) ==
    /\ pc[h] = "mail"
    /\ mailed' = mailed \cup {h}
    /\ Leave(h, "ok")
    /\ UNCHANGED <<userVars, live, historyVars, mishaps>>

ExpireToken ==
    /\ fresh
    /\ fresh' = FALSE
    /\ UNCHANGED <<owner, password, mfaVars, token, live, requestVars, mailed, historyVars, mishaps>>

\* consumePasswordReset looks the token up ...
FindToken(h, t) ==
    /\ pc[h] = "idle"
    /\ t \in mailed
    /\ \/ /\ t = token /\ fresh
          /\ Goto(h, "reset")
          /\ holding' = [holding EXCEPT ![h] = t]
          /\ checked' = [checked EXCEPT ![h] = age]
          /\ UNCHANGED <<userVars, live, session, mailed,
                         age, wrote, born, confirmed, overtaken, mishaps>>
       \/ ~(t = token /\ fresh) /\ Refuse(h)

\* Mutant: the link is left in place.
SpendToken_Kept == UNCHANGED <<token, fresh>>

SpendToken == token' = None /\ fresh' = FALSE

\* ... and writes in one transaction, by the account's id alone.
ResetPassword(h, p) ==
    /\ pc[h] = "reset"
    /\ Store(h, p)
    /\ SpendToken
    /\ live' = {}
    /\ Goto(h, "ok")
    /\ UNCHANGED <<owner, mfaVars, session, holding, mailed, checked, born,
                   confirmed, overtaken, mishaps>>
-----------------------------------------------------------------------------
(***************************************************************************)
(* The second factor.                                                      *)
(***************************************************************************)
\* A request that changes the secret comes in between what a confirmation has
\* read and what it is about to write.
Overtake == overtaken' = overtaken \cup {o \in Handlers : pc[o] = "enableMfa"}

\* Mutant: a factor that is on stays on while another is enrolled.
SwitchedOff_Kept == UNCHANGED enabled

SwitchedOff == enabled' = FALSE

\* enrollMfa.
Enroll(h) ==
    /\ pc[h] = "enable"
    /\ secret' = h
    /\ SwitchedOff
    /\ Leave(h, "ok")
    /\ Overtake
    /\ UNCHANGED <<owner, password, recovery, token, fresh, live, mailed,
                   age, checked, wrote, born, confirmed, mishaps>>

\* confirmMfa checks a code against the secret it has read ...
ConfirmMfa(h, code) ==
    /\ pc[h] = "confirm"
    /\ \/ /\ Shows(code)
          /\ Goto(h, "enableMfa")
          /\ holding' = [holding EXCEPT ![h] = secret]
          /\ UNCHANGED <<userVars, live, session, mailed, historyVars, mishaps>>
       \/ ~Shows(code) /\ Refuse(h)

\* ... and turns the factor on.
EnableMfa(h) ==
    /\ pc[h] = "enableMfa"
    /\ enabled' = TRUE
    /\ recovery' = h
    /\ confirmed' = confirmed \cup {holding[h]}
    /\ Leave(h, "ok")
    /\ UNCHANGED <<owner, password, secret, token, fresh, live, mailed,
                   age, checked, wrote, born, overtaken, mishaps>>

\* disableMfa verifies the password ...
VerifyForMfa(h, p) ==
    /\ pc[h] = "disable"
    /\ \/ /\ Verifies(p)
          /\ Goto(h, "disableMfa")
          /\ UNCHANGED <<userVars, live, session, holding, mailed, historyVars, mishaps>>
       \/ ~Verifies(p) /\ Refuse(h)

\* ... and clears the factor.
DisableMfa(h) ==
    /\ pc[h] = "disableMfa"
    /\ enabled' = FALSE
    /\ secret' = None
    /\ recovery' = None
    /\ Leave(h, "ok")
    /\ Overtake
    /\ UNCHANGED <<owner, password, token, fresh, live, mailed,
                   age, checked, wrote, born, confirmed, mishaps>>
-----------------------------------------------------------------------------
(***************************************************************************)
(* An account is made by the acceptance of an invitation (see Invitations),*)
(* which signs its user in; the address is unique.                         *)
(***************************************************************************)
Register(h, p) ==
    /\ pc[h] = "idle"
    /\ \/ /\ password = None
          /\ owner' = h
          /\ Store(h, p)
          /\ Goto(h, "issue")
          /\ UNCHANGED <<mfaVars, token, fresh, live, session, holding, mailed, checked, born,
                         confirmed, overtaken, mishaps>>
       \/ /\ password # None
          /\ Leave(h, "failed")
          /\ UNCHANGED <<userVars, live, mailed, historyVars, mishaps>>

\* A call throws, or the process dies: the request is not heard of again.
Crash(h) ==
    /\ mishaps < MaxMishaps /\ mishaps' = mishaps + 1
    /\ Leave(h, "failed")
    /\ UNCHANGED <<userVars, live, mailed, historyVars>>

Fault(h) == pc[h] \in Busy /\ Crash(h)

-----------------------------------------------------------------------------
(***************************************************************************)
(* The routes.                                                             *)
(***************************************************************************)
Authenticate(h, route) ==
    /\ pc[h] = "idle"
    /\ \E s \in {SessionOf(cookie, bearer) : cookie, bearer \in NameOrNone} : Enter(h, route, s)

LoginRoute(h) ==
    \/ TurnAway(h)
    \/ \E p \in Passwords, code \in Codes : Login(h, p, code)
    \/ IssueSession(h)

PasswordRoute(h) ==
    \/ Authenticate(h, "password")
    \/ \E p \in Passwords : VerifyPassword(h, p) \/ StorePassword(h, p)
    \/ RevokeOthers(h)

ForgotRoute(h) == RequestReset(h) \/ MailLink(h)

ResetRoute(h) ==
    \/ \E t \in Handlers : FindToken(h, t)
    \/ \E p \in Passwords : ResetPassword(h, p)

SessionsRoute(h) == Authenticate(h, "sessions") \/ \E s \in Names : RevokeSession(h, s)

LogoutRoute(h) == Authenticate(h, "logout") \/ Logout(h)

MfaEnableRoute(h) == Authenticate(h, "enable") \/ Enroll(h)

MfaConfirmRoute(h) ==
    \/ Authenticate(h, "confirm")
    \/ \E code \in Codes : ConfirmMfa(h, code)
    \/ EnableMfa(h)

MfaDisableRoute(h) ==
    \/ Authenticate(h, "disable")
    \/ \E p \in Passwords : VerifyForMfa(h, p)
    \/ DisableMfa(h)

\* The proxy in front of the pages looks at the cookie alone, and sends who has
\* no live session to the log-in.
Proxy(h) ==
    /\ pc[h] = "idle"
    /\ \E s \in {SessionOf(cookie, None) : cookie \in NameOrNone} : Enter(h, "render", s)

Request(h) ==
    \/ LoginRoute(h) \/ PasswordRoute(h) \/ ForgotRoute(h) \/ ResetRoute(h)
    \/ SessionsRoute(h) \/ LogoutRoute(h)
    \/ MfaEnableRoute(h) \/ MfaConfirmRoute(h) \/ MfaDisableRoute(h)
    \/ Proxy(h) \/ Render(h) \/ Fault(h)

Lapse == ExpireToken \/ \E s \in Names : Expire(s)

\* What a handler at work on an invitation does to the account.
Elsewhere(h) == pc[h] = "idle" /\ (Crash(h) \/ \E p \in Passwords : Register(h, p))

Next ==
    \/ Lapse
    \/ \E h \in Handlers : Request(h) \/ Elsewhere(h)

AccountsSpec == Init /\ [][Next]_accountVars
-----------------------------------------------------------------------------
AccountTypeOK ==
    /\ password \in Passwords \cup {None}
    /\ owner \in NameOrNone /\ secret \in NameOrNone
    /\ recovery \in NameOrNone /\ token \in NameOrNone
    /\ owner = None <=> password = None
    /\ enabled \in BOOLEAN /\ fresh \in BOOLEAN
    /\ password = None => live = {} /\ token = None /\ ~enabled
    /\ live \subseteq Names
    /\ pc \in [Handlers -> {"idle"} \cup Busy \cup Ends]
    /\ session \in [Handlers -> NameOrNone] /\ holding \in [Handlers -> NameOrNone]
    /\ mailed \subseteq Handlers
    /\ age \in Nat
    /\ checked \in [Handlers -> Nat] /\ wrote \in [Handlers -> Nat] /\ born \in [Names -> Nat]
    /\ confirmed \subseteq NameOrNone /\ overtaken \subseteq Handlers
    /\ mishaps \in 0 .. MaxMishaps

\* README.md:254-258, "logout and password change revoke tokens" and "every reset
\* invalidates all existing sessions": when a change or a reset of the password
\* has been answered, no session is live that was there when it stored the
\* password, but the one the change was made with; whatever log-ins, changes and
\* resets ran beside it.
RevokedOnChange ==
    \A h \in Handlers, s \in live :
        pc[h] = "ok" /\ wrote[h] > born[s] => session[h] = s

\* README.md:257, "single-use tokens": of two resets that used one link, the second
\* to store its password had looked the link up before the first stored its own.
SingleUse ==
    \A g, h \in Handlers :
        /\ pc[g] = "ok" /\ pc[h] = "ok"
        /\ holding[g] # None /\ holding[g] = holding[h]
        /\ wrote[g] < wrote[h]
        => checked[h] < wrote[g]

\* A factor that is on is one whose user has shown a code of it, and there are
\* recovery codes; unless another enrolment, or a request to turn it off, came in
\* between the check of the code and the write (auth.ts:129 and 133), after which
\* the log-in may ask for codes of a secret nobody has.
MfaConfirmed ==
    enabled => \/ secret \in confirmed \ {None} /\ recovery # None
               \/ \E o \in overtaken : pc[o] = "ok"

\* mfa-section.tsx:150-151 and README.md:255, recovery codes can each "be used once
\* to sign in": a log-in with the right password and a code of the batch that was
\* handed out goes through.
RecoveryCodesSignIn ==
    [][\A h \in Handlers, code \in Codes :
          /\ password # None /\ enabled
          /\ code.kind = "recovery" /\ code.of = recovery
          /\ Login(h, password, code)
          => pc'[h] = "issue"]_accountVars
=============================================================================
