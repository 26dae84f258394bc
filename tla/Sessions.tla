-------------------------------- MODULE Sessions --------------------------------
(***************************************************************************)
(* One user's account (btpay/auth/views.py, models.py): logging in and out, *)
(* TOTP, the password, and the sessions (sessions.py, decorators.py).       *)
(* Every request works on a copy of the User row that it saves whole;       *)
(* Session rows are inserted and deleted only.                              *)
(*                                                                         *)
(* "Slip" introduces a mistaken form that a property is tested with.        *)
(***************************************************************************)
EXTENDS Integers, FiniteSets

CONSTANTS
    Browsers,       \* request threads
    Tokens,         \* session tokens, each drawn once
    MaxPassword,    \* bound on the passwords: the n-th is number n
    MaxSecret,      \* bound on the TOTP secrets ever made
    Offers,         \* operations explored together: of wrong, expire and Edits
    LockAt,         \* failed logins that lock the account (5 in the code)
    NoToken, NoUserCopy

Edits == {"setup", "enable", "disable", "password"}

ASSUME SessionAssumption ==
    /\ \A offer \in Offers : offer \subseteq Edits \cup {"wrong", "expire"}
    /\ MaxPassword \in Nat /\ MaxSecret \in Nat /\ LockAt \in Nat \ {0}
    /\ NoToken \notin Tokens

VARIABLES
    account,        \* the User row
    session,        \* the Session rows, by token
    browser,        \* each thread's request
    secrets,        \* TOTP secrets made so far
    proven,         \* history: secrets a code was checked against
    lost,           \* history: a copy was saved over a newer row
    accountTold,    \* history: the password and the failed logins users know of
    offered         \* the operations of this exploration, constant

sessionVars == <<account, session, browser, secrets, proven, lost, accountTold, offered>>
sessionRest == <<secrets, proven, offered>>
accountRest == <<account, lost, accountTold>>

Away == [pc |-> "idle", copy |-> NoUserCopy, token |-> NoToken, sweep |-> {}, before |-> {}]

SessionsInit ==
    /\ account = [pw |-> 1, pending |-> 0, totp |-> 0, failed |-> 0, locked |-> FALSE]
    /\ session = [k \in Tokens |-> "none"]
    /\ browser = [b \in Browsers |-> Away]
    /\ secrets = 0 /\ proven = {} /\ lost = FALSE /\ offered \in Offers
    /\ accountTold = [pw |-> 1, failed |-> 0]

Waits(b, step) == browser[b].pc = step
Answer(b) == browser' = [browser EXCEPT ![b] = Away]

\* save() of the whole copy, changed.
SaveAccount(b, row) ==
    /\ account' = row
    /\ lost' = (lost \/ account # browser[b].copy)

-------------------------------------------------------------------------------
(* Sessions. *)

\* expires_at passes, which validate_session looks at.
ExpireSession(k) ==
    /\ session[k] = "live" /\ "expire" \in offered
    /\ session' = [session EXCEPT ![k] = "expired"]
    /\ UNCHANGED <<browser, accountRest, sessionRest>>

CloseSession(k) ==
    /\ session' = [session EXCEPT ![k] = "gone"]
    /\ UNCHANGED <<browser, accountRest, sessionRest>>

\* destroy_session.
Logout(k) == session[k] \in {"live", "expired"} /\ CloseSession(k)

\* cleanup_expired_sessions, row by row, and validate_session.
DropExpired(k) == session[k] = "expired" /\ CloseSession(k)

-------------------------------------------------------------------------------
(* login, login_totp. *)

\* The row is fetched, a locked account refused, the password checked.
Login(b) ==
    /\ Waits(b, "idle") /\ ~ account.locked
    /\ \/ /\ "wrong" \in offered
          /\ browser' = [browser EXCEPT ![b].pc = "wrong", ![b].copy = account]
       \/ /\ account.totp = 0
          /\ browser' = [browser EXCEPT ![b].pc = "right", ![b].copy = account]
    /\ UNCHANGED <<session, accountRest, sessionRest>>

\* The second step, with the token that the right password gave: another fetch,
\* and a code of the secret.
LoginTotp(b) ==
    /\ Waits(b, "idle") /\ account.totp # 0
    /\ browser' = [browser EXCEPT ![b].pc = "right", ![b].copy = account]
    /\ UNCHANGED <<session, accountRest, sessionRest>>

\* record_failed_login.
RecordFailed(b) ==
    LET failed == browser[b].copy.failed + 1
    IN
    /\ Waits(b, "wrong")
    /\ SaveAccount(b, [browser[b].copy EXCEPT !.failed = IF failed < LockAt THEN failed ELSE LockAt,
                                              !.locked = @ \/ failed >= LockAt])
    /\ accountTold' = [accountTold EXCEPT !.failed = IF @ < LockAt THEN @ + 1 ELSE @]
    /\ Answer(b)
    /\ UNCHANGED <<session, sessionRest>>

\* record_successful_login.
RecordSuccess(b) ==
    /\ Waits(b, "right")
    /\ SaveAccount(b, [browser[b].copy EXCEPT !.failed = 0, !.locked = FALSE])
    /\ accountTold' = [accountTold EXCEPT !.failed = 0]
    /\ browser' = [browser EXCEPT ![b].pc = "open"]
    /\ UNCHANGED <<session, sessionRest>>

\* create_session, with a token nobody has had.
OpenSession(b) ==
    /\ Waits(b, "open")
    /\ \E k \in Tokens : session[k] = "none" /\ session' = [session EXCEPT ![k] = "live"]
    /\ Answer(b)
    /\ UNCHANGED <<accountRest, sessionRest>>

\* locked_until passes, for the row and every copy of it.
LockPasses ==
    /\ account.locked
    /\ account' = [account EXCEPT !.locked = FALSE]
    /\ browser' = [b \in Browsers |->
          IF browser[b].copy = NoUserCopy THEN browser[b]
          ELSE [browser[b] EXCEPT !.copy.locked = FALSE]]
    /\ UNCHANGED <<session, lost, accountTold, sessionRest>>

-------------------------------------------------------------------------------
(* TOTP and password, with a session. *)

\* login_required: the copy of the row is g.user.
Enter(b, k, op) ==
    /\ Waits(b, "idle") /\ session[k] = "live"
    /\ op \in offered
    /\ op = "password" => account.pw < MaxPassword
    /\ browser' = [browser EXCEPT ![b] =
                     [Away EXCEPT !.pc = op, !.copy = account, !.token = k]]
    /\ UNCHANGED <<session, accountRest, sessionRest>>

\* totp_setup, totp_setup_page.
TotpSetup(b) ==
    /\ Waits(b, "setup") /\ secrets < MaxSecret
    /\ secrets' = secrets + 1
    /\ SaveAccount(b, [browser[b].copy EXCEPT !.pending = secrets + 1])
    /\ Answer(b)
    /\ UNCHANGED <<session, proven, accountTold, offered>>

\* Slip: the pending secret is read from the row a second time after the check.
TotpEnableReread(b) ==
    /\ Waits(b, "enable")
    /\ browser[b].copy.pending # 0
    /\ proven' = proven \cup {browser[b].copy.pending}
    /\ SaveAccount(b, [browser[b].copy EXCEPT !.totp = account.pending, !.pending = 0])
    /\ Answer(b)
    /\ UNCHANGED <<session, secrets, accountTold, offered>>

\* totp_enable: the code is checked against the copy's pending secret.
TotpEnable(b) ==
    /\ Waits(b, "enable")
    /\ \/ /\ browser[b].copy.pending # 0
          /\ proven' = proven \cup {browser[b].copy.pending}
          /\ SaveAccount(b, [browser[b].copy EXCEPT !.totp = browser[b].copy.pending, !.pending = 0])
       \/ browser[b].copy.pending = 0 /\ UNCHANGED <<account, proven, lost>>
    /\ Answer(b)
    /\ UNCHANGED <<session, secrets, accountTold, offered>>

\* totp_disable: a code of the present secret.
TotpDisable(b) ==
    /\ Waits(b, "disable")
    /\ \/ browser[b].copy.totp # 0 /\ SaveAccount(b, [browser[b].copy EXCEPT !.totp = 0])
       \/ browser[b].copy.totp = 0 /\ UNCHANGED <<account, lost>>
    /\ Answer(b)
    /\ UNCHANGED <<session, accountTold, sessionRest>>

Others(b) == {k \in Tokens : session[k] \in {"live", "expired"}} \ {browser[b].token}

\* change_password: the row, then the list of the user's other sessions.
SavePassword(b) ==
    /\ Waits(b, "password")
    /\ SaveAccount(b, [browser[b].copy EXCEPT !.pw = @ + 1])
    /\ accountTold' = [accountTold EXCEPT !.pw = browser[b].copy.pw + 1]
    /\ browser' = [browser EXCEPT ![b].pc = "list", ![b].before = Others(b)]
    /\ UNCHANGED <<session, sessionRest>>

\* Slip: the session whose place in the list the own one has is kept too.
ListOthersShort(b) ==
    /\ Waits(b, "list")
    /\ \E k \in Tokens :
          browser' = [browser EXCEPT ![b].pc = "sweep", ![b].sweep = Others(b) \ {k}]
    /\ UNCHANGED <<session, accountRest, sessionRest>>

ListOthers(b) ==
    /\ Waits(b, "list")
    /\ browser' = [browser EXCEPT ![b].pc = "sweep", ![b].sweep = Others(b)]
    /\ UNCHANGED <<session, accountRest, sessionRest>>

SweepOne(b) ==
    /\ Waits(b, "sweep")
    /\ \E k \in browser[b].sweep :
          /\ session' = [session EXCEPT ![k] = "gone"]
          /\ browser' = [browser EXCEPT ![b].sweep = @ \ {k}]
    /\ UNCHANGED <<accountRest, sessionRest>>

EndSweep(b) ==
    /\ Waits(b, "sweep") /\ browser[b].sweep = {}
    /\ Answer(b)
    /\ UNCHANGED <<session, accountRest, sessionRest>>

SessionStep(b) ==
    \/ RecordFailed(b) \/ RecordSuccess(b) \/ OpenSession(b)
    \/ TotpSetup(b)    \/ TotpEnable(b)    \/ TotpDisable(b)
    \/ SavePassword(b) \/ ListOthers(b)    \/ SweepOne(b) \/ EndSweep(b)

SessionsNext ==
    \/ \E b \in Browsers : Login(b) \/ LoginTotp(b) \/ SessionStep(b)
    \/ \E b \in Browsers, k \in Tokens, op \in Edits :
          Enter(b, k, op)
    \/ \E k \in Tokens : ExpireSession(k) \/ Logout(k) \/ DropExpired(k)
    \/ LockPasses

SessionsSpec == SessionsInit /\ [][SessionsNext]_sessionVars

-------------------------------------------------------------------------------
(* Properties. *)

\* When a change of password is answered, every session that was open when the
\* new password was saved is closed, but the one that made the change, whatever
\* logs in, logs out or expires meanwhile.
OldSessionsAreOut ==
    [][\A b \in Browsers : Waits(b, "sweep") /\ ~ Waits(b, "sweep")' =>
          \A k \in browser[b].before : session[k] \notin {"live", "expired"}]_sessionVars

\* TOTP is on only with a secret that a code was checked against: requests that
\* make secrets and enable them on old copies do not mix two secrets.  And unless
\* a copy of the row was saved over a newer one, the row has the password that was
\* last chosen and as many failed logins as there were since the last success: the
\* account locks in time.
AccountIsAsAnswered ==
    /\ account.totp # 0 => account.totp \in proven
    /\ ~ lost => account.pw = accountTold.pw /\ account.failed = accountTold.failed
===============================================================================
