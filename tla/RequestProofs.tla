----------------------------- MODULE RequestProofs -----------------------------
(***************************************************************************)
(* What request threads may rely on, for every number of them: that nobody   *)
(* who should be out stays in and that the account is as users know it       *)
(* (Sessions), that invoice numbers and settings go on (OrgSettings), that    *)
(* customers are offered what was saved (Connectors), that no window lets    *)
(* through more calls than were meant to be (ApiAccess), that a storefront's *)
(* counters and stock are those of its orders (Storefront), that cached      *)
(* rates are averages of sound prices (ExchangeRates), and what a worker     *)
(* that takes over and a backup contain (Updater).                           *)
(***************************************************************************)
EXTENDS Sessions, OrgSettings, Connectors, ApiAccess, Storefront, ExchangeRates, Updater,
        FiniteSetsExt, FiniteSetTheorems, SequenceTheorems, TLAPS

-------------------------------------------------------------------------------
(* Sessions and the account. *)

Account == [pw : Nat, pending : Nat, totp : Nat, failed : Nat, locked : BOOLEAN]

Fetched == {"wrong", "right", "setup", "enable", "disable", "password"}

Request == [pc : Fetched \cup {"idle", "open", "list", "sweep"},
            copy : Account \cup {NoUserCopy},
            token : Tokens \cup {NoToken},
            sweep : SUBSET Tokens, before : SUBSET Tokens]

BrowserTypes ==
    /\ browser \in [Browsers -> Request]
    /\ \A b \in Browsers : browser[b].pc \in Fetched => browser[b].copy \in Account

SessionTypes ==
    /\ account \in Account
    /\ session \in [Tokens -> {"none", "live", "expired", "gone"}]
    /\ BrowserTypes
    /\ secrets \in Nat
    /\ lost \in BOOLEAN
    /\ accountTold \in [pw : Nat, failed : 0 .. LockAt]

\* Every copy of the row that will be saved has a TOTP secret that was proven.
SecretsAreProven ==
    /\ account.totp \in proven \cup {0}
    /\ \A b \in Browsers :
          browser[b].pc \in Fetched => browser[b].copy.totp \in proven \cup {0}

\* The sessions a change of password has to close are old ones, never its own, and
\* those that are still open are in the list it goes through.
ListsAreComplete ==
    \A b \in Browsers :
        /\ browser[b].pc \in {"list", "sweep"} =>
              \A k \in browser[b].before : session[k] # "none" /\ k # browser[b].token
        /\ Waits(b, "sweep") =>
              \A k \in browser[b].before :
                  session[k] \in {"live", "expired"} => k \in browser[b].sweep

\* All types are kept by every step.
LEMMA SessionTypesAreKept == SessionTypes /\ [SessionsNext]_sessionVars => SessionTypes'
<1> SUFFICES ASSUME SessionTypes, [SessionsNext]_sessionVars PROVE SessionTypes'
  OBVIOUS
<1> USE SessionAssumption DEF SessionTypes, Account, Fetched, Waits, Answer, SaveAccount, Away,
        accountRest, sessionRest
<1>1. ASSUME NEW b \in Browsers, Login(b) \/ LoginTotp(b)
      PROVE SessionTypes'
  <2>1. browser' \in [Browsers -> Request]
    BY <1>1 DEF Login, LoginTotp, BrowserTypes, Request
  <2>2. \A a \in Browsers : browser'[a].pc \in Fetched => browser'[a].copy \in Account
    BY <1>1 DEF Login, LoginTotp, BrowserTypes, Request
  <2>3. QED
    BY <2>1, <2>2, <1>1 DEF Login, LoginTotp, BrowserTypes
<1>2. ASSUME NEW b \in Browsers, RecordFailed(b)
      PROVE SessionTypes'
  <2>1. browser' \in [Browsers -> Request]
    BY <1>2 DEF RecordFailed, BrowserTypes, Request
  <2>2. \A a \in Browsers : browser'[a].pc \in Fetched => browser'[a].copy \in Account
    BY <1>2 DEF RecordFailed, BrowserTypes, Request
  <2>3. QED
    <3>1. browser[b].copy \in Account
      BY <1>2 DEF RecordFailed, BrowserTypes
    <3>2. account' \in Account /\ lost' \in BOOLEAN
      <4> DEFINE copy == browser[b].copy
                 failed == copy.failed + 1
                 count == IF failed < LockAt THEN failed ELSE LockAt
                 locked == copy.locked \/ failed >= LockAt
      <4>1. account' = [copy EXCEPT !.failed = count, !.locked = locked]
        BY <1>2 DEF RecordFailed
      <4>2. count \in Nat /\ locked \in BOOLEAN
        BY <3>1
      <4> HIDE DEF count, locked
      <4>3. account' \in Account
        BY <3>1, <4>1, <4>2
      <4>4. lost' \in BOOLEAN
        BY <1>2 DEF RecordFailed
      <4>5. QED
        BY <4>3, <4>4
    <3>3. accountTold' \in [pw : Nat, failed : 0 .. LockAt]
      BY <1>2 DEF RecordFailed
    <3>4. QED
      BY <2>1, <2>2, <3>2, <3>3, <1>2 DEF RecordFailed, BrowserTypes
<1>3. ASSUME NEW b \in Browsers, RecordSuccess(b)
      PROVE SessionTypes'
  <2>1. browser' \in [Browsers -> Request]
    BY <1>3 DEF RecordSuccess, BrowserTypes, Request
  <2>2. \A a \in Browsers : browser'[a].pc \in Fetched => browser'[a].copy \in Account
    BY <1>3 DEF RecordSuccess, BrowserTypes, Request
  <2>3. QED
    <3>1. browser[b].copy \in Account
      BY <1>3 DEF RecordSuccess, BrowserTypes
    <3>2. account' \in Account /\ lost' \in BOOLEAN
      BY <3>1, <1>3 DEF RecordSuccess
    <3>3. accountTold' \in [pw : Nat, failed : 0 .. LockAt]
      BY <1>3 DEF RecordSuccess
    <3>4. QED
      BY <2>1, <2>2, <3>2, <3>3, <1>3 DEF RecordSuccess, BrowserTypes
<1>4. ASSUME NEW b \in Browsers, OpenSession(b)
      PROVE SessionTypes'
  <2>1. browser' \in [Browsers -> Request]
    BY <1>4 DEF OpenSession, BrowserTypes, Request
  <2>2. \A a \in Browsers : browser'[a].pc \in Fetched => browser'[a].copy \in Account
    BY <1>4 DEF OpenSession, BrowserTypes, Request
  <2>3. QED
    BY <2>1, <2>2, <1>4 DEF OpenSession, BrowserTypes
<1>5. ASSUME NEW b \in Browsers, TotpSetup(b)
      PROVE SessionTypes'
  <2>1. browser' \in [Browsers -> Request]
    BY <1>5 DEF TotpSetup, BrowserTypes, Request
  <2>2. \A a \in Browsers : browser'[a].pc \in Fetched => browser'[a].copy \in Account
    BY <1>5 DEF TotpSetup, BrowserTypes, Request
  <2>3. QED
    BY <2>1, <2>2, <1>5 DEF TotpSetup, BrowserTypes
<1>6. ASSUME NEW b \in Browsers, TotpEnable(b)
      PROVE SessionTypes'
  <2>1. browser' \in [Browsers -> Request]
    BY <1>6 DEF TotpEnable, BrowserTypes, Request
  <2>2. \A a \in Browsers : browser'[a].pc \in Fetched => browser'[a].copy \in Account
    BY <1>6 DEF TotpEnable, BrowserTypes, Request
  <2>3. QED
    <3>1. browser[b].copy \in Account
      BY <1>6 DEF TotpEnable, BrowserTypes
    <3>2. account' \in Account /\ lost' \in BOOLEAN
      <4>1. CASE account' = account /\ lost' = lost
        BY <4>1
      <4>2. CASE account' = [browser[b].copy EXCEPT !.totp = browser[b].copy.pending, !.pending = 0]
                 /\ lost' = (lost \/ account # browser[b].copy)
        BY <3>1, <4>2
      <4>3. QED
        BY <1>6, <4>1, <4>2 DEF TotpEnable
    <3>3. accountTold' \in [pw : Nat, failed : 0 .. LockAt]
      BY <1>6 DEF TotpEnable
    <3>4. QED
      BY <2>1, <2>2, <3>2, <3>3, <1>6 DEF TotpEnable, BrowserTypes
<1>7. ASSUME NEW b \in Browsers, TotpDisable(b)
      PROVE SessionTypes'
  <2>1. browser' \in [Browsers -> Request]
    BY <1>7 DEF TotpDisable, BrowserTypes, Request
  <2>2. \A a \in Browsers : browser'[a].pc \in Fetched => browser'[a].copy \in Account
    BY <1>7 DEF TotpDisable, BrowserTypes, Request
  <2>3. QED
    <3>1. browser[b].copy \in Account
      BY <1>7 DEF TotpDisable, BrowserTypes
    <3>2. account' \in Account /\ lost' \in BOOLEAN
      <4>1. CASE account' = account /\ lost' = lost
        BY <4>1
      <4>2. CASE account' = [browser[b].copy EXCEPT !.totp = 0]
                 /\ lost' = (lost \/ account # browser[b].copy)
        BY <3>1, <4>2
      <4>3. QED
        BY <1>7, <4>1, <4>2 DEF TotpDisable
    <3>3. accountTold' \in [pw : Nat, failed : 0 .. LockAt]
      BY <1>7 DEF TotpDisable
    <3>4. QED
      BY <2>1, <2>2, <3>2, <3>3, <1>7 DEF TotpDisable, BrowserTypes
<1>8. ASSUME NEW b \in Browsers, SavePassword(b)
      PROVE SessionTypes'
  <2>1. browser' \in [Browsers -> Request]
    <3>1. Others(b) \in SUBSET Tokens
      BY DEF Others
    <3>2. browser' = [browser EXCEPT ![b] = [browser[b] EXCEPT !.pc = "list", !.before = Others(b)]]
      BY <1>8 DEF SavePassword, BrowserTypes
    <3>3. [browser[b] EXCEPT !.pc = "list", !.before = Others(b)] \in Request
      <4>1. browser[b] \in Request
        BY DEF BrowserTypes
      <4> HIDE DEF Account, Fetched
      <4>2. QED
        BY <3>1, <4>1 DEF Request
    <3>4. QED
      BY <3>2, <3>3 DEF BrowserTypes
  <2>2. \A a \in Browsers : browser'[a].pc \in Fetched => browser'[a].copy \in Account
    BY <1>8 DEF SavePassword, Others, BrowserTypes, Request
  <2>3. QED
    BY <2>1, <2>2, <1>8 DEF SavePassword, Others, BrowserTypes
<1>9. ASSUME NEW b \in Browsers, ListOthers(b) \/ SweepOne(b) \/ EndSweep(b)
      PROVE SessionTypes'
  <2>1. browser' \in [Browsers -> Request]
    BY <1>9 DEF ListOthers, Others, SweepOne, EndSweep, BrowserTypes, Request
  <2>2. \A a \in Browsers : browser'[a].pc \in Fetched => browser'[a].copy \in Account
    BY <1>9 DEF ListOthers, Others, SweepOne, EndSweep, BrowserTypes, Request
  <2>3. QED
    BY <2>1, <2>2, <1>9 DEF ListOthers, Others, SweepOne, EndSweep, BrowserTypes
<1>10. ASSUME NEW b \in Browsers, NEW k \in Tokens, NEW op \in Edits, Enter(b, k, op)
      PROVE SessionTypes'
  <2>1. browser' \in [Browsers -> Request]
    BY <1>10 DEF Enter, Edits, BrowserTypes, Request
  <2>2. \A a \in Browsers : browser'[a].pc \in Fetched => browser'[a].copy \in Account
    BY <1>10 DEF Enter, Edits, BrowserTypes, Request
  <2>3. QED
    BY <2>1, <2>2, <1>10 DEF Enter, Edits, BrowserTypes
<1>11. ASSUME NEW k \in Tokens, ExpireSession(k) \/ Logout(k) \/ DropExpired(k)
      PROVE SessionTypes'
  <2>1. browser' \in [Browsers -> Request]
    BY <1>11 DEF ExpireSession, Logout, DropExpired, CloseSession, BrowserTypes, Request
  <2>2. \A a \in Browsers : browser'[a].pc \in Fetched => browser'[a].copy \in Account
    BY <1>11 DEF ExpireSession, Logout, DropExpired, CloseSession, BrowserTypes, Request
  <2>3. QED
    BY <2>1, <2>2, <1>11 DEF ExpireSession, Logout, DropExpired, CloseSession, BrowserTypes
<1>12. CASE LockPasses
  <2>1. ASSUME NEW a \in Browsers
        PROVE /\ browser'[a] \in Request
              /\ browser'[a].pc = browser[a].pc
              /\ browser[a].copy \in Account => browser'[a].copy \in Account
    <3>1. browser[a] \in Request
      BY DEF BrowserTypes
    <3>2. CASE browser[a].copy = NoUserCopy
      BY <1>12, <3>1, <3>2 DEF LockPasses
    <3>3. CASE browser[a].copy # NoUserCopy
      <4>1. browser'[a] = [browser[a] EXCEPT !.copy.locked = FALSE]
        BY <1>12, <3>3 DEF LockPasses
      <4>2. browser[a].copy \in Account
        BY <3>1, <3>3 DEF Request
      <4>3. [browser[a].copy EXCEPT !.locked = FALSE] \in Account
        BY <4>2
      <4>4. QED
        BY <3>1, <4>1, <4>2, <4>3 DEF Request
    <3>4. QED
      BY <3>2, <3>3
  <2>2. browser' = [a \in Browsers |-> browser'[a]]
    BY <1>12 DEF LockPasses
  <2>3. browser' \in [Browsers -> Request]
    BY <2>1, <2>2
  <2>4. QED
    BY <2>1, <2>3, <1>12 DEF LockPasses, BrowserTypes
<1>13. CASE UNCHANGED sessionVars
  <2>1. browser' \in [Browsers -> Request]
    BY <1>13 DEF sessionVars, BrowserTypes, Request
  <2>2. \A a \in Browsers : browser'[a].pc \in Fetched => browser'[a].copy \in Account
    BY <1>13 DEF sessionVars, BrowserTypes, Request
  <2>3. QED
    BY <2>1, <2>2, <1>13 DEF sessionVars, BrowserTypes
<1> QED
  BY <1>1, <1>2, <1>3, <1>4, <1>5, <1>6, <1>7, <1>8, <1>9, <1>10, <1>11, <1>12, <1>13
  DEF SessionsNext, SessionStep

\* The secrets stay proven: the two of a request that makes one and of a request
\* that enables one on an old copy are not mixed.
LEMMA SecretsStayProven ==
    SessionTypes /\ SecretsAreProven /\ [SessionsNext]_sessionVars => SecretsAreProven'
<1> SUFFICES ASSUME SessionTypes, SecretsAreProven, [SessionsNext]_sessionVars
             PROVE SecretsAreProven'
  OBVIOUS
<1> USE DEF SessionTypes, BrowserTypes, Request, SecretsAreProven, Fetched, Waits, Answer,
        SaveAccount, Away, accountRest, sessionRest
<1>1. ASSUME NEW b \in Browsers, Login(b) \/ LoginTotp(b)
      PROVE SecretsAreProven'
  BY <1>1 DEF Login, LoginTotp
<1>2. ASSUME NEW b \in Browsers, RecordFailed(b)
      PROVE SecretsAreProven'
  BY <1>2 DEF RecordFailed
<1>3. ASSUME NEW b \in Browsers, RecordSuccess(b)
      PROVE SecretsAreProven'
  BY <1>3 DEF RecordSuccess
<1>4. ASSUME NEW b \in Browsers, OpenSession(b)
      PROVE SecretsAreProven'
  BY <1>4 DEF OpenSession
<1>5. ASSUME NEW b \in Browsers, TotpSetup(b)
      PROVE SecretsAreProven'
  BY <1>5 DEF TotpSetup
<1>6. ASSUME NEW b \in Browsers, TotpEnable(b)
      PROVE SecretsAreProven'
  <2>1. \A a \in Browsers : browser'[a].pc \in Fetched =>
           browser'[a].pc = browser[a].pc /\ browser'[a].copy = browser[a].copy
    BY <1>6 DEF TotpEnable
  <2>2. proven \subseteq proven'
    BY <1>6 DEF TotpEnable
  <2>3. account'.totp \in proven' \cup {0}
    <3>1. browser[b].copy \in Account
      BY <1>6 DEF TotpEnable
    <3>2. CASE account' = account
      BY <2>2, <3>2
    <3>3. CASE /\ account' = [browser[b].copy EXCEPT !.totp = browser[b].copy.pending, !.pending = 0]
               /\ proven' = proven \cup {browser[b].copy.pending}
      BY <3>1, <3>3 DEF Account
    <3>4. QED
      BY <1>6, <3>2, <3>3 DEF TotpEnable
  <2>4. QED
    BY <2>1, <2>2, <2>3
<1>7. ASSUME NEW b \in Browsers, TotpDisable(b)
      PROVE SecretsAreProven'
  <2>1. \A a \in Browsers : browser'[a].pc \in Fetched =>
           browser'[a].pc = browser[a].pc /\ browser'[a].copy = browser[a].copy
    BY <1>7 DEF TotpDisable
  <2>2. browser[b].copy \in Account /\ proven' = proven
    BY <1>7 DEF TotpDisable
  <2>3. account'.totp \in proven' \cup {0}
    BY <2>2, <1>7 DEF TotpDisable, Account
  <2>4. QED
    BY <2>1, <2>2, <2>3
<1>8. ASSUME NEW b \in Browsers, SavePassword(b)
      PROVE SecretsAreProven'
  BY <1>8 DEF SavePassword
<1>9. ASSUME NEW b \in Browsers, ListOthers(b) \/ SweepOne(b) \/ EndSweep(b)
      PROVE SecretsAreProven'
  BY <1>9 DEF ListOthers, SweepOne, EndSweep
<1>10. ASSUME NEW b \in Browsers, NEW k \in Tokens, NEW op \in Edits, Enter(b, k, op)
      PROVE SecretsAreProven'
  BY <1>10 DEF Enter, Edits
<1>11. ASSUME NEW k \in Tokens, ExpireSession(k) \/ Logout(k) \/ DropExpired(k)
      PROVE SecretsAreProven'
  BY <1>11 DEF ExpireSession, Logout, DropExpired, CloseSession
<1>12. CASE LockPasses
  BY <1>12 DEF LockPasses
<1>13. CASE UNCHANGED sessionVars
  BY <1>13 DEF sessionVars
<1> QED
  BY <1>1, <1>2, <1>3, <1>4, <1>5, <1>6, <1>7, <1>8, <1>9, <1>10, <1>11, <1>12, <1>13
  DEF SessionsNext, SessionStep

\* What users know of the account: its password and its failed logins, unless a
\* copy went over a newer row.
AccountIsKnown ==
    ~ lost => account.pw = accountTold.pw /\ account.failed = accountTold.failed

LEMMA AccountStaysKnown ==
    SessionTypes /\ AccountIsKnown /\ [SessionsNext]_sessionVars => AccountIsKnown'
<1> SUFFICES ASSUME SessionTypes, AccountIsKnown, [SessionsNext]_sessionVars
             PROVE AccountIsKnown'
  OBVIOUS
<1> USE SessionAssumption DEF SessionTypes, Account, AccountIsKnown, Waits, Answer,
        SaveAccount, Away, accountRest, sessionRest
<1>1. ASSUME NEW b \in Browsers, Login(b) \/ LoginTotp(b)
      PROVE AccountIsKnown'
  BY <1>1 DEF Login, LoginTotp
<1>2. ASSUME NEW b \in Browsers, RecordFailed(b)
      PROVE AccountIsKnown'
  <2>1. SUFFICES ASSUME ~ lost'
                 PROVE account'.pw = accountTold'.pw /\ account'.failed = accountTold'.failed
    OBVIOUS
  <2>2. ~ lost /\ account = browser[b].copy
    BY <2>1, <1>2 DEF RecordFailed
  <2> DEFINE failed == account.failed + 1
             count == IF failed < LockAt THEN failed ELSE LockAt
             locked == account.locked \/ failed >= LockAt
  <2>3. account' = [account EXCEPT !.failed = count, !.locked = locked]
    BY <2>2, <1>2 DEF RecordFailed
  <2> HIDE DEF locked
  <2>4. account'.pw = account.pw /\ account'.failed = count
    BY <2>3
  <2>5. /\ accountTold'.pw = accountTold.pw
        /\ accountTold'.failed = IF accountTold.failed < LockAt THEN accountTold.failed + 1
                                 ELSE accountTold.failed
    BY <1>2 DEF RecordFailed
  <2>6. account.failed \in 0 .. LockAt /\ accountTold.failed = account.failed
    BY <2>2
  <2>7. count = accountTold'.failed
    BY <2>5, <2>6
  <2>8. QED
    BY <2>2, <2>4, <2>5, <2>7
<1>3. ASSUME NEW b \in Browsers, RecordSuccess(b)
      PROVE AccountIsKnown'
  BY <1>3 DEF RecordSuccess
<1>4. ASSUME NEW b \in Browsers, OpenSession(b)
      PROVE AccountIsKnown'
  BY <1>4 DEF OpenSession
<1>5. ASSUME NEW b \in Browsers, TotpSetup(b)
      PROVE AccountIsKnown'
  BY <1>5 DEF TotpSetup
<1>6. ASSUME NEW b \in Browsers, TotpEnable(b)
      PROVE AccountIsKnown'
  <2>1. CASE account' = account /\ lost' = lost
    BY <2>1, <1>6 DEF TotpEnable
  <2>2. CASE ~ lost' /\ account' # account
    <3>1. account = browser[b].copy /\ ~ lost /\ accountTold' = accountTold
      BY <2>2, <1>6 DEF TotpEnable
    <3>2. account' = [account EXCEPT !.totp = account.pending, !.pending = 0]
      BY <2>2, <3>1, <1>6 DEF TotpEnable
    <3>3. QED
      BY <3>1, <3>2
  <2>3. QED
    BY <2>1, <2>2, <1>6 DEF TotpEnable
<1>7. ASSUME NEW b \in Browsers, TotpDisable(b)
      PROVE AccountIsKnown'
  <2>1. CASE account' = account /\ lost' = lost
    BY <2>1, <1>7 DEF TotpDisable
  <2>2. CASE ~ lost' /\ account' # account
    <3>1. account = browser[b].copy /\ ~ lost /\ accountTold' = accountTold
      BY <2>2, <1>7 DEF TotpDisable
    <3>2. account' = [account EXCEPT !.totp = 0]
      BY <2>2, <3>1, <1>7 DEF TotpDisable
    <3>3. QED
      BY <3>1, <3>2
  <2>3. QED
    BY <2>1, <2>2, <1>7 DEF TotpDisable
<1>8. ASSUME NEW b \in Browsers, SavePassword(b)
      PROVE AccountIsKnown'
  BY <1>8 DEF SavePassword
<1>9. ASSUME NEW b \in Browsers, ListOthers(b) \/ SweepOne(b) \/ EndSweep(b)
      PROVE AccountIsKnown'
  BY <1>9 DEF ListOthers, SweepOne, EndSweep
<1>10. ASSUME NEW b \in Browsers, NEW k \in Tokens, NEW op \in Edits, Enter(b, k, op)
      PROVE AccountIsKnown'
  BY <1>10 DEF Enter, Edits
<1>11. ASSUME NEW k \in Tokens, ExpireSession(k) \/ Logout(k) \/ DropExpired(k)
      PROVE AccountIsKnown'
  BY <1>11 DEF ExpireSession, Logout, DropExpired, CloseSession
<1>12. CASE LockPasses
  BY <1>12 DEF LockPasses
<1>13. CASE UNCHANGED sessionVars
  BY <1>13 DEF sessionVars
<1> QED
  BY <1>1, <1>2, <1>3, <1>4, <1>5, <1>6, <1>7, <1>8, <1>9, <1>10, <1>11, <1>12, <1>13
  DEF SessionsNext, SessionStep

\* The lists stay complete, whatever logs in, logs out or expires.
LEMMA ListsStayComplete ==
    SessionTypes /\ ListsAreComplete /\ [SessionsNext]_sessionVars => ListsAreComplete'
<1> SUFFICES ASSUME SessionTypes, ListsAreComplete, [SessionsNext]_sessionVars
             PROVE ListsAreComplete'
  OBVIOUS
<1> USE DEF SessionTypes, BrowserTypes, Request, ListsAreComplete, Waits, Answer, Others,
        Away, accountRest, sessionRest
<1>1. ASSUME NEW b \in Browsers, Login(b) \/ LoginTotp(b)
      PROVE ListsAreComplete'
  BY <1>1 DEF Login, LoginTotp
<1>2. ASSUME NEW b \in Browsers, RecordFailed(b)
      PROVE ListsAreComplete'
  BY <1>2 DEF RecordFailed
<1>3. ASSUME NEW b \in Browsers, RecordSuccess(b)
      PROVE ListsAreComplete'
  BY <1>3 DEF RecordSuccess
<1>4. ASSUME NEW b \in Browsers, OpenSession(b)
      PROVE ListsAreComplete'
  BY <1>4 DEF OpenSession
<1>5. ASSUME NEW b \in Browsers, TotpSetup(b)
      PROVE ListsAreComplete'
  BY <1>5 DEF TotpSetup
<1>6. ASSUME NEW b \in Browsers, TotpEnable(b)
      PROVE ListsAreComplete'
  BY <1>6 DEF TotpEnable
<1>7. ASSUME NEW b \in Browsers, TotpDisable(b)
      PROVE ListsAreComplete'
  BY <1>7 DEF TotpDisable
<1>8. ASSUME NEW b \in Browsers, SavePassword(b)
      PROVE ListsAreComplete'
  BY <1>8 DEF SavePassword
<1>9. ASSUME NEW b \in Browsers, ListOthers(b) \/ SweepOne(b) \/ EndSweep(b)
      PROVE ListsAreComplete'
  BY <1>9 DEF ListOthers, SweepOne, EndSweep
<1>10. ASSUME NEW b \in Browsers, NEW k \in Tokens, NEW op \in Edits, Enter(b, k, op)
      PROVE ListsAreComplete'
  BY <1>10 DEF Enter, Edits
<1>11. ASSUME NEW k \in Tokens, ExpireSession(k) \/ Logout(k) \/ DropExpired(k)
      PROVE ListsAreComplete'
  BY <1>11 DEF ExpireSession, Logout, DropExpired, CloseSession
<1>12. CASE LockPasses
  BY <1>12 DEF LockPasses
<1>13. CASE UNCHANGED sessionVars
  BY <1>13 DEF sessionVars
<1> QED
  BY <1>1, <1>2, <1>3, <1>4, <1>5, <1>6, <1>7, <1>8, <1>9, <1>10, <1>11, <1>12, <1>13
  DEF SessionsNext, SessionStep

SessionsInv == SessionTypes /\ SecretsAreProven /\ AccountIsKnown /\ ListsAreComplete

LEMMA SessionsInvAlways == SessionsSpec => []SessionsInv
<1>1. SessionsInit => SessionsInv
  <2> SUFFICES ASSUME SessionsInit PROVE SessionsInv
    OBVIOUS
  <2>1. account \in Account /\ accountTold \in [pw : Nat, failed : 0 .. LockAt]
    BY SessionAssumption DEF SessionsInit, Account
  <2>2. Away \in Request
    BY DEF Request, Away
  <2>3. \A b \in Browsers : browser[b] = Away
    BY DEF SessionsInit
  <2>4. BrowserTypes
    BY <2>2, <2>3 DEF SessionsInit, BrowserTypes, Away, Fetched
  <2>5. SessionTypes
    BY <2>1, <2>4 DEF SessionsInit, SessionTypes
  <2>6. SecretsAreProven /\ AccountIsKnown /\ ListsAreComplete
    BY <2>3 DEF SessionsInit, SecretsAreProven, AccountIsKnown, ListsAreComplete, Away, Fetched,
       Waits
  <2> QED
    BY <2>5, <2>6 DEF SessionsInv
<1>2. SessionsInv /\ [SessionsNext]_sessionVars => SessionsInv'
  BY SessionTypesAreKept, SecretsStayProven, AccountStaysKnown, ListsStayComplete
  DEF SessionsInv
<1> QED
  BY <1>1, <1>2, PTL DEF SessionsSpec

\* TOTP is on only with a secret that a code was checked against; the password and
\* the count of failed logins are as users know them while no copy of the User row
\* goes over a newer one.
THEOREM AccountIsWhatUsersKnow == SessionsSpec => []AccountIsAsAnswered
<1>1. SessionsInv => AccountIsAsAnswered
  BY DEF SessionsInv, SessionTypes, Account, SecretsAreProven, AccountIsKnown, AccountIsAsAnswered
<1> QED
  BY <1>1, SessionsInvAlways, PTL

\* When change_password answers, every other session that was open when the new
\* password was saved is closed, for any number of requests in any order.
THEOREM ChangedPasswordEndsSessions == SessionsSpec => OldSessionsAreOut
<1> DEFINE Done == \A b \in Browsers : Waits(b, "sweep") /\ ~ Waits(b, "sweep")' =>
                     \A k \in browser[b].before : session[k] \notin {"live", "expired"}
<1>1. SessionsInv /\ [SessionsNext]_sessionVars => [Done]_sessionVars
  <2> SUFFICES ASSUME SessionsInv, [SessionsNext]_sessionVars,
                      NEW a \in Browsers, Waits(a, "sweep"), ~ Waits(a, "sweep")',
                      NEW s \in browser[a].before
               PROVE session[s] \notin {"live", "expired"}
    OBVIOUS
  <2> USE DEF SessionsInv, SessionTypes, BrowserTypes, Request, ListsAreComplete, Waits, Answer,
          Away, accountRest, sessionRest
  <2>1. ASSUME NEW b \in Browsers, EndSweep(b) PROVE session[s] \notin {"live", "expired"}
    BY <2>1 DEF EndSweep
  <2>2. (\A b \in Browsers : ~ EndSweep(b)) => browser'[a].pc = browser[a].pc
    <3> SUFFICES ASSUME \A b \in Browsers : ~ EndSweep(b), browser'[a].pc # "sweep"
                 PROVE FALSE
      OBVIOUS
    <3>1. ASSUME NEW b \in Browsers, Login(b) \/ LoginTotp(b) \/ SessionStep(b) PROVE FALSE
      BY <3>1 DEF Login, LoginTotp, SessionStep, RecordFailed, RecordSuccess, OpenSession,
         TotpSetup, TotpEnable, TotpDisable, SavePassword, ListOthers, SweepOne
    <3>2. ASSUME NEW b \in Browsers, NEW k \in Tokens, NEW op \in Edits, Enter(b, k, op)
          PROVE FALSE
      BY <3>2 DEF Enter
    <3>3. ASSUME NEW k \in Tokens, ExpireSession(k) \/ Logout(k) \/ DropExpired(k)
          PROVE FALSE
      BY <3>3 DEF ExpireSession, Logout, DropExpired, CloseSession
    <3>4. CASE LockPasses
      BY <3>4 DEF LockPasses
    <3>5. CASE UNCHANGED sessionVars
      BY <3>5 DEF sessionVars
    <3> QED
      BY <3>1, <3>2, <3>3, <3>4, <3>5 DEF SessionsNext
  <2> QED
    BY <2>1, <2>2
<1> QED
  BY <1>1, SessionsInvAlways, PTL DEF SessionsSpec, OldSessionsAreOut

-------------------------------------------------------------------------------
(* The Organization row. *)

OrgRow == [set : SUBSET {"name", "general", "rpc", "branding", "notifications", "electrum",
                         "email", "orgStep", "connectorStep"},
           next : Nat \ {0}, setUp : BOOLEAN]

OrgTypes ==
    /\ org \in OrgRow
    /\ numbered \subseteq Nat
    /\ refused \in BOOLEAN /\ overwritten \in BOOLEAN
    /\ admin \in [Admins -> [pc : {"idle", "count", "insert"} \cup Pages \cup Steps,
                             copy : OrgRow \cup {NoOrgCopy}]]
    /\ \A t \in Admins : ~ Does(t, "idle") => admin[t].copy \in OrgRow

\* Two invoices on their way to the index have two numbers.
NumbersAreApart ==
    ~ overwritten => \A t, u \in Admins :
        t # u /\ Does(t, "insert") /\ Does(u, "insert") => admin[t].copy.next # admin[u].copy.next

SettingsInv == OrgTypes /\ NumbersGoOn /\ NumbersAreApart

\* A handler that puts its values in the row: the one that is on page.
LEMMA PutKeepsOrder ==
    ASSUME SettingsInv, NEW t \in Admins, NEW page \in Pages \cup {"org", "connector"},
           NEW values \in SUBSET {"name", "general", "rpc", "branding", "notifications",
                                  "electrum", "email", "orgStep", "connectorStep"},
           Put(t, page, values)
    PROVE  SettingsInv'
<1> DEFINE copy == admin[t].copy
<1>1. copy \in OrgRow
  BY DEF SettingsInv, OrgTypes, Put, Does, Pages
<1>2. org' = [copy EXCEPT !.set = copy.set \cup values]
  BY DEF Put, SaveOrg
<1>3. org' \in OrgRow /\ org'.set = copy.set \cup values /\ org'.next = copy.next
  BY <1>1, <1>2 DEF OrgRow
<1>4. /\ numbered' = numbered /\ refused' = refused /\ done' = done \cup values
      /\ overwritten' = (overwritten \/ org # copy)
      /\ admin' = [admin EXCEPT ![t] = OffDuty]
  BY DEF Put, SaveOrg, Finish
<1>5. OrgTypes'
  BY <1>3, <1>4 DEF SettingsInv, OrgTypes, OffDuty, Does
<1>6. /\ \A u \in Admins : u # t => admin'[u] = admin[u]
      /\ admin'[t].pc = "idle"
  BY <1>4 DEF SettingsInv, OrgTypes, OffDuty
<1> HIDE DEF copy
<1>7. NumbersGoOn'
  <2>1. SUFFICES ASSUME ~ overwritten'
                 PROVE /\ done \cup values \subseteq org'.set /\ ~ refused
                       /\ \A n \in numbered : n < org'.next
                       /\ \A u \in Admins : admin'[u].pc = "insert" =>
                             admin'[u].copy.next \in (1 .. org'.next - 1) \ numbered
    BY <1>4 DEF NumbersGoOn, Does
  <2>2. ~ overwritten /\ org = copy
    BY <1>4, <2>1
  <2>3. /\ done \subseteq org.set /\ ~ refused
        /\ \A n \in numbered : n < org.next
        /\ \A u \in Admins : admin[u].pc = "insert" =>
              admin[u].copy.next \in (1 .. org.next - 1) \ numbered
    BY <2>2 DEF SettingsInv, NumbersGoOn, Does
  <2> QED
    BY <1>3, <1>6, <2>2, <2>3
<1>8. NumbersAreApart'
  <2>1. ~ overwritten' => ~ overwritten
    BY <1>4
  <2> QED
    BY <2>1, <1>6 DEF SettingsInv, NumbersAreApart, Does
<1> QED
  BY <1>5, <1>7, <1>8 DEF SettingsInv

\* A request comes in: nothing it copies is being inserted.
LEMMA ComeInKeepsOrder ==
    ASSUME SettingsInv, NEW t \in Admins, NEW step \in {"count"} \cup Pages \cup Steps,
           ComeIn(t, step), UNCHANGED <<org, numbered, refused, overwritten, done>>
    PROVE  SettingsInv'
<1>1. /\ \A u \in Admins : u # t => admin'[u] = admin[u]
      /\ admin'[t] = [pc |-> step, copy |-> org]
      /\ step # "insert" /\ step # "idle"
  BY DEF SettingsInv, OrgTypes, ComeIn, Pages, Steps
<1>2. OrgTypes'
  <2>1. [pc |-> step, copy |-> org] \in [pc : {"idle", "count", "insert"} \cup Pages \cup Steps,
                                         copy : OrgRow \cup {NoOrgCopy}]
    BY DEF SettingsInv, OrgTypes
  <2> QED
    BY <1>1, <2>1 DEF SettingsInv, OrgTypes, ComeIn, Does
<1> QED
  BY <1>1, <1>2 DEF SettingsInv, NumbersGoOn, NumbersAreApart, Does

LEMMA SettingsInvIsKept == SettingsInv /\ [SettingsNext]_settingsVars => SettingsInv'
<1> SUFFICES ASSUME SettingsInv, [SettingsNext]_settingsVars PROVE SettingsInv'
  OBVIOUS
<1>1. ASSUME NEW t \in Admins, NEW page \in Pages \cup Steps, SendForm(t, page)
      PROVE SettingsInv'
  BY <1>1, ComeInKeepsOrder DEF SendForm
<1>2. ASSUME NEW t \in Admins, OpenForm(t) \/ CallApi(t) PROVE SettingsInv'
  BY <1>2, ComeInKeepsOrder DEF OpenForm, CallApi
<1>3. ASSUME NEW t \in Admins,
             \/ General(t) \/ StablecoinRpc(t) \/ Branding(t) \/ Notifications(t)
             \/ Electrum(t) \/ Email(t) \/ SetupOrg(t) \/ MarkConnector(t)
      PROVE SettingsInv'
  BY <1>3, PutKeepsOrder
  DEF General, StablecoinRpc, Branding, Notifications, Electrum, Email, SetupOrg, MarkConnector,
      Pages
<1>4. ASSUME NEW t \in Admins, RefuseForm(t) PROVE SettingsInv'
  BY <1>4 DEF RefuseForm, Finish, SettingsInv, OrgTypes, NumbersGoOn, NumbersAreApart, OffDuty,
     Does
<1>5. ASSUME NEW t \in Admins, FinishSetup(t) PROVE SettingsInv'
  <2> DEFINE copy == admin[t].copy
  <2>1. copy \in OrgRow
    BY <1>5 DEF SettingsInv, OrgTypes, FinishSetup, Does
  <2>2. org' = [copy EXCEPT !.setUp = TRUE]
    BY <1>5 DEF FinishSetup, SaveOrg
  <2>3. org' \in OrgRow /\ org'.set = copy.set /\ org'.next = copy.next
    BY <2>1, <2>2 DEF OrgRow
  <2>4. /\ numbered' = numbered /\ refused' = refused /\ done' = done
        /\ overwritten' = (overwritten \/ org # copy)
        /\ admin' = [admin EXCEPT ![t] = OffDuty]
    BY <1>5 DEF FinishSetup, SaveOrg, Finish
  <2>5. OrgTypes'
    BY <2>3, <2>4 DEF SettingsInv, OrgTypes, OffDuty, Does
  <2>6. /\ \A u \in Admins : u # t => admin'[u] = admin[u]
        /\ admin'[t].pc = "idle"
    BY <2>4 DEF SettingsInv, OrgTypes, OffDuty
  <2> HIDE DEF copy
  <2>7. NumbersGoOn'
    <3>1. SUFFICES ASSUME ~ overwritten'
                   PROVE /\ done \subseteq org'.set /\ ~ refused
                         /\ \A n \in numbered : n < org'.next
                         /\ \A u \in Admins : admin'[u].pc = "insert" =>
                               admin'[u].copy.next \in (1 .. org'.next - 1) \ numbered
      BY <2>4 DEF NumbersGoOn, Does
    <3>2. ~ overwritten /\ org = copy
      BY <2>4, <3>1
    <3>3. /\ done \subseteq org.set /\ ~ refused
          /\ \A n \in numbered : n < org.next
          /\ \A u \in Admins : admin[u].pc = "insert" =>
                admin[u].copy.next \in (1 .. org.next - 1) \ numbered
      BY <3>2 DEF SettingsInv, NumbersGoOn, Does
    <3> QED
      BY <2>3, <2>6, <3>2, <3>3
  <2>8. NumbersAreApart'
    <3>1. ~ overwritten' => ~ overwritten
      BY <2>4
    <3> QED
      BY <3>1, <2>6 DEF SettingsInv, NumbersAreApart, Does
  <2> QED
    BY <2>5, <2>7, <2>8 DEF SettingsInv
<1>6. ASSUME NEW t \in Admins, CountNumber(t) PROVE SettingsInv'
  <2> DEFINE copy == admin[t].copy
  <2>1. copy \in OrgRow
    BY <1>6 DEF SettingsInv, OrgTypes, CountNumber, Does
  <2>2. org' = [copy EXCEPT !.next = copy.next + 1]
    BY <1>6 DEF CountNumber, SaveOrg
  <2>3. org' \in OrgRow /\ org'.set = copy.set /\ org'.next = copy.next + 1 /\ copy.next \in Nat \ {0}
    BY <2>1, <2>2 DEF OrgRow
  <2>4. /\ numbered' = numbered /\ refused' = refused /\ done' = done
        /\ overwritten' = (overwritten \/ org # copy)
        /\ admin' = [admin EXCEPT ![t].pc = "insert"]
    BY <1>6 DEF CountNumber, SaveOrg
  <2>5. /\ \A u \in Admins : u # t => admin'[u] = admin[u]
        /\ admin'[t].pc = "insert" /\ admin'[t].copy = copy
    BY <2>4 DEF SettingsInv, OrgTypes
  <2>6. OrgTypes'
    BY <2>1, <2>3, <2>4, <2>5 DEF SettingsInv, OrgTypes, Does
  <2>7. org.next \in Nat \ {0} /\ numbered \subseteq Nat
    BY DEF SettingsInv, OrgTypes, OrgRow
  <2> HIDE DEF copy
  <2>8. ~ overwritten' => ~ overwritten /\ copy = org
    BY <2>4
  <2>9. NumbersGoOn'
    <3>1. SUFFICES ASSUME ~ overwritten'
                   PROVE /\ done \subseteq org'.set /\ ~ refused
                         /\ \A n \in numbered : n < org'.next
                         /\ \A u \in Admins : admin'[u].pc = "insert" =>
                               admin'[u].copy.next \in (1 .. org'.next - 1) \ numbered
      BY <2>4 DEF NumbersGoOn, Does
    <3>2. /\ done \subseteq org.set /\ ~ refused
          /\ \A n \in numbered : n < org.next
          /\ \A u \in Admins : admin[u].pc = "insert" =>
                admin[u].copy.next \in (1 .. org.next - 1) \ numbered
      BY <3>1, <2>8 DEF SettingsInv, NumbersGoOn, Does
    <3>3. org'.set = org.set /\ org'.next = org.next + 1 /\ copy.next = org.next
      BY <3>1, <2>3, <2>8
    <3> QED
      BY <3>2, <3>3, <2>5, <2>7
  <2>10. NumbersAreApart'
    <3>1. SUFFICES ASSUME ~ overwritten', NEW u \in Admins, NEW v \in Admins, u # v,
                          admin'[u].pc = "insert", admin'[v].pc = "insert"
                   PROVE admin'[u].copy.next # admin'[v].copy.next
      BY DEF NumbersAreApart, Does
    <3>2. \A w \in Admins : admin[w].pc = "insert" => admin[w].copy.next \in 1 .. org.next - 1
      BY <3>1, <2>8 DEF SettingsInv, NumbersGoOn, Does
    <3>3. u # t /\ v # t => admin[u].copy.next # admin[v].copy.next
      BY <3>1, <2>5, <2>8 DEF SettingsInv, NumbersAreApart, Does
    <3>4. copy.next = org.next
      BY <3>1, <2>8
    <3> QED
      BY <3>1, <3>2, <3>3, <3>4, <2>5, <2>7
  <2> QED
    BY <2>6, <2>9, <2>10 DEF SettingsInv
<1>7. ASSUME NEW t \in Admins, InsertInvoice(t) PROVE SettingsInv'
  <2> DEFINE number == admin[t].copy.next
  <2>1. number \in Nat
    BY <1>7 DEF InsertInvoice, SettingsInv, OrgTypes, OrgRow, Does
  <2>2. /\ org' = org /\ overwritten' = overwritten /\ done' = done
        /\ numbered' = numbered \cup {number} /\ refused' = (refused \/ number \in numbered)
        /\ admin' = [admin EXCEPT ![t] = OffDuty] /\ Does(t, "insert")
    BY <1>7 DEF InsertInvoice, Finish
  <2>3. /\ \A u \in Admins : u # t => admin'[u] = admin[u]
        /\ admin'[t].pc = "idle"
    BY <2>2 DEF SettingsInv, OrgTypes, OffDuty
  <2>4. OrgTypes'
    BY <2>1, <2>2, <2>3 DEF SettingsInv, OrgTypes, OffDuty, Does
  <2>5. org.next \in Nat
    BY DEF SettingsInv, OrgTypes, OrgRow
  <2>6. ~ overwritten => \A u \in Admins :
            u # t /\ admin[u].pc = "insert" => admin[u].copy.next # number
    BY <2>2 DEF SettingsInv, NumbersAreApart, Does
  <2>7. ~ overwritten => number \in (1 .. org.next - 1) \ numbered
    BY <2>2 DEF SettingsInv, NumbersGoOn, Does
  <2> HIDE DEF number
  <2>8. NumbersGoOn'
    <3>1. SUFFICES ASSUME ~ overwritten
                   PROVE /\ done \subseteq org.set /\ ~ refused'
                         /\ \A n \in numbered \cup {number} : n < org.next
                         /\ \A u \in Admins : admin'[u].pc = "insert" =>
                               admin'[u].copy.next \in (1 .. org.next - 1) \ (numbered \cup {number})
      BY <2>2 DEF NumbersGoOn, Does
    <3>2. /\ done \subseteq org.set /\ ~ refused
          /\ \A n \in numbered : n < org.next
          /\ \A u \in Admins : admin[u].pc = "insert" =>
                admin[u].copy.next \in (1 .. org.next - 1) \ numbered
      BY <3>1 DEF SettingsInv, NumbersGoOn, Does
    <3>3. ~ refused'
      BY <2>2, <2>7, <3>1, <3>2
    <3>4. \A n \in numbered \cup {number} : n < org.next
      BY <2>1, <2>5, <2>7, <3>1, <3>2
    <3> QED
      BY <2>3, <2>6, <3>1, <3>2, <3>3, <3>4
  <2>9. NumbersAreApart'
    BY <2>2, <2>3 DEF SettingsInv, NumbersAreApart, Does
  <2> QED
    BY <2>4, <2>8, <2>9 DEF SettingsInv
<1>8. CASE UNCHANGED settingsVars
  BY <1>8 DEF settingsVars, SettingsInv, OrgTypes, NumbersGoOn, NumbersAreApart, Does
<1> QED
  BY <1>1, <1>2, <1>3, <1>4, <1>5, <1>6, <1>7, <1>8 DEF SettingsNext, PageStep

\* Until a request saves an old copy of the Organization row, what was answered as
\* saved is in it and no invoice is refused for its number, however many
\* administrators and API calls save settings and take numbers at once.
THEOREM InvoiceNumbersGoOn == SettingsSpec => []NumbersGoOn
<1>1. SettingsInit => SettingsInv
  <2> SUFFICES ASSUME SettingsInit PROVE SettingsInv
    OBVIOUS
  <2>1. org \in OrgRow
    BY DEF SettingsInit, OrgRow
  <2>2. \A t \in Admins : admin[t] = OffDuty /\ Does(t, "idle")
    BY DEF SettingsInit, OffDuty, Does
  <2>3. OrgTypes
    BY <2>1, <2>2 DEF SettingsInit, OrgTypes, OffDuty
  <2>4. NumbersGoOn /\ NumbersAreApart
    BY <2>2 DEF SettingsInit, NumbersGoOn, NumbersAreApart, Does
  <2> QED
    BY <2>3, <2>4 DEF SettingsInv
<1>2. SettingsInv => NumbersGoOn
  BY DEF SettingsInv
<1> QED
  BY <1>1, <1>2, SettingsInvIsKept, PTL DEF SettingsSpec

-------------------------------------------------------------------------------
(* Connectors. *)

RowState == {"on", "off", "gone"}

ConnectorTypes ==
    /\ kind \in Single \cup {"stable"}
    /\ connectors \in Seq(RowState) /\ answered \in Seq(RowState)
    /\ kind = "stable" => Len(answered) = Len(connectors)
    /\ muddled \in BOOLEAN
    /\ editor \in [Editors -> [pc : {"idle", "add", "edit", "toggle"}, row : Nat,
                               copy : RowState]]

\* What a page goes on with: the one row it found, or an account that was there.
EditorsKnowRows ==
    \A t \in Editors :
        /\ editor[t].pc \in {"add", "edit"} => kind \in Single
        /\ editor[t].pc = "edit" => connectors # <<>>
        /\ editor[t].pc = "toggle" => /\ kind = "stable"
                                      /\ editor[t].row \in 1 .. Len(connectors)
                                      /\ editor[t].copy # "gone"

\* One row where one is meant, and the rows are what was answered.
RowsAreAnswered ==
    ~ muddled => /\ kind \in Single => Len(connectors) <= 1
                 /\ connectors = answered

ConnectorsInv == ConnectorTypes /\ EditorsKnowRows /\ RowsAreAnswered

\* A new row, by the thread that is at the page or by the wizard.
LEMMA InsertedKeepsRows ==
    ASSUME ConnectorsInv, NEW state \in {"on", "off"}, Inserted(state),
           \/ UNCHANGED editor
           \/ \E t \in Editors : Rest(t)
    PROVE  ConnectorsInv'
<1> USE DEF ConnectorsInv, ConnectorTypes, RowState
<1>1. /\ connectors' = Append(connectors, state) /\ kind' = kind
      /\ answered' = IF kind \in Single THEN <<state>> ELSE Append(answered, state)
      /\ muddled' = (muddled \/ (kind \in Single /\ connectors # <<>>))
  BY DEF Inserted
<1>2. /\ connectors' \in Seq(RowState) /\ connectors' # <<>>
      /\ Len(connectors') = Len(connectors) + 1
  BY <1>1
<1>3. /\ answered' \in Seq(RowState)
      /\ kind' = "stable" => Len(answered') = Len(connectors')
  <2>1. <<state>> \in Seq(RowState)
    OBVIOUS
  <2>2. CASE kind \in Single
    BY <1>1, <2>1, <2>2 DEF Single
  <2>3. CASE kind \notin Single
    BY <1>1, <1>2, <2>3
  <2> QED
    BY <2>2, <2>3
<1>4. \A t \in Editors : editor'[t] = editor[t] \/ editor'[t] = AtEase
  BY DEF Rest
<1>5. ConnectorTypes'
  <2>1. AtEase \in [pc : {"idle", "add", "edit", "toggle"}, row : Nat, copy : RowState]
    BY DEF AtEase
  <2>2. editor' \in [Editors -> [pc : {"idle", "add", "edit", "toggle"}, row : Nat,
                                 copy : RowState]]
    BY <2>1 DEF Rest
  <2>3. muddled' \in BOOLEAN
    BY <1>1
  <2> QED
    BY <1>1, <1>2, <1>3, <2>2, <2>3
<1>6. EditorsKnowRows'
  <2> SUFFICES ASSUME NEW t \in Editors
               PROVE  /\ editor'[t].pc \in {"add", "edit"} => kind' \in Single
                      /\ editor'[t].pc = "edit" => connectors' # <<>>
                      /\ editor'[t].pc = "toggle" => /\ kind' = "stable"
                                                     /\ editor'[t].row \in 1 .. Len(connectors')
                                                     /\ editor'[t].copy # "gone"
    BY DEF EditorsKnowRows
  <2>1. CASE editor'[t] = AtEase
    BY <2>1 DEF AtEase
  <2>2. CASE editor'[t] = editor[t]
    BY <1>1, <1>2, <2>2 DEF EditorsKnowRows
  <2> QED
    BY <1>4, <2>1, <2>2
<1>7. RowsAreAnswered'
  <2> SUFFICES ASSUME ~ muddled' PROVE (kind' \in Single => Len(connectors') <= 1)
                                       /\ connectors' = answered'
    BY DEF RowsAreAnswered
  <2>1. connectors = answered /\ (kind \in Single => connectors = <<>>)
    BY <1>1 DEF RowsAreAnswered
  <2>2. CASE kind \in Single
    <3>1. connectors' = <<state>>
      BY <1>1, <2>1, <2>2
    <3> QED
      BY <1>1, <2>2, <3>1
  <2>3. CASE kind \notin Single
    BY <1>1, <2>1, <2>3
  <2> QED
    BY <2>2, <2>3
<1> QED
  BY <1>5, <1>6, <1>7

LEMMA ConnectorsInvIsKept == ConnectorsInv /\ [ConnectorsNext]_connectorVars => ConnectorsInv'
<1> SUFFICES ASSUME ConnectorsInv, [ConnectorsNext]_connectorVars PROVE ConnectorsInv'
  OBVIOUS
<1>1. CASE WizardWire \/ WizardBtcpay \/ WizardLnbits \/ WizardStablecoins \/ AddAccount
  BY <1>1, InsertedKeepsRows
  DEF WizardWire, WizardBtcpay, WizardLnbits, WizardStablecoins, AddAccount
<1>2. ASSUME NEW t \in Editors, NEW state \in {"on", "off"}, SaveConnector(t, state)
      PROVE ConnectorsInv'
  <2>1. CASE Inserted(state)
    BY <1>2, <2>1, InsertedKeepsRows DEF SaveConnector
  <2>2. CASE editor[t].pc = "edit" /\ Changed(state)
    <3>1. connectors # <<>> /\ kind \in Single /\ connectors \in Seq(RowState)
      BY <2>2 DEF ConnectorsInv, ConnectorTypes, EditorsKnowRows
    <3>2. /\ connectors' = [connectors EXCEPT ![1] = state] /\ answered' = <<state>>
          /\ kind' = kind /\ muddled' = muddled /\ editor' = [editor EXCEPT ![t] = AtEase]
      BY <1>2, <2>2 DEF Changed, SaveConnector, Rest
    <3>3. connectors' \in Seq(RowState) /\ Len(connectors') = Len(connectors)
          /\ connectors'[1] = state
      BY <3>1, <3>2 DEF RowState
    <3>4. ConnectorTypes'
      <4>1. answered' \in Seq(RowState)
        BY <3>2 DEF RowState
      <4>2. kind' # "stable"
        BY <3>1, <3>2 DEF Single
      <4> QED
        BY <3>2, <3>3, <4>1, <4>2 DEF ConnectorsInv, ConnectorTypes, AtEase, RowState
    <3>5. EditorsKnowRows'
      <4>1. \A u \in Editors : editor'[u] = editor[u] \/ editor'[u].pc = "idle"
        BY <3>2 DEF ConnectorsInv, ConnectorTypes, AtEase
      <4>2. connectors' # <<>>
        BY <3>1, <3>3
      <4> QED
        BY <3>2, <3>3, <4>1, <4>2 DEF ConnectorsInv, EditorsKnowRows
    <3>6. RowsAreAnswered'
      <4> SUFFICES ASSUME ~ muddled PROVE Len(connectors') <= 1 /\ connectors' = <<state>>
        BY <3>2 DEF RowsAreAnswered
      <4>1. Len(connectors) = 1
        <5>1. Len(connectors) <= 1
          BY <3>1 DEF ConnectorsInv, RowsAreAnswered
        <5>2. Len(connectors) \in Nat \ {0}
          BY <3>1, EmptySeq
        <5> QED
          BY <5>1, <5>2
      <4>2. Len(connectors') = 1 /\ connectors' \in Seq(RowState) /\ connectors'[1] = state
        BY <3>3, <4>1
      <4> QED
        BY <4>2
    <3> QED
      BY <3>4, <3>5, <3>6 DEF ConnectorsInv
  <2> QED
    BY <1>2, <2>1, <2>2 DEF SaveConnector
<1>3. ASSUME NEW t \in Editors, OpenConnector(t) \/ RefuseConnector(t) PROVE ConnectorsInv'
  <2>1. UNCHANGED <<kind, connectors, answered, muddled>>
    BY <1>3 DEF OpenConnector, RefuseConnector, RowsStay
  <2> DEFINE pc == IF connectors = <<>> THEN "add" ELSE "edit"
  <2>2. \/ kind \in Single /\ editor' = [editor EXCEPT ![t].pc = pc]
        \/ editor' = [editor EXCEPT ![t] = AtEase]
    BY <1>3 DEF OpenConnector, RefuseConnector, Rest
  <2>3. pc \in {"add", "edit"} /\ (pc = "edit" => connectors # <<>>)
    OBVIOUS
  <2> HIDE DEF pc
  <2>4. ConnectorTypes' /\ EditorsKnowRows'
    <3>1. CASE kind \in Single /\ editor' = [editor EXCEPT ![t].pc = pc]
      BY <2>1, <2>3, <3>1 DEF ConnectorsInv, ConnectorTypes, EditorsKnowRows
    <3>2. CASE editor' = [editor EXCEPT ![t] = AtEase]
      BY <2>1, <3>2 DEF ConnectorsInv, ConnectorTypes, EditorsKnowRows, AtEase, RowState
    <3> QED
      BY <2>2, <3>1, <3>2
  <2>5. RowsAreAnswered'
    BY <2>1 DEF ConnectorsInv, RowsAreAnswered
  <2> QED
    BY <2>4, <2>5 DEF ConnectorsInv
<1>4. ASSUME NEW t \in Editors, NEW n \in 1 .. MaxConnectors, FetchAccount(t, n)
      PROVE ConnectorsInv'
  <2>1. n \in 1 .. Len(connectors) /\ connectors[n] \in {"on", "off"}
    BY <1>4 DEF FetchAccount, ConnectorsInv, ConnectorTypes, RowState
  <2>2. [pc |-> "toggle", row |-> n, copy |-> connectors[n]]
           \in [pc : {"idle", "add", "edit", "toggle"}, row : Nat, copy : RowState]
    BY <2>1 DEF RowState
  <2>3. ConnectorTypes'
    BY <1>4, <2>2 DEF FetchAccount, RowsStay, ConnectorsInv, ConnectorTypes
  <2>4. EditorsKnowRows' /\ RowsAreAnswered'
    BY <1>4, <2>1 DEF FetchAccount, RowsStay, ConnectorsInv, ConnectorTypes, EditorsKnowRows,
       RowsAreAnswered
  <2> QED
    BY <2>3, <2>4 DEF ConnectorsInv
<1>5. ASSUME NEW t \in Editors, ToggleAccount(t) PROVE ConnectorsInv'
  <2> DEFINE n == editor[t].row
             state == Flipped(editor[t].copy)
             known == IF answered[n] = "gone" THEN answered[n] ELSE Flipped(answered[n])
  <2>1. /\ kind = "stable" /\ n \in 1 .. Len(connectors) /\ editor[t].copy \in {"on", "off"}
        /\ connectors \in Seq(RowState) /\ answered \in Seq(RowState)
        /\ Len(answered) = Len(connectors)
    BY <1>5 DEF ToggleAccount, ConnectorsInv, ConnectorTypes, EditorsKnowRows, RowState
  <2>2. /\ connectors' = [connectors EXCEPT ![n] = state]
        /\ answered' = [answered EXCEPT ![n] = known]
        /\ muddled' = (muddled \/ connectors[n] # editor[t].copy)
        /\ kind' = kind /\ editor' = [editor EXCEPT ![t] = AtEase]
    BY <1>5 DEF ToggleAccount, Rest
  <2>3. state \in {"on", "off"} /\ known \in RowState
    BY <2>1 DEF Flipped, RowState
  <2> HIDE DEF n, state, known
  <2>4. /\ connectors' \in Seq(RowState) /\ Len(connectors') = Len(connectors)
        /\ answered' \in Seq(RowState) /\ Len(answered') = Len(answered)
    BY <2>1, <2>2, <2>3 DEF RowState
  <2>5. ConnectorTypes'
    BY <2>1, <2>2, <2>4 DEF ConnectorsInv, ConnectorTypes, AtEase, RowState
  <2>6. EditorsKnowRows'
    <3>1. \A u \in Editors : editor'[u] = editor[u] \/ editor'[u].pc = "idle"
      BY <2>2 DEF ConnectorsInv, ConnectorTypes, AtEase
    <3> QED
      BY <2>1, <2>2, <2>4, <3>1 DEF ConnectorsInv, EditorsKnowRows, Single
  <2>7. RowsAreAnswered'
    <3> SUFFICES ASSUME ~ muddled' PROVE connectors' = answered'
      BY <2>1, <2>2 DEF RowsAreAnswered, Single
    <3>1. connectors = answered /\ connectors[n] = editor[t].copy
      BY <2>2 DEF ConnectorsInv, RowsAreAnswered
    <3>2. known = state
      BY <2>1, <3>1 DEF known, state, n
    <3> QED
      BY <2>2, <3>1, <3>2
  <2> QED
    BY <2>5, <2>6, <2>7 DEF ConnectorsInv
<1>6. ASSUME NEW n \in 1 .. MaxConnectors, DeleteAccount(n) PROVE ConnectorsInv'
  <2>1. /\ kind = "stable" /\ n \in 1 .. Len(connectors) /\ connectors \in Seq(RowState)
        /\ answered \in Seq(RowState) /\ Len(answered) = Len(connectors)
    BY <1>6 DEF DeleteAccount, ConnectorsInv, ConnectorTypes
  <2>2. /\ connectors' = [connectors EXCEPT ![n] = "gone"]
        /\ answered' = [answered EXCEPT ![n] = "gone"]
        /\ UNCHANGED <<kind, editor, muddled>>
    BY <1>6 DEF DeleteAccount
  <2>3. /\ connectors' \in Seq(RowState) /\ Len(connectors') = Len(connectors)
        /\ answered' \in Seq(RowState) /\ Len(answered') = Len(answered)
    BY <2>1, <2>2 DEF RowState
  <2>4. ConnectorTypes'
    BY <2>1, <2>2, <2>3 DEF ConnectorsInv, ConnectorTypes
  <2>5. EditorsKnowRows' /\ RowsAreAnswered'
    BY <2>1, <2>2, <2>3 DEF ConnectorsInv, EditorsKnowRows, RowsAreAnswered, Single
  <2> QED
    BY <2>4, <2>5 DEF ConnectorsInv
<1>7. CASE BillByForm \/ BillByStore \/ UNCHANGED connectorVars
  BY <1>7 DEF BillByForm, BillByStore, RowsStay, connectorVars, ConnectorsInv, ConnectorTypes,
     EditorsKnowRows, RowsAreAnswered
<1> QED
  BY <1>1, <1>2, <1>3, <1>4, <1>5, <1>6, <1>7
  DEF ConnectorsNext, ConnectorsWire, ConnectorsBtcpay, ConnectorsLnbits

\* Customers are offered a connector exactly while the form saved last, or the
\* switches of the accounts, say so: for any number of rows and of requests, until
\* there are two rows where the pages know one, or a switch saves an old copy.
THEOREM CustomersAreOfferedWhatIsSaved == ConnectorsSpec => []OfferIsAsSaved
<1>1. ConnectorsInit => ConnectorsInv
  <2> SUFFICES ASSUME ConnectorsInit PROVE ConnectorsInv
    OBVIOUS
  <2>1. connectors = <<>> /\ answered = <<>> /\ Len(<<>>) = 0 /\ <<>> \in Seq(RowState)
    BY DEF ConnectorsInit
  <2>2. \A t \in Editors : editor[t] = AtEase
    BY DEF ConnectorsInit
  <2>3. ConnectorTypes
    BY <2>1 DEF ConnectorsInit, ConnectorTypes, AtEase, RowState
  <2>4. EditorsKnowRows /\ RowsAreAnswered
    BY <2>1, <2>2 DEF EditorsKnowRows, RowsAreAnswered, AtEase
  <2> QED
    BY <2>3, <2>4 DEF ConnectorsInv
<1>2. ConnectorsInv => OfferIsAsSaved
  <2> SUFFICES ASSUME ConnectorsInv, ~ muddled
               PROVE  LET saved == {n \in DOMAIN answered : answered[n] = "on" /\ Enables(n)}
                      IN  /\ CheckoutMethods \ {0} = saved
                          /\ 0 \in CheckoutMethods => legacy /\ saved = {}
    BY DEF OfferIsAsSaved
  <2>1. /\ connectors = answered /\ connectors \in Seq(RowState)
        /\ kind \in Single => Len(connectors) <= 1
    BY DEF ConnectorsInv, ConnectorTypes, RowsAreAnswered
  <2>2. DOMAIN connectors = 1 .. Len(connectors) /\ Len(connectors) \in Nat
    BY <2>1
  <2>3. Active = {n \in DOMAIN answered : answered[n] = "on"} /\ 0 \notin Active
    BY <2>1, <2>2 DEF Active
  <2>4. kind \in Single => \A n, m \in Active : n <= m
    BY <2>1, <2>2 DEF Active
  <2> QED
    BY <2>3, <2>4 DEF CheckoutMethods
<1> QED
  BY <1>1, <1>2, ConnectorsInvIsKept, PTL DEF ConnectorsSpec

-------------------------------------------------------------------------------
(* The processes that share the data directory. *)

RowShape(row) ==
    row = [run |-> row.run, memory |-> row.memory, version |-> row.version,
           job |-> row.job, entry |-> row.entry, owed |-> row.owed]

ProcShape ==
    /\ proc = [p \in Processes |-> proc[p]]
    /\ \A p \in Processes : RowShape(proc[p])

HasBackup(e) == e.data # NoBackup

EntryShape(e) ==
    e = [from |-> e.from, code |-> e.code, data |-> e.data, owed |-> e.owed, to |-> e.to]

\* T has every update that was ever recorded and what their backups say was.
History(T) ==
    /\ updates \in Seq(T)
    /\ \A e \in T : HasBackup(e) => e.data.updates \in Seq(T)
    /\ \A p \in Processes :
          /\ proc[p].job \in {"apply", "record"} =>
                /\ EntryShape(proc[p].entry)
                /\ HasBackup(proc[p].entry) => proc[p].entry.data.updates \in Seq(T)
          /\ proc[p].job \in {"backup", "apply", "record"} => proc[p].run = "up"

\* Until "shared", every process that runs has the same memory, M.  Files, answers
\* and backups are parts of it, and it is on disk or somebody will write it there.
Together(M) == \A p \in Processes : Running(p) => proc[p].memory = M
Covers(T, M) ==
    onDisk \subseteq M /\ requested \subseteq M
    /\ \A e \in T : HasBackup(e) => e.data.rows \subseteq M
Held(M) == M = onDisk \/ \E p \in Processes : proc[p].run = "up" /\ proc[p].job # "hup"
BackupsHold(T, M) ==
    /\ \A e \in T : HasBackup(e) => e.owed \subseteq e.data.rows
    /\ \A p \in Processes :
          /\ proc[p].job \in {"apply", "record"} /\ HasBackup(proc[p].entry) =>
                proc[p].entry.owed \subseteq proc[p].entry.data.rows
                /\ proc[p].entry.data.rows \subseteq M
          /\ proc[p].job = "backup" =>
                /\ proc[p].owed \subseteq M
                /\ proc[p].owed \cap requested \subseteq onDisk
                /\ proc[p].owed \subseteq onDisk \/ ~ ByItself(p)

Sound(T, M) == Together(M) /\ Covers(T, M) /\ Held(M) /\ BackupsHold(T, M)

UpdaterInv == ProcShape /\ \E T : History(T) /\ (~ shared => \E M : Sound(T, M))

\* A step that writes one process's record.
LEMMA OneProcess ==
    ASSUME ProcShape, NEW p \in Processes, NEW row, RowShape(row),
           proc' = [proc EXCEPT ![p] = row]
    PROVE  /\ ProcShape'
           /\ \A q \in Processes : q # p => proc'[q] = proc[q]
           /\ proc'[p] = row
<1>1. DOMAIN proc = Processes
  BY DEF ProcShape
<1>2. proc' = [q \in Processes |-> IF q = p THEN row ELSE proc[q]]
  BY <1>1
<1>3. \A q \in Processes : q # p => proc'[q] = proc[q]
  BY <1>2
<1>4. proc'[p] = row
  BY <1>2
<1>5. proc' = [q \in Processes |-> proc'[q]]
  BY <1>2
<1>6. \A q \in Processes : RowShape(proc'[q])
  BY <1>3, <1>4 DEF ProcShape
<1> QED
  BY <1>3, <1>4, <1>5, <1>6 DEF ProcShape, RowShape

\* Goes: only the job, the entry and what is owed.
LEMMA GoesOn ==
    ASSUME ProcShape, NEW p \in Processes, NEW j, Goes(p, j)
    PROVE  /\ ProcShape'
           /\ \A q \in Processes : q # p => proc'[q] = proc[q]
           /\ proc'[p].run = proc[p].run /\ proc'[p].memory = proc[p].memory
           /\ proc'[p].job = j /\ proc'[p].entry = NoBackup /\ proc'[p].owed = {}
<1> DEFINE row == [proc[p] EXCEPT !.job = j, !.entry = NoBackup, !.owed = {}]
<1>1. proc' = [proc EXCEPT ![p] = row]
  BY DEF Goes, ProcShape
<1>2. /\ RowShape(row) /\ row.run = proc[p].run /\ row.memory = proc[p].memory /\ row.job = j
      /\ row.entry = NoBackup /\ row.owed = {}
  <2>1. PICK was : was = proc[p]
    OBVIOUS
  <2>2. RowShape(was)
    BY <2>1 DEF ProcShape
  <2>3. PICK new : new = [was EXCEPT !.job = j, !.entry = NoBackup, !.owed = {}]
    OBVIOUS
  <2>4. /\ RowShape(new) /\ new.run = was.run /\ new.memory = was.memory /\ new.job = j
        /\ new.entry = NoBackup /\ new.owed = {}
    BY <2>2, <2>3 DEF RowShape
  <2>5. row = new
    BY <2>1, <2>3
  <2> QED
    BY <2>1, <2>4, <2>5
<1> HIDE DEF row
<1> QED
  BY <1>1, <1>2, OneProcess

\* A step of p with its update that may save its memory.  The next state of p's
\* record is <<r, m, j, e, o>>.
LEMMA StepOfUpdate ==
    ASSUME NEW T, NEW M, History(T), ~ shared => Sound(T, M),
           NEW p \in Processes, NEW r \in {"up", "ending"}, NEW j, NEW e, NEW o,
           proc[p].run = "up",
           \A q \in Processes : q # p => proc'[q] = proc[q],
           proc'[p].run = r, proc'[p].memory = proc[p].memory, proc'[p].job = j,
           proc'[p].entry = e, proc'[p].owed = o,
           UNCHANGED <<updates, requested>>,
           ~ shared' => /\ ~ shared
                        /\ onDisk \subseteq onDisk' /\ onDisk' \subseteq M
                        /\ (r = "up" /\ j # "hup") \/ proc[p].job = "hup" \/ onDisk' = M,
           j \in {"backup", "apply", "record"} => r = "up",
           j \in {"apply", "record"} =>
               /\ EntryShape(e)
               /\ HasBackup(e) => /\ e.data.updates \in Seq(T)
                                  /\ ~ shared' => /\ e.owed \subseteq e.data.rows
                                                  /\ e.data.rows \subseteq M,
           j = "backup" => (~ shared' => /\ o \subseteq M /\ o \cap requested \subseteq onDisk'
                                         /\ o \subseteq onDisk' \/ ~ ByItself(p))
    PROVE  History(T)' /\ (~ shared' => Sound(T, M)')
<1>1. History(T)'
  BY DEF History
<1>2. ASSUME ~ shared' PROVE Sound(T, M)'
  <2> USE <1>2
  <2>1. ~ shared /\ Sound(T, M)
    OBVIOUS
  <2>2. \A q \in Processes : Running(q)' <=> Running(q)
    BY DEF Running
  <2>3. \A q \in Processes : ByItself(q)' <=> ByItself(q)
    BY <2>2 DEF ByItself
  <2>4. proc[p].memory = M /\ onDisk \subseteq M /\ onDisk' \subseteq M /\ onDisk \subseteq onDisk'
    BY <2>1 DEF Sound, Together, Covers, Running
  <2>5. Together(M)'
    BY <2>1, <2>2 DEF Sound, Together
  <2>6. Covers(T, M)'
    BY <2>1, <2>4 DEF Sound, Covers
  <2>7. Held(M)'
    BY <2>1 DEF Sound, Held
  <2>8. ASSUME NEW q \in Processes, proc'[q].job = "backup"
        PROVE  /\ proc'[q].owed \subseteq M
               /\ proc'[q].owed \cap requested \subseteq onDisk'
               /\ proc'[q].owed \subseteq onDisk' \/ ~ ByItself(q)
    <3>1. CASE q = p
      BY <2>8, <3>1
    <3>2. CASE q # p
      <4>1. proc'[q] = proc[q]
        BY <3>2
      <4> QED
        BY <2>1, <2>4, <2>8, <4>1 DEF Sound, BackupsHold
    <3> QED
      BY <3>1, <3>2
  <2>9. ASSUME NEW q \in Processes, proc'[q].job \in {"apply", "record"},
               HasBackup(proc'[q].entry)
        PROVE  /\ proc'[q].entry.owed \subseteq proc'[q].entry.data.rows
               /\ proc'[q].entry.data.rows \subseteq M
    <3>1. CASE q = p
      BY <2>9, <3>1
    <3>2. CASE q # p
      BY <2>1, <2>9, <3>2 DEF Sound, BackupsHold
    <3> QED
      BY <3>1, <3>2
  <2>10. BackupsHold(T, M)'
    BY <2>1, <2>3, <2>8, <2>9 DEF Sound, BackupsHold, HasBackup
  <2> QED
    BY <2>5, <2>6, <2>7, <2>10 DEF Sound
<1> QED
  BY <1>1, <1>2

\* p restores the data, whatever it had: its memory has all of it.
LEMMA StepOfRollback ==
    ASSUME NEW T, NEW M, History(T), ~ shared => Sound(T, M),
           NEW p \in Processes, NEW j \in {"restart", "done"}, NEW e \in T,
           proc[p].run = "up", proc[p].job = "none",
           \A q \in Processes : q # p => proc'[q] = proc[q],
           proc'[p].run = "up", proc'[p].memory = proc[p].memory, proc'[p].job = j,
           NEW files, RestoreData(e, files), UNCHANGED shared
    PROVE  History(T)' /\ (~ shared' => Sound(T, M)')
<1>1. /\ HasBackup(e) /\ updates' \in {e.data.updates, updates}
      /\ onDisk' = (e.data.rows \cap files) \cup (onDisk \ files)
      /\ requested' = (e.data.rows \cap files) \cup (requested \ files)
  BY DEF RestoreData, HasBackup
<1>2. History(T)'
  <2>1. updates' \in Seq(T)
    BY <1>1 DEF History
  <2> QED
    BY <2>1 DEF History
<1>3. ASSUME ~ shared PROVE Sound(T, M)'
  <2> USE <1>3
  <2>1. Sound(T, M)
    OBVIOUS
  <2>2. \A q \in Processes : Running(q)' <=> Running(q)
    BY DEF Running
  <2>3. Together(M)'
    BY <2>1, <2>2 DEF Sound, Together
  <2>4. Covers(T, M)'
    BY <1>1, <2>1 DEF Sound, Covers
  <2>5. Held(M)'
    BY DEF Held
  <2>6. ASSUME NEW q \in Processes, proc'[q].job = "backup"
        PROVE  /\ proc'[q].owed \subseteq M
               /\ proc'[q].owed \cap requested' \subseteq onDisk'
               /\ ~ ByItself(q)'
    <3>1. q # p /\ proc'[q] = proc[q]
      BY <2>6
    <3>2. Running(p)'
      BY DEF Running
    <3>3. proc[q].owed \subseteq M /\ proc[q].owed \cap requested \subseteq onDisk
      BY <2>1, <2>6, <3>1 DEF Sound, BackupsHold
    <3>4. proc[q].owed \cap requested' \subseteq onDisk'
      BY <1>1, <3>3
    <3> QED
      BY <3>1, <3>2, <3>3, <3>4 DEF ByItself
  <2>7. ASSUME NEW q \in Processes, proc'[q].job \in {"apply", "record"},
               HasBackup(proc'[q].entry)
        PROVE  /\ proc'[q].entry.owed \subseteq proc'[q].entry.data.rows
               /\ proc'[q].entry.data.rows \subseteq M
    BY <2>1, <2>7 DEF Sound, BackupsHold
  <2>8. BackupsHold(T, M)'
    BY <2>1, <2>6, <2>7 DEF Sound, BackupsHold, HasBackup
  <2> QED
    BY <2>3, <2>4, <2>5, <2>8 DEF Sound
<1> QED
  BY <1>2, <1>3

\* p leaves, after it saved its memory or with nothing in it that is not on disk.
LEMMA ProcessLeaves ==
    ASSUME NEW T, NEW M, ProcShape, History(T), ~ shared => Sound(T, M),
           NEW p \in Processes, Running(p),
           proc' = [proc EXCEPT ![p] = Gone],
           UNCHANGED <<updates, requested>>,
           ~ shared' => ~ shared,
           ~ shared' => \/ onDisk' = proc[p].memory
                        \/ onDisk' = onDisk /\ proc[p].memory \subseteq onDisk
    PROVE  ProcShape' /\ History(T)' /\ (~ shared' => Sound(T, M)')
<1>1. /\ ProcShape'
      /\ \A q \in Processes : q # p => proc'[q] = proc[q]
      /\ proc'[p].run = "off" /\ proc'[p].job = "none"
  <2>1. RowShape(Gone) /\ Gone.run = "off" /\ Gone.job = "none"
    BY DEF Gone, NotStarted, RowShape
  <2> QED
    BY <2>1, OneProcess
<1>2. History(T)'
  BY <1>1 DEF History
<1>3. ASSUME ~ shared' PROVE Sound(T, M)'
  <2> USE <1>3
  <2>1. Sound(T, M)
    OBVIOUS
  <2>2. proc[p].memory = M /\ onDisk \subseteq M
    BY <2>1 DEF Sound, Together, Covers
  <2>3. onDisk' = M
    <3>1. CASE onDisk' = proc[p].memory
      BY <2>2, <3>1
    <3>2. CASE onDisk' = onDisk /\ proc[p].memory \subseteq onDisk
      BY <2>2, <3>2
    <3> QED
      BY <3>1, <3>2
  <2>4. \A q \in Processes : Running(q)' => q # p /\ Running(q)
    BY <1>1 DEF Running
  <2>5. Together(M)'
    BY <1>1, <2>1, <2>4 DEF Sound, Together
  <2>6. Covers(T, M)'
    BY <2>1, <2>3 DEF Sound, Covers
  <2>7. Held(M)'
    BY <2>3 DEF Held
  <2>8. \A q \in Processes : proc'[q].job \in {"backup", "apply", "record"} => proc'[q] = proc[q]
    BY <1>1
  <2>9. BackupsHold(T, M)'
    BY <2>1, <2>3, <2>8 DEF Sound, BackupsHold, HasBackup
  <2> QED
    BY <2>5, <2>6, <2>7, <2>9 DEF Sound
<1> QED
  BY <1>1, <1>2, <1>3

\* A process starts with what is on disk.
LEMMA ProcessStarts ==
    ASSUME NEW T, NEW M, ProcShape, History(T), ~ shared => Sound(T, M),
           NEW p \in Processes, StartProcess(p)
    PROVE  ProcShape' /\ History(T)' /\ (~ shared' => Sound(T, M)')
<1> DEFINE row == [NotStarted EXCEPT !.run = "up", !.memory = onDisk, !.version = code]
<1>1. /\ RowShape(row) /\ row.run = "up" /\ row.memory = onDisk /\ row.job = "none"
      /\ proc' = [proc EXCEPT ![p] = row]
  <2>1. PICK was : was = NotStarted
    OBVIOUS
  <2>2. RowShape(was) /\ was.job = "none"
    BY <2>1 DEF NotStarted, RowShape
  <2>3. PICK new : new = [was EXCEPT !.run = "up", !.memory = onDisk, !.version = code]
    OBVIOUS
  <2>4. RowShape(new) /\ new.run = "up" /\ new.memory = onDisk /\ new.job = "none"
    BY <2>2, <2>3 DEF RowShape
  <2>5. row = new
    BY <2>1, <2>3
  <2>6. proc' = [proc EXCEPT ![p] = row]
    BY DEF StartProcess
  <2> QED
    BY <2>4, <2>5, <2>6
<1> HIDE DEF row
<1>2. /\ ProcShape'
      /\ \A q \in Processes : q # p => proc'[q] = proc[q]
      /\ proc'[p].run = "up" /\ proc'[p].memory = onDisk /\ proc'[p].job = "none"
  BY <1>1, OneProcess
<1>3. /\ UNCHANGED <<onDisk, updates, requested>> /\ proc[p].run = "new"
      /\ shared' = (shared \/ \E q \in Processes : Unsaved(q))
  BY DEF StartProcess
<1>4. History(T)'
  BY <1>2, <1>3 DEF History
<1>5. ASSUME ~ shared' PROVE Sound(T, M)'
  <2>1. Sound(T, M) /\ \A q \in Processes : ~ Unsaved(q)
    BY <1>3, <1>5
  <2>2. M = onDisk
    BY <2>1 DEF Sound, Held, Together, Running, Unsaved
  <2>3. \A q \in Processes : q # p => (Running(q)' <=> Running(q))
    BY <1>2 DEF Running
  <2>4. Together(M)'
    BY <1>2, <2>1, <2>2, <2>3 DEF Sound, Together
  <2>5. Covers(T, M)'
    BY <1>3, <2>1 DEF Sound, Covers
  <2>6. Held(M)'
    BY <1>3, <2>2 DEF Held
  <2>7. \A q \in Processes : proc'[q].job \in {"backup", "apply", "record"} => proc'[q] = proc[q]
    BY <1>2
  <2>8. \A q \in Processes : proc'[q].job = "backup" => proc'[q].owed \subseteq onDisk
    BY <2>1, <2>2, <2>7 DEF Sound, BackupsHold
  <2>9. BackupsHold(T, M)'
    BY <1>3, <2>1, <2>2, <2>7, <2>8 DEF Sound, BackupsHold, HasBackup
  <2> QED
    BY <2>4, <2>5, <2>6, <2>9 DEF Sound
<1> QED
  BY <1>2, <1>4, <1>5

\* A change is in the memory of the one that makes it, who is alone.
LEMMA ProcessChanges ==
    ASSUME NEW T, NEW M, ProcShape, History(T), ~ shared => Sound(T, M),
           NEW p \in Processes, NEW c \in Changes, Change(p, c)
    PROVE  ProcShape' /\ History(T)' /\ (~ shared' => Sound(T, M \cup {c})')
<1> DEFINE job == IF p \in Servers THEN proc[p].job ELSE "done"
           memory == proc[p].memory \cup {c}
<1> DEFINE row == [proc[p] EXCEPT !.memory = memory, !.job = job]
<1>1. proc' = [proc EXCEPT ![p] = row]
  BY DEF Change, ProcShape
<1> HIDE DEF job, memory
<1>2. /\ RowShape(row) /\ row.run = proc[p].run /\ row.memory = memory /\ row.job = job
      /\ row.entry = proc[p].entry /\ row.owed = proc[p].owed
  <2>1. PICK was : was = proc[p]
    OBVIOUS
  <2>2. RowShape(was)
    BY <2>1 DEF ProcShape
  <2>3. PICK new : new = [was EXCEPT !.memory = memory, !.job = job]
    OBVIOUS
  <2>4. /\ RowShape(new) /\ new.run = was.run /\ new.memory = memory /\ new.job = job
        /\ new.entry = was.entry /\ new.owed = was.owed
    BY <2>2, <2>3 DEF RowShape
  <2>5. row = new
    BY <2>1, <2>3
  <2> QED
    BY <2>1, <2>4, <2>5
<1> HIDE DEF row
<1>3. /\ ProcShape'
      /\ \A q \in Processes : q # p => proc'[q] = proc[q]
      /\ proc'[p].run = proc[p].run /\ proc'[p].memory = memory /\ proc'[p].job = job
      /\ proc'[p].entry = proc[p].entry /\ proc'[p].owed = proc[p].owed
  BY <1>1, <1>2, OneProcess
<1>4. /\ UNCHANGED <<onDisk, updates>> /\ Running(p) /\ requested' = requested \cup {c}
      /\ shared' = (shared \/ ~ ByItself(p) \/ proc[p].run = "ending" \/ proc[p].job = "hup")
      /\ job \in {proc[p].job, "done"}
  BY DEF Change, job
<1>5. History(T)'
  BY <1>3, <1>4 DEF History
<1>6. ASSUME ~ shared' PROVE Sound(T, M \cup {c})'
  <2>1. Sound(T, M) /\ ByItself(p) /\ proc[p].run = "up" /\ proc[p].job # "hup"
    BY <1>4, <1>6 DEF Running
  <2>2. memory = M \cup {c}
    BY <1>4, <2>1 DEF Sound, Together, memory
  <2>3. \A q \in Processes : q # p => ~ Running(q)'
    BY <1>3, <2>1 DEF ByItself, Running
  <2>4. Together(M \cup {c})'
    BY <1>3, <2>2, <2>3 DEF Together
  <2>5. Covers(T, M \cup {c})'
    BY <1>4, <2>1 DEF Sound, Covers
  <2>6. Held(M \cup {c})'
    BY <1>3, <1>4, <2>1 DEF Held
  <2>7. ASSUME NEW q \in Processes, proc'[q].job = "backup"
        PROVE  proc'[q].owed \subseteq onDisk /\ proc'[q].owed \subseteq M
    <3>1. q = p
      BY <1>5, <2>3, <2>7 DEF History, Running
    <3>2. proc[p].job = "backup" /\ proc'[q].owed = proc[p].owed
      BY <1>3, <1>4, <2>7, <3>1
    <3> QED
      BY <2>1, <3>2 DEF Sound, BackupsHold
  <2>8. ASSUME NEW q \in Processes, proc'[q].job \in {"apply", "record"},
               HasBackup(proc'[q].entry)
        PROVE  /\ proc'[q].entry.owed \subseteq proc'[q].entry.data.rows
               /\ proc'[q].entry.data.rows \subseteq M
    <3>1. proc'[q].entry = proc[q].entry /\ proc[q].job \in {"apply", "record"}
      BY <1>3, <1>4, <2>8
    <3> QED
      BY <2>1, <2>8, <3>1 DEF Sound, BackupsHold
  <2>9. BackupsHold(T, M \cup {c})'
    BY <1>4, <2>1, <2>7, <2>8 DEF Sound, BackupsHold, HasBackup
  <2> QED
    BY <2>4, <2>5, <2>6, <2>9 DEF Sound
<1> QED
  BY <1>3, <1>5, <1>6

\* The entry of an update is recorded.
LEMMA UpdateIsRecorded ==
    ASSUME NEW T, NEW M, ProcShape, History(T), ~ shared => Sound(T, M),
           NEW p \in Processes, RecordUpdate(p), NEW e, e = proc[p].entry
    PROVE  ProcShape' /\ History(T \cup {e})' /\ (~ shared' => Sound(T \cup {e}, M)')
<1> DEFINE job == IF p \in Servers THEN "restart" ELSE "done"
<1>1. Goes(p, job)
  BY DEF RecordUpdate
<1>2. job \in {"restart", "done"}
  OBVIOUS
<1> HIDE DEF job
<1>4. /\ ProcShape'
      /\ \A q \in Processes : q # p => proc'[q] = proc[q]
      /\ proc'[p].run = proc[p].run /\ proc'[p].memory = proc[p].memory /\ proc'[p].job = job
  BY <1>1, GoesOn
<1>5. /\ UNCHANGED <<onDisk, requested, shared>> /\ updates' = Append(updates, e)
      /\ proc[p].run = "up" /\ proc[p].job = "record"
  BY DEF RecordUpdate, Working, NoHistoryChange
<1>6. \A s \in Seq(T) : s \in Seq(T \cup {e})
  OBVIOUS
<1>7. HasBackup(e) => e.data.updates \in Seq(T)
  BY <1>5 DEF History
<1>8. History(T \cup {e})'
  <2>1. updates' \in Seq(T \cup {e})
    BY <1>5, <1>6 DEF History
  <2>2. \A f \in T \cup {e} : HasBackup(f) => f.data.updates \in Seq(T \cup {e})
    BY <1>6, <1>7 DEF History
  <2>3. ASSUME NEW q \in Processes, proc'[q].job \in {"backup", "apply", "record"}
        PROVE  proc'[q] = proc[q]
    BY <1>2, <1>4, <2>3
  <2> QED
    BY <1>6, <2>1, <2>2, <2>3 DEF History, HasBackup
<1>9. ASSUME ~ shared PROVE Sound(T \cup {e}, M)'
  <2>1. Sound(T, M)
    BY <1>9
  <2>2. \A q \in Processes : Running(q)' <=> Running(q)
    BY <1>4 DEF Running
  <2>3. \A q \in Processes : ByItself(q)' <=> ByItself(q)
    BY <2>2 DEF ByItself
  <2>4. HasBackup(e) => e.data.rows \subseteq M /\ e.owed \subseteq e.data.rows
    BY <1>5, <2>1 DEF Sound, BackupsHold
  <2>5. Together(M)'
    BY <1>4, <2>1, <2>2 DEF Sound, Together
  <2>6. Covers(T \cup {e}, M)'
    BY <1>5, <2>1, <2>4 DEF Sound, Covers
  <2>7. Held(M)'
    BY <1>2, <1>4, <1>5 DEF Held
  <2>8. ASSUME NEW q \in Processes, proc'[q].job \in {"backup", "apply", "record"}
        PROVE  proc'[q] = proc[q]
    BY <1>2, <1>4, <2>8
  <2>9. BackupsHold(T \cup {e}, M)'
    BY <1>5, <2>1, <2>3, <2>4, <2>8 DEF Sound, BackupsHold, HasBackup
  <2> QED
    BY <2>5, <2>6, <2>7, <2>9 DEF Sound
<1> QED
  BY <1>4, <1>5, <1>8, <1>9

\* A save, of whatever files, puts a part of what p has where it was missing.
LEMMA SavesAdd ==
    ASSUME NEW T, NEW M, ~ shared => Sound(T, M), NEW p \in Processes, NEW files,
           proc[p].run \in {"up", "ending"}, onDisk' = Written(p, files)
    PROVE  ~ shared => /\ onDisk \subseteq onDisk' /\ onDisk' \subseteq M
                       /\ proc[p].memory = M
BY DEF Sound, Together, Covers, Running, Written

LEMMA ProcessSaves ==
    ASSUME NEW T, NEW M, ProcShape, History(T), ~ shared => Sound(T, M),
           NEW p \in Processes, NEW files, AutoSave(p, files)
    PROVE  ProcShape' /\ History(T)' /\ (~ shared' => Sound(T, M)')
<1>1. /\ UNCHANGED <<proc, updates, requested, shared>> /\ onDisk' = Written(p, files)
      /\ proc[p].run = "up"
  BY DEF AutoSave, NoHistoryChange
<1>2. ~ shared => onDisk \subseteq onDisk' /\ onDisk' \subseteq M
  BY <1>1, SavesAdd DEF Running
<1>3. ProcShape'
  BY <1>1 DEF ProcShape
<1>4. proc[p].job = "backup" /\ ~ shared =>
         /\ proc[p].owed \subseteq M /\ proc[p].owed \cap requested \subseteq onDisk
         /\ proc[p].owed \subseteq onDisk \/ ~ ByItself(p)
  BY DEF Sound, BackupsHold
<1>5. proc[p].job \in {"apply", "record"} =>
         /\ EntryShape(proc[p].entry)
         /\ HasBackup(proc[p].entry) =>
               /\ proc[p].entry.data.updates \in Seq(T)
               /\ ~ shared => /\ proc[p].entry.owed \subseteq proc[p].entry.data.rows
                              /\ proc[p].entry.data.rows \subseteq M
  BY DEF History, Sound, BackupsHold
<1>6. /\ \A q \in Processes : q # p => proc'[q] = proc[q]
      /\ proc'[p].run = "up" /\ proc'[p].memory = proc[p].memory
      /\ proc'[p].job = proc[p].job /\ proc'[p].entry = proc[p].entry
      /\ proc'[p].owed = proc[p].owed
  BY <1>1
<1>7. History(T)' /\ (~ shared' => Sound(T, M)')
  <2> DEFINE j == proc[p].job
             e == proc[p].entry
             o == proc[p].owed
  <2>1. /\ j = "backup" => (~ shared' => /\ o \subseteq M /\ o \cap requested \subseteq onDisk'
                                         /\ o \subseteq onDisk' \/ ~ ByItself(p))
        /\ j \in {"apply", "record"} =>
               /\ EntryShape(e)
               /\ HasBackup(e) => /\ e.data.updates \in Seq(T)
                                  /\ ~ shared' => /\ e.owed \subseteq e.data.rows
                                                  /\ e.data.rows \subseteq M
    BY <1>1, <1>2, <1>4, <1>5
  <2> HIDE DEF j, e, o
  <2> QED
    BY <1>1, <1>2, <1>6, <2>1, StepOfUpdate DEF j, e, o
<1> QED
  BY <1>3, <1>7

\* The save before an update, which may fail.
LEMMA UpdateStarts ==
    ASSUME NEW T, NEW M, ProcShape, History(T), ~ shared => Sound(T, M),
           NEW p \in Processes, NEW files, UpdatesApply(p, files)
    PROVE  ProcShape' /\ History(T)' /\ (~ shared' => Sound(T, M)')
<1> DEFINE owed == proc[p].memory \cap files
           row == [proc[p] EXCEPT !.job = "backup", !.owed = owed]
<1>1. /\ UNCHANGED <<updates, requested, shared>> /\ proc[p].run = "up"
      /\ onDisk' = Written(p, files)
      /\ proc' = [proc EXCEPT ![p] = row]
  BY DEF UpdatesApply, Working, NoHistoryChange, ProcShape
<1>2. ~ shared => /\ onDisk \subseteq onDisk' /\ onDisk' \subseteq M
                  /\ owed \subseteq onDisk' /\ owed \subseteq M
  <2>1. owed \subseteq onDisk'
    BY <1>1 DEF Written
  <2> HIDE DEF owed
  <2> QED
    BY <1>1, <2>1, SavesAdd
<1> HIDE DEF owed
<1>3. /\ RowShape(row) /\ row.run = proc[p].run /\ row.memory = proc[p].memory
      /\ row.job = "backup" /\ row.entry = proc[p].entry /\ row.owed = owed
  <2>1. PICK was : was = proc[p]
    OBVIOUS
  <2>2. RowShape(was)
    BY <2>1 DEF ProcShape
  <2>3. PICK new : new = [was EXCEPT !.job = "backup", !.owed = owed]
    OBVIOUS
  <2>4. /\ RowShape(new) /\ new.run = was.run /\ new.memory = was.memory /\ new.job = "backup"
        /\ new.entry = was.entry /\ new.owed = owed
    BY <2>2, <2>3 DEF RowShape
  <2> QED
    BY <2>1, <2>3, <2>4
<1> HIDE DEF row
<1>4. /\ ProcShape'
      /\ \A q \in Processes : q # p => proc'[q] = proc[q]
      /\ proc'[p] = row
  BY <1>1, <1>3, OneProcess
<1> QED
  BY <1>1, <1>2, <1>3, <1>4, StepOfUpdate

\* The backups: of the code, of the data on disk and the list of updates there.
LEMMA UpdateIsBackedUp ==
    ASSUME NEW T, NEW M, ProcShape, History(T), ~ shared => Sound(T, M),
           NEW p \in Processes, NEW ofCode \in BOOLEAN, NEW ofData \in BOOLEAN,
           BackUp(p, ofCode, ofData)
    PROVE  ProcShape' /\ History(T)' /\ (~ shared' => Sound(T, M)')
<1> DEFINE snapshot == [rows |-> onDisk, updates |-> updates]
           entry == [from |-> proc[p].version, code |-> IF ofCode THEN code ELSE NoBackup,
                     data |-> IF ofData THEN snapshot ELSE NoBackup,
                     owed |-> proc[p].owed \cap requested, to |-> NoBackup]
           row == [proc[p] EXCEPT !.job = "apply", !.entry = entry]
<1>1. /\ UNCHANGED <<onDisk, updates, requested, shared>> /\ proc[p].run = "up"
      /\ proc[p].job = "backup" /\ proc' = [proc EXCEPT ![p] = row]
  BY DEF BackUp, Working, NoHistoryChange, ProcShape
<1>2. EntryShape(entry) /\ entry.owed = proc[p].owed \cap requested
      /\ (HasBackup(entry) => entry.data.rows = onDisk /\ entry.data.updates = updates)
  BY DEF EntryShape, HasBackup
<1> HIDE DEF entry
<1>3. /\ RowShape(row) /\ row.run = proc[p].run /\ row.memory = proc[p].memory
      /\ row.job = "apply" /\ row.entry = entry /\ row.owed = proc[p].owed
  <2>1. PICK was : was = proc[p]
    OBVIOUS
  <2>2. RowShape(was)
    BY <2>1 DEF ProcShape
  <2>3. PICK new : new = [was EXCEPT !.job = "apply", !.entry = entry]
    OBVIOUS
  <2>4. /\ RowShape(new) /\ new.run = was.run /\ new.memory = was.memory /\ new.job = "apply"
        /\ new.entry = entry /\ new.owed = was.owed
    BY <2>2, <2>3 DEF RowShape
  <2> QED
    BY <2>1, <2>3, <2>4
<1> HIDE DEF row
<1>4. /\ ProcShape'
      /\ \A q \in Processes : q # p => proc'[q] = proc[q]
      /\ proc'[p] = row
  BY <1>1, <1>3, OneProcess
<1>5. updates \in Seq(T)
  BY DEF History
<1>6. ~ shared => proc[p].owed \cap requested \subseteq onDisk /\ onDisk \subseteq M
  BY <1>1 DEF Sound, BackupsHold, Covers
<1>7. HasBackup(entry) =>
         /\ entry.data.updates \in Seq(T)
         /\ ~ shared' => entry.owed \subseteq entry.data.rows /\ entry.data.rows \subseteq M
  BY <1>1, <1>2, <1>5, <1>6
<1>8. ~ shared' => ~ shared /\ onDisk \subseteq onDisk' /\ onDisk' \subseteq M
  BY <1>1, <1>6
<1>9. /\ proc'[p].run = "up" /\ proc'[p].memory = proc[p].memory /\ proc'[p].job = "apply"
      /\ proc'[p].entry = entry /\ proc'[p].owed = proc[p].owed
  BY <1>1, <1>3, <1>4
<1> HIDE DEF HasBackup
<1> QED
  BY <1>1, <1>2, <1>4, <1>7, <1>8, <1>9, StepOfUpdate, ZenonT(60)

\* The code is replaced: the entry says by what.
LEMMA CodeIsReplaced ==
    ASSUME NEW T, NEW M, ProcShape, History(T), ~ shared => Sound(T, M),
           NEW p \in Processes, NEW v, Working(p, "apply"), NoHistoryChange,
           UNCHANGED <<onDisk, updates>>,
           proc' = [proc EXCEPT ![p].job = "record", ![p].entry.to = v]
    PROVE  ProcShape' /\ History(T)' /\ (~ shared' => Sound(T, M)')
<1> DEFINE entry == [proc[p].entry EXCEPT !.to = v]
           row == [proc[p] EXCEPT !.job = "record", !.entry = entry]
<1>1. /\ UNCHANGED <<requested, shared>> /\ proc[p].run = "up" /\ proc[p].job = "apply"
  BY DEF Working, NoHistoryChange
<1>2. proc' = [proc EXCEPT ![p] = row]
  BY DEF ProcShape, RowShape
<1>3. EntryShape(entry) /\ entry.owed = proc[p].entry.owed /\ entry.data = proc[p].entry.data
  <2>1. PICK was : was = proc[p].entry
    OBVIOUS
  <2>2. EntryShape(was)
    BY <1>1, <2>1 DEF History
  <2>3. PICK new : new = [was EXCEPT !.to = v]
    OBVIOUS
  <2>4. EntryShape(new) /\ new.owed = was.owed /\ new.data = was.data
    BY <2>2, <2>3 DEF EntryShape
  <2> QED
    BY <2>1, <2>3, <2>4
<1> HIDE DEF entry
<1>4. /\ RowShape(row) /\ row.run = proc[p].run /\ row.memory = proc[p].memory
      /\ row.job = "record" /\ row.entry = entry /\ row.owed = proc[p].owed
  <2>1. PICK was : was = proc[p]
    OBVIOUS
  <2>2. RowShape(was)
    BY <2>1 DEF ProcShape
  <2>3. PICK new : new = [was EXCEPT !.job = "record", !.entry = entry]
    OBVIOUS
  <2>4. /\ RowShape(new) /\ new.run = was.run /\ new.memory = was.memory /\ new.job = "record"
        /\ new.entry = entry /\ new.owed = was.owed
    BY <2>2, <2>3 DEF RowShape
  <2> QED
    BY <2>1, <2>3, <2>4
<1> HIDE DEF row
<1>5. /\ ProcShape'
      /\ \A q \in Processes : q # p => proc'[q] = proc[q]
      /\ proc'[p] = row
  BY <1>2, <1>4, OneProcess
<1>6. HasBackup(entry) =>
         /\ entry.data.updates \in Seq(T)
         /\ ~ shared => entry.owed \subseteq entry.data.rows /\ entry.data.rows \subseteq M
  BY <1>1, <1>3 DEF History, Sound, BackupsHold, HasBackup
<1>7. ~ shared' => ~ shared /\ onDisk \subseteq onDisk' /\ onDisk' \subseteq M
  BY <1>1 DEF Sound, Covers
<1> QED
  BY <1>1, <1>3, <1>4, <1>5, <1>6, <1>7, StepOfUpdate

\* The worker is asked to leave, its memory on disk or with somebody else.
LEMMA WorkerHangsUp ==
    ASSUME NEW T, NEW M, ProcShape, History(T), ~ shared => Sound(T, M),
           NEW p \in Processes, HangUp(p)
    PROVE  ProcShape' /\ History(T)' /\ (~ shared' => Sound(T, M)')
<1> DEFINE row == [proc[p] EXCEPT !.run = "ending", !.job = "none"]
<1>1. /\ UNCHANGED <<onDisk, updates, requested, shared>> /\ proc[p].run = "up"
      /\ proc[p].job = "hup" /\ proc' = [proc EXCEPT ![p] = row]
  BY DEF HangUp, Working, NoHistoryChange, ProcShape
<1>2. /\ RowShape(row) /\ row.run = "ending" /\ row.memory = proc[p].memory
      /\ row.job = "none" /\ row.entry = proc[p].entry /\ row.owed = proc[p].owed
  <2>1. PICK was : was = proc[p]
    OBVIOUS
  <2>2. RowShape(was)
    BY <2>1 DEF ProcShape
  <2>3. PICK new : new = [was EXCEPT !.run = "ending", !.job = "none"]
    OBVIOUS
  <2>4. /\ RowShape(new) /\ new.run = "ending" /\ new.memory = was.memory /\ new.job = "none"
        /\ new.entry = was.entry /\ new.owed = was.owed
    BY <2>2, <2>3 DEF RowShape
  <2> QED
    BY <2>1, <2>3, <2>4
<1> HIDE DEF row
<1>3. /\ ProcShape'
      /\ \A q \in Processes : q # p => proc'[q] = proc[q]
      /\ proc'[p] = row
  BY <1>1, <1>2, OneProcess
<1>4. ~ shared' => ~ shared /\ onDisk \subseteq onDisk' /\ onDisk' \subseteq M
  BY <1>1 DEF Sound, Covers
<1> QED
  BY <1>1, <1>2, <1>3, <1>4, StepOfUpdate

\* The job goes on, or ends, with what is on disk or after a save.
LEMMA JobGoesOn ==
    ASSUME NEW T, NEW M, ProcShape, History(T), ~ shared => Sound(T, M),
           NEW p \in Processes, NEW j \in {"backup", "none", "done", "restart", "hup"}, Goes(p, j),
           proc[p].run = "up", UNCHANGED <<updates, requested>>,
           ~ shared' => /\ ~ shared
                        /\ onDisk' = onDisk \/ \E files : onDisk' = Written(p, files),
           ~ shared' /\ j = "hup" => onDisk' = proc[p].memory
    PROVE  ProcShape' /\ History(T)' /\ (~ shared' => Sound(T, M)')
<1>1. /\ ProcShape'
      /\ \A q \in Processes : q # p => proc'[q] = proc[q]
      /\ proc'[p].run = "up" /\ proc'[p].memory = proc[p].memory
      /\ proc'[p].job = j /\ proc'[p].entry = NoBackup /\ proc'[p].owed = {}
  BY GoesOn
<1>2. ~ shared' => proc[p].memory = M /\ onDisk \subseteq M
  BY DEF Sound, Together, Covers, Running
<1>3. ~ shared' => onDisk \subseteq onDisk' /\ onDisk' \subseteq M
  <2>1. CASE onDisk' = onDisk
    BY <1>2, <2>1
  <2>2. CASE onDisk' # onDisk /\ ~ shared'
    <3>1. PICK files : onDisk' = Written(p, files)
      BY <2>2
    <3> QED
      BY <2>2, <3>1, SavesAdd
  <2> QED
    BY <2>1, <2>2
<1>4. {} \subseteq M /\ {} \cap requested \subseteq onDisk' /\ {} \subseteq onDisk'
  OBVIOUS
<1>5. ~ shared' => ~ shared /\ (j # "hup" \/ onDisk' = M)
  BY <1>2
<1> QED
  BY <1>1, <1>3, <1>4, <1>5, StepOfUpdate, ZenonT(60)

\* The page or the command rolls back.
LEMMA ProcessRollsBack ==
    ASSUME NEW T, NEW M, ProcShape, History(T), ~ shared => Sound(T, M),
           NEW p \in Processes, NEW n \in DOMAIN updates,
           UpdatesRollback(p, n) \/ UpdateRollbackCmd(p, n)
    PROVE  ProcShape' /\ History(T)' /\ (~ shared' => Sound(T, M)')
<1>1. PICK j \in {"restart", "done"} : Goes(p, j)
  BY DEF UpdatesRollback, UpdateRollbackCmd
<1>2. /\ proc[p].run = "up" /\ proc[p].job = "none" /\ UNCHANGED shared
      /\ Restores(updates[n])
  BY DEF UpdatesRollback, UpdateRollbackCmd, Working
<1>3. updates[n] \in T
  BY DEF History
<1>4. ASSUME NEW files, RestoreData(updates[n], files)
      PROVE  ProcShape' /\ History(T)' /\ (~ shared' => Sound(T, M)')
  <2>1. PICK e \in T : RestoreData(e, files)
    BY <1>3, <1>4
  <2>2. /\ ProcShape'
        /\ \A q \in Processes : q # p => proc'[q] = proc[q]
        /\ proc'[p].run = "up" /\ proc'[p].memory = proc[p].memory /\ proc'[p].job = j
    BY <1>1, <1>2, GoesOn
  <2> QED
    BY <1>2, <2>1, <2>2, StepOfRollback
<1>5. CASE UNCHANGED <<onDisk, updates, requested>>
  BY <1>1, <1>2, <1>5, JobGoesOn
<1> QED
  BY <1>2, <1>4, <1>5 DEF Restores

LEMMA UpdaterInvIsKept == UpdaterInv /\ [UpdaterNext]_updaterVars => UpdaterInv'
<1> SUFFICES ASSUME UpdaterInv, [UpdaterNext]_updaterVars PROVE UpdaterInv'
  OBVIOUS
<1>1. PICK T : History(T) /\ (~ shared => \E M : Sound(T, M))
  BY DEF UpdaterInv
<1>2. PICK M : ~ shared => Sound(T, M)
  BY <1>1
<1> USE <1>1, <1>2
<1>3. ProcShape
  BY DEF UpdaterInv
<1> USE <1>3
<1>4. ASSUME ProcShape' /\ History(T)' /\ (~ shared' => Sound(T, M)') PROVE UpdaterInv'
  BY <1>4 DEF UpdaterInv
<1>5. ASSUME NEW p \in Processes, StartProcess(p) PROVE UpdaterInv'
  BY <1>4, <1>5, ProcessStarts
<1>6. ASSUME NEW p \in Processes, NEW files, AutoSave(p, files) PROVE UpdaterInv'
  BY <1>4, <1>6, ProcessSaves
<1>7. ASSUME NEW p \in Processes, NEW files, EndProcess(p, files) PROVE UpdaterInv'
  <2>1. /\ Running(p) /\ proc' = [proc EXCEPT ![p] = Gone] /\ UNCHANGED <<updates, requested>>
        /\ ~ shared' => ~ shared /\ onDisk' = proc[p].memory
    BY <1>7 DEF EndProcess, Running
  <2> QED
    BY <1>4, <2>1, ProcessLeaves
<1>8. ASSUME NEW p \in Processes, KillServer(p) PROVE UpdaterInv'
  <2>1. /\ Running(p) /\ proc' = [proc EXCEPT ![p] = Gone] /\ UNCHANGED <<onDisk, updates, requested>>
        /\ ~ shared' => ~ shared /\ proc[p].memory \subseteq onDisk
    BY <1>8 DEF KillServer
  <2> QED
    BY <1>4, <2>1, ProcessLeaves
<1>9. ASSUME NEW p \in Processes, NEW c \in Changes, Change(p, c) PROVE UpdaterInv'
  <2>1. ProcShape' /\ History(T)' /\ (~ shared' => Sound(T, M \cup {c})')
    BY <1>9, ProcessChanges
  <2> QED
    BY <2>1 DEF UpdaterInv
<1>10. ASSUME NEW p \in Processes, NEW files, UpdatesApply(p, files) PROVE UpdaterInv'
  BY <1>4, <1>10, UpdateStarts
<1>11. ASSUME NEW p \in Processes, NEW files, Flush(p, files) PROVE UpdaterInv'
  <2>1. /\ proc[p].run = "up" /\ Goes(p, "hup") /\ UNCHANGED <<updates, requested>>
        /\ onDisk' = Written(p, files) /\ (~ shared' => ~ shared /\ onDisk' = proc[p].memory)
    BY <1>11 DEF Flush, Working
  <2> QED
    BY <1>4, <2>1, JobGoesOn
<1>12. ASSUME NEW p \in Processes, UpdateCmd(p) PROVE UpdaterInv'
  <2>1. /\ proc[p].run = "up" /\ Goes(p, "backup") /\ UNCHANGED <<onDisk, updates, requested, shared>>
    BY <1>12 DEF UpdateCmd, Working, NoHistoryChange
  <2> QED
    BY <1>4, <2>1, JobGoesOn
<1>13. ASSUME NEW p \in Processes, NEW ofCode \in BOOLEAN, NEW ofData \in BOOLEAN,
              BackUp(p, ofCode, ofData)
       PROVE UpdaterInv'
  BY <1>4, <1>13, UpdateIsBackedUp
<1>14. ASSUME NEW p \in Processes, NEW v \in Releases, ApplyZip(p, v) PROVE UpdaterInv'
  <2>1. CASE proc' = [proc EXCEPT ![p].job = "record", ![p].entry.to = v]
    <3>1. Working(p, "apply") /\ NoHistoryChange /\ UNCHANGED <<onDisk, updates>>
      BY <1>14 DEF ApplyZip
    <3> QED
      BY <1>4, <2>1, <3>1, CodeIsReplaced
  <2>2. CASE Goes(p, After(p))
    <3>1. /\ proc[p].run = "up" /\ UNCHANGED <<onDisk, updates, requested, shared>>
          /\ After(p) \in {"none", "done"}
      BY <1>14 DEF ApplyZip, Working, NoHistoryChange, After
    <3> QED
      BY <1>4, <2>2, <3>1, JobGoesOn
  <2> QED
    BY <1>14, <2>1, <2>2 DEF ApplyZip
<1>15. ASSUME NEW p \in Processes, NEW v \in Releases, NEW made \in BOOLEAN, CheckOut(p, v, made)
       PROVE UpdaterInv'
  <2>1. /\ Working(p, "apply") /\ NoHistoryChange /\ UNCHANGED <<onDisk, updates>>
        /\ proc' = [proc EXCEPT ![p].job = "record", ![p].entry.to = v]
    BY <1>15 DEF CheckOut
  <2> QED
    BY <1>4, <2>1, CodeIsReplaced
<1>16. ASSUME NEW p \in Processes, InstallFails(p) PROVE UpdaterInv'
  <2>1. /\ proc[p].run = "up" /\ UNCHANGED <<onDisk, updates, requested, shared>>
        /\ Goes(p, After(p)) /\ After(p) \in {"none", "done"}
    BY <1>16 DEF InstallFails, Working, NoHistoryChange, After
  <2> QED
    BY <1>4, <2>1, JobGoesOn
<1>17. ASSUME NEW p \in Processes, RecordUpdate(p) PROVE UpdaterInv'
  <2>1. PICK e : e = proc[p].entry
    OBVIOUS
  <2>2. ProcShape' /\ History(T \cup {e})' /\ (~ shared' => Sound(T \cup {e}, M)')
    BY <1>17, <2>1, UpdateIsRecorded
  <2> QED
    BY <2>2 DEF UpdaterInv
<1>18. ASSUME NEW p \in Processes, NEW n \in DOMAIN updates,
              UpdatesRollback(p, n) \/ UpdateRollbackCmd(p, n)
       PROVE UpdaterInv'
  BY <1>4, <1>18, ProcessRollsBack
<1>19. ASSUME NEW p \in Processes, HangUp(p) PROVE UpdaterInv'
  BY <1>4, <1>19, WorkerHangsUp
<1>20. CASE UNCHANGED updaterVars
  BY <1>4, <1>20
  DEF updaterVars, ProcShape, History, Sound, Together, Covers, Held, BackupsHold, Running, ByItself
<1> QED
  BY <1>5, <1>6, <1>7, <1>8, <1>9, <1>10, <1>11, <1>12, <1>13, <1>14, <1>15, <1>16, <1>17,
     <1>18, <1>19, <1>20
  DEF UpdaterNext, UpdateStep

LEMMA UpdaterInvAlways == UpdaterSpec => []UpdaterInv
<1>1. UpdaterInit => UpdaterInv
  <2> SUFFICES ASSUME UpdaterInit PROVE UpdaterInv
    OBVIOUS
  <2>1. \A p \in Processes : proc[p] = NotStarted
    BY DEF UpdaterInit
  <2>2. RowShape(NotStarted) /\ NotStarted.run = "new" /\ NotStarted.job = "none"
    BY DEF RowShape, NotStarted
  <2>3. ProcShape
    BY <2>1, <2>2 DEF UpdaterInit, ProcShape
  <2>4. History({})
    BY <2>1, <2>2, EmptySeq DEF UpdaterInit, History
  <2>5. Sound({}, {})
    BY <2>1, <2>2
    DEF UpdaterInit, Sound, Together, Covers, Held, BackupsHold, Running
  <2> QED
    BY <2>3, <2>4, <2>5 DEF UpdaterInv
<1> QED
  BY <1>1, UpdaterInvIsKept, PTL DEF UpdaterSpec

\* A worker that takes over has everything that was answered and not rolled back,
\* for any number of processes, changes, updates and rollbacks in any order.
THEOREM NothingIsLostInHandover == UpdaterSpec => []HandoverIsComplete
<1>1. UpdaterInv => HandoverIsComplete
  <2> SUFFICES ASSUME UpdaterInv, ~ shared, NEW p \in Processes, Running(p)
               PROVE  requested \subseteq proc[p].memory
    BY DEF HandoverIsComplete
  <2>1. PICK T, M : Sound(T, M)
    BY DEF UpdaterInv
  <2> QED
    BY <2>1 DEF Sound, Together, Covers
<1> QED
  BY <1>1, UpdaterInvAlways, PTL

\* The backup of the data that an update keeps has what was in memory when the
\* owner started it, also when others save, start, leave and roll back meanwhile.
THEOREM BackupsAreComplete == UpdaterSpec => []BackupIsComplete
<1>1. UpdaterInv => BackupIsComplete
  <2> SUFFICES ASSUME UpdaterInv, ~ shared, NEW n \in DOMAIN updates,
                      HasBackup(updates[n])
               PROVE  updates[n].owed \subseteq updates[n].data.rows
    BY DEF BackupIsComplete, HasBackup
  <2>1. PICK T : History(T) /\ \E M : Sound(T, M)
    BY DEF UpdaterInv
  <2>2. updates[n] \in T
    BY <2>1 DEF History
  <2> QED
    BY <2>1, <2>2 DEF Sound, BackupsHold
<1> QED
  BY <1>1, UpdaterInvAlways, PTL

-------------------------------------------------------------------------------
(* Sums over finite sets.  A claim about all subsets is shown of a smallest one  *)
(* that would refute it.                                                        *)

\* g adds up f over the subsets of S, in the order in which the library's sum does.
SumsUp(g, f, S) ==
    g = [s \in SUBSET S |-> IF s = {} THEN 0
                            ELSE LET x == CHOOSE x \in s : TRUE
                                 IN  f[x] + g[s \ {x}]]

LEMMA SumByDefinition ==
    ASSUME NEW f, NEW S
    PROVE  SumFunctionOnSet(f, S) = (CHOOSE g : SumsUp(g, f, S))[S]
BY Zenon DEF SumFunctionOnSet, FoldFunctionOnSet, MapThenFoldSet, SumsUp

LEMMA SmallestSubset ==
    ASSUME NEW S, IsFiniteSet(S), NEW T, T \subseteq SUBSET S, T # {}
    PROVE  \E s \in T : \A u \in T : u \subseteq s => u = s
<1>1. IsWellFoundedOn(StrictSubsetOrdering(S), SUBSET S)
  BY FS_StrictSubsetOrderingWellFounded, FS_FiniteSubsetsOfFinite
<1>2. PICK s \in T : \A u \in T : <<u, s>> \notin StrictSubsetOrdering(S)
  BY <1>1, WFMin
<1>3. ASSUME NEW u \in T, u \subseteq s, u # s PROVE FALSE
  <2>1. <<u, s>> \in (SUBSET S) \X (SUBSET S)
    OBVIOUS
  <2>2. <<u, s>> \in StrictSubsetOrdering(S)
    BY <2>1, <1>3 DEF StrictSubsetOrdering
  <2> QED
    BY <2>2, <1>2
<1> QED
  BY <1>3

\* The first element, and the equation that a sum satisfies.
FirstOf(s) == CHOOSE x \in s : TRUE

LEMMA FirstOfIsElement == \A s : s # {} => FirstOf(s) \in s
BY DEF FirstOf

LEMMA SumsUpEquation ==
    ASSUME NEW g, NEW f, NEW S, SumsUp(g, f, S)
    PROVE  \A s \in SUBSET S :
               g[s] = IF s = {} THEN 0 ELSE f[FirstOf(s)] + g[s \ {FirstOf(s)}]
BY DEF SumsUp, FirstOf

LEMMA SumsAgree ==
    ASSUME NEW f, NEW S, IsFiniteSet(S), NEW T \in SUBSET S,
           NEW g, NEW h, SumsUp(g, f, S), SumsUp(h, f, T)
    PROVE  \A s \in SUBSET T : g[s] = h[s]
<1> DEFINE Bad == {s \in SUBSET T : g[s] # h[s]}
<1>1. SUFFICES ASSUME Bad # {} PROVE FALSE
  OBVIOUS
<1>2. Bad \subseteq SUBSET S
  OBVIOUS
<1>3. PICK s \in Bad : \A u \in Bad : u \subseteq s => u = s
  <2> HIDE DEF Bad
  <2> QED
    BY <1>1, <1>2, SmallestSubset
<1>4. s # {}
  BY SumsUpEquation
<1>5. FirstOf(s) \in s
  BY <1>4, FirstOfIsElement
<1>6. s \ {FirstOf(s)} \notin Bad
  <2>1. s \ {FirstOf(s)} \subseteq s /\ s \ {FirstOf(s)} # s
    BY <1>5
  <2> HIDE DEF Bad
  <2> QED
    BY <1>3, <2>1
<1>7. g[s \ {FirstOf(s)}] = h[s \ {FirstOf(s)}]
  BY <1>6
<1>8. g[s] = f[FirstOf(s)] + g[s \ {FirstOf(s)}]
  BY <1>4, SumsUpEquation
<1>9. h[s] = f[FirstOf(s)] + h[s \ {FirstOf(s)}]
  BY <1>4, SumsUpEquation
<1> QED
  BY <1>7, <1>8, <1>9

LEMMA SumsExist ==
    ASSUME NEW f, NEW S, IsFiniteSet(S)
    PROVE  \A T \in SUBSET S : \E g : SumsUp(g, f, T)
<1> DEFINE Bad == {T \in SUBSET S : ~ \E g : SumsUp(g, f, T)}
<1>1. SUFFICES ASSUME Bad # {} PROVE FALSE
  OBVIOUS
<1>2. PICK T \in Bad : \A u \in Bad : u \subseteq T => u = T
  <2>1. Bad \subseteq SUBSET S
    OBVIOUS
  <2> HIDE DEF Bad
  <2> QED
    BY <1>1, <2>1, SmallestSubset
<1>3. \A u \in SUBSET T : u # T => \E g : SumsUp(g, f, u)
  BY <1>2
<1>4. IsFiniteSet(T)
  BY FS_Subset
<1> DEFINE gs(u) == CHOOSE g : SumsUp(g, f, u)
           x == FirstOf(T)
           G == [s \in SUBSET T |-> IF s = {} THEN 0
                                    ELSE IF s = T THEN f[x] + gs(T \ {x})[T \ {x}]
                                    ELSE gs(s)[s]]
<1>5. \A u \in SUBSET T : u # T => SumsUp(gs(u), f, u)
  BY <1>3
<1>6. ASSUME NEW s \in SUBSET T, s # {}
      PROVE  G[s] = f[FirstOf(s)] + G[s \ {FirstOf(s)}]
  <2>1. FirstOf(s) \in s
    BY <1>6, FirstOfIsElement
  <2> DEFINE r == s \ {FirstOf(s)}
  <2>2. r \in SUBSET T /\ r # T /\ r \in SUBSET s
    BY <2>1
  <2>3. SumsUp(gs(r), f, r)
    BY <2>2, <1>5
  <2>4. G[r] = gs(r)[r]
    <3>1. CASE r = {}
      <4>1. gs(r)[r] = 0
        <5> HIDE DEF gs
        <5> QED
          BY <2>3, <3>1, SumsUpEquation
      <4> QED
        BY <4>1, <3>1, <2>2
    <3>2. CASE r # {}
      BY <3>2, <2>2
    <3> QED
      BY <3>1, <3>2
  <2>5. CASE s = T
    BY <2>4, <2>5, <1>6
  <2>6. CASE s # T
    <3>1. SumsUp(gs(s), f, s) /\ IsFiniteSet(s)
      BY <1>5, <2>6, <1>4, FS_Subset
    <3>2. gs(s)[s] = f[FirstOf(s)] + gs(s)[r]
      <4> HIDE DEF gs
      <4> QED
        BY <3>1, <1>6, SumsUpEquation
    <3>3. gs(s)[r] = gs(r)[r]
      <4> HIDE DEF gs, r
      <4> QED
        BY <3>1, <2>2, <2>3, SumsAgree
    <3>4. G[s] = gs(s)[s]
      BY <1>6, <2>6
    <3> QED
      BY <3>2, <3>3, <3>4, <2>4
  <2> QED
    BY <2>5, <2>6
<1>7. G = [s \in SUBSET T |-> IF s = {} THEN 0 ELSE G[s]]
  OBVIOUS
<1>8. SumsUp(G, f, T)
  <2>1. ASSUME NEW s \in SUBSET T
        PROVE  G[s] = IF s = {} THEN 0 ELSE f[FirstOf(s)] + G[s \ {FirstOf(s)}]
    <3>1. s = {} => G[s] = 0
      OBVIOUS
    <3> HIDE DEF G
    <3> QED
      BY <1>6, <3>1
  <2>2. G = [s \in SUBSET T |-> G[s]]
    OBVIOUS
  <2> HIDE DEF G
  <2>3. G = [s \in SUBSET T |-> IF s = {} THEN 0 ELSE f[FirstOf(s)] + G[s \ {FirstOf(s)}]]
    BY <2>1, <2>2
  <2> QED
    BY <2>3, Zenon DEF SumsUp, FirstOf
<1> QED
  BY <1>2, <1>8

LEMMA SumsAreIntegers ==
    ASSUME NEW S, IsFiniteSet(S), NEW f \in [S -> Int], NEW g, SumsUp(g, f, S)
    PROVE  \A s \in SUBSET S : g[s] \in Int
<1>e. \A s \in SUBSET S :
          g[s] = IF s = {} THEN 0 ELSE f[FirstOf(s)] + g[s \ {FirstOf(s)}]
  BY SumsUpEquation
<1> DEFINE Bad == {s \in SUBSET S : g[s] \notin Int}
<1>1. SUFFICES ASSUME Bad # {} PROVE FALSE
  OBVIOUS
<1>2. PICK s \in Bad : \A u \in Bad : u \subseteq s => u = s
  <2>1. Bad \subseteq SUBSET S
    OBVIOUS
  <2> HIDE DEF Bad
  <2> QED
    BY <1>1, <2>1, SmallestSubset
<1>3. s # {}
  BY <1>e
<1>4. FirstOf(s) \in s
  BY <1>3, FirstOfIsElement
<1>5. s \ {FirstOf(s)} \notin Bad
  <2>1. s \ {FirstOf(s)} \subseteq s /\ s \ {FirstOf(s)} # s
    BY <1>4
  <2> HIDE DEF Bad
  <2> QED
    BY <1>2, <2>1
<1>6. g[s] = f[FirstOf(s)] + g[s \ {FirstOf(s)}]
  BY <1>3, <1>e
<1> QED
  BY <1>4, <1>5, <1>6

\* Any element may be taken first.
LEMMA SumTakesAny ==
    ASSUME NEW S, IsFiniteSet(S), NEW f \in [S -> Int], NEW g, SumsUp(g, f, S)
    PROVE  \A s \in SUBSET S : \A x \in s : g[s] = f[x] + g[s \ {x}]
<1>e. \A s \in SUBSET S :
          g[s] = IF s = {} THEN 0 ELSE f[FirstOf(s)] + g[s \ {FirstOf(s)}]
  BY SumsUpEquation
<1> DEFINE Bad == {s \in SUBSET S : \E x \in s : g[s] # f[x] + g[s \ {x}]}
<1>1. SUFFICES ASSUME Bad # {} PROVE FALSE
  OBVIOUS
<1>2. PICK s \in Bad : \A u \in Bad : u \subseteq s => u = s
  <2>1. Bad \subseteq SUBSET S
    OBVIOUS
  <2> HIDE DEF Bad
  <2> QED
    BY <1>1, <2>1, SmallestSubset
<1>3. PICK x \in s : g[s] # f[x] + g[s \ {x}]
  OBVIOUS
<1> DEFINE y == FirstOf(s)
<1>4. y \in s /\ g[s] = f[y] + g[s \ {y}]
  BY <1>3, <1>e, FirstOfIsElement
<1>5. x # y
  BY <1>3, <1>4
<1>6. s \ {x} \notin Bad /\ s \ {y} \notin Bad
  <2>1. s \ {x} \subseteq s /\ s \ {x} # s
    OBVIOUS
  <2>2. s \ {y} \subseteq s /\ s \ {y} # s
    BY <1>4
  <2> HIDE DEF Bad
  <2> QED
    BY <1>2, <2>1, <2>2
<1>7. g[s \ {x}] = f[y] + g[s \ {x, y}]
  <2>1. s \ {x} \in SUBSET S /\ y \in s \ {x}
    BY <1>4, <1>5
  <2>2. (s \ {x}) \ {y} = s \ {x, y}
    OBVIOUS
  <2> QED
    BY <1>6, <2>1, <2>2
<1>8. g[s \ {y}] = f[x] + g[s \ {x, y}]
  <2>1. s \ {y} \in SUBSET S /\ x \in s \ {y}
    BY <1>5
  <2>2. (s \ {y}) \ {x} = s \ {x, y}
    OBVIOUS
  <2> QED
    BY <1>6, <2>1, <2>2
<1>9. /\ f[x] \in Int /\ f[y] \in Int /\ g[s \ {x, y}] \in Int
  BY <1>4, SumsAreIntegers
<1> QED
  BY <1>3, <1>4, <1>7, <1>8, <1>9

LEMMA SumUses ==
    ASSUME NEW S, IsFiniteSet(S), NEW T \in SUBSET S, NEW f, NEW h,
           \A y \in T : f[y] = h[y],
           NEW g, SumsUp(g, f, S), NEW k, SumsUp(k, h, S)
    PROVE  \A s \in SUBSET T : g[s] = k[s]
<1> DEFINE Bad == {s \in SUBSET T : g[s] # k[s]}
<1>1. SUFFICES ASSUME Bad # {} PROVE FALSE
  OBVIOUS
<1>2. PICK s \in Bad : \A u \in Bad : u \subseteq s => u = s
  <2>1. Bad \subseteq SUBSET S
    OBVIOUS
  <2> HIDE DEF Bad
  <2> QED
    BY <1>1, <2>1, SmallestSubset
<1>3. s # {} /\ s \in SUBSET S
  BY SumsUpEquation
<1>4. FirstOf(s) \in s
  BY <1>3, FirstOfIsElement
<1>5. s \ {FirstOf(s)} \notin Bad
  <2>1. s \ {FirstOf(s)} \subseteq s /\ s \ {FirstOf(s)} # s
    BY <1>4
  <2> HIDE DEF Bad
  <2> QED
    BY <1>2, <2>1
<1>6. /\ g[s] = f[FirstOf(s)] + g[s \ {FirstOf(s)}]
      /\ k[s] = h[FirstOf(s)] + k[s \ {FirstOf(s)}]
  BY <1>3, SumsUpEquation
<1>7. f[FirstOf(s)] = h[FirstOf(s)]
  BY <1>4
<1> QED
  BY <1>5, <1>6, <1>7

LEMMA SumIsWitnessed ==
    ASSUME NEW S, IsFiniteSet(S), NEW f
    PROVE  \E g : SumsUp(g, f, S) /\ SumFunctionOnSet(f, S) = g[S]
<1>1. \E g : SumsUp(g, f, S)
  BY SumsExist
<1> DEFINE g == CHOOSE g : SumsUp(g, f, S)
<1>2. SumsUp(g, f, S)
  BY <1>1
<1>3. SumFunctionOnSet(f, S) = g[S]
  BY SumByDefinition
<1> HIDE DEF g
<1> QED
  BY <1>2, <1>3

\* A sum is an integer, it changes as one of its terms does, and it is the same for
\* functions that agree.
LEMMA SumIsInteger ==
    ASSUME NEW S, IsFiniteSet(S), NEW f \in [S -> Int]
    PROVE  SumFunctionOnSet(f, S) \in Int
BY SumIsWitnessed, SumsAreIntegers

LEMMA SumOfZeros ==
    ASSUME NEW S, IsFiniteSet(S), NEW f \in [S -> Int], \A x \in S : f[x] = 0
    PROVE  SumFunctionOnSet(f, S) = 0
<1>1. PICK g : SumsUp(g, f, S) /\ SumFunctionOnSet(f, S) = g[S]
  BY SumIsWitnessed
<1>e. \A s \in SUBSET S :
          g[s] = IF s = {} THEN 0 ELSE f[FirstOf(s)] + g[s \ {FirstOf(s)}]
  BY <1>1, SumsUpEquation
<1> DEFINE Bad == {s \in SUBSET S : g[s] # 0}
<1>2. Bad = {}
  <2>1. SUFFICES ASSUME Bad # {} PROVE FALSE
    OBVIOUS
  <2>2. PICK s \in Bad : \A u \in Bad : u \subseteq s => u = s
    <3>1. Bad \subseteq SUBSET S
      OBVIOUS
    <3> HIDE DEF Bad
    <3> QED
      BY <2>1, <3>1, SmallestSubset
  <2>3. s # {}
    BY <1>e
  <2>4. FirstOf(s) \in s
    BY <2>3, FirstOfIsElement
  <2>5. s \ {FirstOf(s)} \notin Bad
    <3>1. s \ {FirstOf(s)} \subseteq s /\ s \ {FirstOf(s)} # s
      BY <2>4
    <3> HIDE DEF Bad
    <3> QED
      BY <2>2, <3>1
  <2>6. g[s] = f[FirstOf(s)] + g[s \ {FirstOf(s)}]
    BY <1>e, <2>3
  <2> QED
    BY <2>4, <2>5, <2>6
<1> QED
  BY <1>1, <1>2

LEMMA SumChanges ==
    ASSUME NEW S, IsFiniteSet(S), NEW f \in [S -> Int], NEW h \in [S -> Int],
           NEW x \in S, \A y \in S \ {x} : f[y] = h[y]
    PROVE  SumFunctionOnSet(h, S) = SumFunctionOnSet(f, S) + h[x] - f[x]
<1>1. PICK g : SumsUp(g, f, S) /\ SumFunctionOnSet(f, S) = g[S]
  BY SumIsWitnessed
<1>2. PICK k : SumsUp(k, h, S) /\ SumFunctionOnSet(h, S) = k[S]
  BY SumIsWitnessed
<1>3. g[S] = f[x] + g[S \ {x}]
  BY <1>1, SumTakesAny
<1>4. k[S] = h[x] + k[S \ {x}]
  BY <1>2, SumTakesAny
<1>5. g[S \ {x}] = k[S \ {x}]
  <2>1. S \ {x} \in SUBSET S /\ S \ {x} \in SUBSET (S \ {x})
    OBVIOUS
  <2>2. \A s \in SUBSET (S \ {x}) : g[s] = k[s]
    <3>1. SumsUp(g, f, S) /\ SumsUp(k, h, S)
      BY <1>1, <1>2
    <3> DEFINE T == S \ {x}
    <3>2. T \in SUBSET S /\ \A y \in T : f[y] = h[y]
      OBVIOUS
    <3> HIDE DEF T
    <3>3. \A s \in SUBSET T : g[s] = k[s]
      BY <3>1, <3>2, SumUses
    <3> QED
      BY <3>3 DEF T
  <2> QED
    BY <2>1, <2>2
<1>6. f[x] \in Int /\ h[x] \in Int /\ g[S \ {x}] \in Int
  BY <1>1, SumsAreIntegers
<1> QED
  BY <1>1, <1>2, <1>3, <1>4, <1>5, <1>6

-------------------------------------------------------------------------------
(* Storefront. *)

ShopTypes ==
    /\ shop \in ShopRow \cup {NoShopRow} /\ ware \in WareRow \cup {NoShopRow}
    /\ begun \in [shop : BOOLEAN, ware : BOOLEAN, stock : Int]
    /\ shopOverwritten \in BOOLEAN

\* An order's units are all there until its fulfilment takes them, and it holds the
\* row that its next step saves.
SaleRow == [pc : {"open", "ordered", "count", "item", "units", "flag", "ended"},
            units : Nat, left : Nat, amount : Int,
            copy : ShopRow \cup WareRow \cup {NoShopRow}]
SoundSale(row) ==
    /\ row \in SaleRow /\ row.left <= row.units
    /\ row.pc \in {"open", "ordered", "count", "item"} => row.left = row.units
    /\ row.pc = "count" => row.copy \in ShopRow
    /\ row.pc = "units" => row.copy \in WareRow /\ row.left > 0

ClerkRow == [pc : {"idle", "shop", "ware", "add", "delete"},
             copy : ShopRow \cup WareRow \cup {NoShopRow}]
SoundClerk(row) ==
    /\ row \in ClerkRow
    /\ row.pc = "shop" => row.copy \in ShopRow
    /\ row.pc = "ware" => row.copy \in WareRow

SalesAreSound == sale \in [Sales -> SaleRow] /\ \A s \in Sales : SoundSale(sale[s])
ClerksAreSound == clerk \in [Clerks -> ClerkRow] /\ \A t \in Clerks : SoundClerk(clerk[t])

\* Before there is a storefront, or an item, nobody has anything of it.
NothingBefore ==
    /\ ~ begun.shop => /\ shop = NoShopRow /\ ~ begun.ware
                       /\ \A s \in Sales : sale[s].pc = "open"
                       /\ \A t \in Clerks : clerk[t].pc = "idle"
    /\ ~ begun.ware => /\ ware = NoShopRow
                       /\ \A s \in Sales : sale[s].units = 0
                       /\ \A t \in Clerks : clerk[t].pc # "ware"

\* What a fulfilment found in stock is at least what is there.
CopiesAreNotLess ==
    \A s \in Sales :
        sale[s].pc = "units" /\ ware # NoShopRow => ware.stock <= sale[s].copy.stock

DeletedFirst == \A t \in Clerks : clerk[t].pc = "delete" => ware = NoShopRow

ShopIInv ==
    /\ ShopTypes /\ SalesAreSound /\ ClerksAreSound /\ NothingBefore
    /\ ShopIsItsOrders
    /\ ~ shopOverwritten => CopiesAreNotLess /\ DeletedFirst

CountedPc == {"item", "units", "flag", "ended"}

LEMMA SumsOfSales ==
    ASSUME ShopIInv
    PROVE  /\ Amounts \in [Sales -> Int] /\ Taken \in [Sales -> Int]
           /\ SumFunction(Amounts) = SumFunctionOnSet(Amounts, Sales)
           /\ SumFunction(Taken) = SumFunctionOnSet(Taken, Sales)
           /\ SumFunction(Amounts) \in Int /\ SumFunction(Taken) \in Int
           /\ IsFiniteSet(Counted) /\ Cardinality(Counted) \in Nat
<1>1. Amounts \in [Sales -> Int] /\ Taken \in [Sales -> Int]
  BY DEF ShopIInv, SalesAreSound, SaleRow, Amounts, Taken
<1>2. DOMAIN Amounts = Sales /\ DOMAIN Taken = Sales
  BY DEF Amounts, Taken
<1>3. /\ SumFunction(Amounts) = SumFunctionOnSet(Amounts, Sales)
      /\ SumFunction(Taken) = SumFunctionOnSet(Taken, Sales)
  BY <1>2 DEF SumFunction
<1>4. IsFiniteSet(Sales)
  BY StorefrontAssumption
<1>5. SumFunctionOnSet(Amounts, Sales) \in Int /\ SumFunctionOnSet(Taken, Sales) \in Int
  BY <1>1, <1>4, SumIsInteger
<1>6. IsFiniteSet(Counted) /\ Cardinality(Counted) \in Nat
  <2>1. Counted \subseteq Sales
    BY DEF Counted
  <2> QED
    BY <2>1, <1>4, FS_Subset, FS_CardinalityType
<1> QED
  BY <1>1, <1>3, <1>5, <1>6

LEMMA MaxOfTwo == \A k \in Int : Max({0, k}) = IF k > 0 THEN k ELSE 0
<1> SUFFICES ASSUME NEW k \in Int PROVE Max({0, k}) = IF k > 0 THEN k ELSE 0
  OBVIOUS
<1> DEFINE m == IF k > 0 THEN k ELSE 0
<1>1. m \in {0, k} /\ \A y \in {0, k} : m >= y
  OBVIOUS
<1>2. \A x \in {0, k} : (\A y \in {0, k} : x >= y) => x = m
  OBVIOUS
<1> QED
  BY <1>1, <1>2 DEF Max

\* Before the first storefront, and the first item, the sums are 0.
LEMMA SumsBefore ==
    ASSUME ShopIInv
    PROVE  /\ ~ begun.shop => Counted = {} /\ SumFunction(Amounts) = 0
           /\ ~ begun.ware => SumFunction(Taken) = 0
<1>1. ASSUME ~ begun.shop PROVE Counted = {} /\ SumFunction(Amounts) = 0
  <2>1. Counted = {}
    BY <1>1 DEF ShopIInv, NothingBefore, Counted
  <2>2. \A s \in Sales : Amounts[s] = 0
    BY <2>1 DEF Amounts
  <2> QED
    BY <2>1, <2>2, SumsOfSales, SumOfZeros, StorefrontAssumption
<1>2. ASSUME ~ begun.ware PROVE SumFunction(Taken) = 0
  <2>1. \A s \in Sales : Taken[s] = 0
    BY <1>2 DEF ShopIInv, NothingBefore, SalesAreSound, SoundSale, SaleRow, Taken
  <2> QED
    BY <2>1, SumsOfSales, SumOfZeros, StorefrontAssumption
<1> QED
  BY <1>1, <1>2

LEMMA ShopInitially == StorefrontInit => ShopIInv
<1> SUFFICES ASSUME StorefrontInit PROVE ShopIInv
  OBVIOUS
<1> USE StorefrontAssumption
<1>1. ShopTypes
  <2>1. /\ [active |-> TRUE, orders |-> 0, revenue |-> 0] \in ShopRow
        /\ \A price \in ItemPrices : [active |-> TRUE, price |-> price, stock |-> InStock] \in WareRow
    BY DEF ShopRow, WareRow
  <2>2. shop \in ShopRow \cup {NoShopRow} /\ ware \in WareRow \cup {NoShopRow}
    BY <2>1, Zenon DEF StorefrontInit
  <2>3. shopOverwritten \in BOOLEAN
    BY DEF StorefrontInit
  <2>4. begun \in [shop : BOOLEAN, ware : BOOLEAN, stock : Int]
    <3>1. \/ begun = [shop |-> TRUE, ware |-> TRUE, stock |-> InStock]
          \/ begun = [shop |-> FALSE, ware |-> FALSE, stock |-> 0]
      BY DEF StorefrontInit
    <3>2. InStock \in Int /\ 0 \in Int
      OBVIOUS
    <3>3. /\ [shop |-> TRUE, ware |-> TRUE, stock |-> InStock]
               \in [shop : BOOLEAN, ware : BOOLEAN, stock : Int]
          /\ [shop |-> FALSE, ware |-> FALSE, stock |-> 0]
               \in [shop : BOOLEAN, ware : BOOLEAN, stock : Int]
      BY <3>2
    <3> QED
      BY <3>1, <3>3, Zenon
  <2> QED
    BY <2>2, <2>3, <2>4 DEF ShopTypes
<1>2. SalesAreSound
  <2>1. SoundSale(NotOrdered)
    BY DEF SoundSale, SaleRow, NotOrdered
  <2> QED
    BY <2>1 DEF StorefrontInit, SalesAreSound, SoundSale
<1>3. ClerksAreSound
  <2>1. SoundClerk(ClerkIdle)
    BY DEF SoundClerk, ClerkRow, ClerkIdle
  <2> QED
    BY <2>1 DEF StorefrontInit, ClerksAreSound, SoundClerk
<1>4. NothingBefore
  BY DEF StorefrontInit, NothingBefore, NotOrdered, ClerkIdle
<1>5. CopiesAreNotLess /\ DeletedFirst
  BY DEF StorefrontInit, CopiesAreNotLess, DeletedFirst, NotOrdered, ClerkIdle
<1>6. Counted = {}
  BY DEF StorefrontInit, Counted, NotOrdered
<1>7. SumFunction(Amounts) = 0 /\ SumFunction(Taken) = 0
  <2>1. /\ Amounts \in [Sales -> Int] /\ \A s \in Sales : Amounts[s] = 0
        /\ Taken \in [Sales -> Int] /\ \A s \in Sales : Taken[s] = 0
    BY <1>6 DEF StorefrontInit, Amounts, Taken, NotOrdered
  <2>2. DOMAIN Amounts = Sales /\ DOMAIN Taken = Sales
    BY DEF Amounts, Taken
  <2> QED
    BY <2>1, <2>2, SumOfZeros DEF SumFunction
<1>8. ShopIsItsOrders
  <2>1. Cardinality(Counted) = 0
    BY <1>6, FS_EmptySet
  <2>2. Max({0, begun.stock - SumFunction(Taken)})
            = IF begun.stock > 0 THEN begun.stock ELSE 0
    BY <1>1, <1>7, MaxOfTwo DEF ShopTypes
  <2>3. begun.stock \in Int
    BY <1>1 DEF ShopTypes
  <2>4. CASE ware = NoShopRow
    BY <2>4, <2>1, <1>7 DEF StorefrontInit, ShopIsItsOrders
  <2>5. CASE ware # NoShopRow
    <3>1. /\ shop = [active |-> TRUE, orders |-> 0, revenue |-> 0]
          /\ ware.stock = InStock /\ begun.stock = InStock
      BY <2>5 DEF StorefrontInit
    <3>2. [active |-> TRUE, orders |-> 0, revenue |-> 0] \in ShopRow
      BY DEF ShopRow
    <3>3. shop # NoShopRow /\ shop.orders = 0 /\ shop.revenue = 0
      BY <3>1, <3>2
    <3> QED
      BY <3>1, <3>3, <2>1, <2>2, <2>3, <1>7 DEF ShopIsItsOrders
  <2> QED
    BY <2>4, <2>5
<1> QED
  BY <1>1, <1>2, <1>3, <1>4, <1>5, <1>8 DEF ShopIInv

\* A step of one order that neither counts it nor takes anything from the stock.
LEMMA SaleMoves ==
    ASSUME ShopIInv, begun.shop, NEW s \in Sales, NEW row, SoundSale(row),
           sale' = [sale EXCEPT ![s] = row],
           UNCHANGED <<shop, ware, clerk, begun, shopOverwritten>>,
           \/ row.pc \in CountedPc <=> sale[s].pc \in CountedPc
           \/ shop = NoShopRow,
           row.amount = sale[s].amount \/ row.pc \notin CountedPc,
           row.units - row.left = sale[s].units - sale[s].left,
           row.units > 0 => begun.ware,
           row.pc = "units" => row.copy = ware
    PROVE  ShopIInv'
<1>i. /\ ShopTypes /\ SalesAreSound /\ ClerksAreSound /\ NothingBefore
      /\ ShopIsItsOrders
      /\ ~ shopOverwritten => CopiesAreNotLess /\ DeletedFirst
  BY DEF ShopIInv
<1>r. row \in SaleRow
  BY DEF SoundSale
<1>s. sale \in [Sales -> SaleRow]
  BY <1>i DEF SalesAreSound
<1>v. sale'[s] = row /\ \A u \in Sales \ {s} : sale'[u] = sale[u]
  BY <1>s
<1>1. ShopTypes'
  BY <1>i DEF ShopTypes
<1>2. SalesAreSound'
  <2>1. sale' \in [Sales -> SaleRow]
    BY <1>s, <1>r
  <2>2. \A u \in Sales : SoundSale(sale'[u])
    BY <1>v, <1>i DEF SalesAreSound
  <2> QED
    BY <2>1, <2>2, Zenon DEF SalesAreSound, SoundSale
<1>3. ClerksAreSound'
  BY <1>i DEF ClerksAreSound, SoundClerk
<1>4. NothingBefore'
  <2>1. begun.shop /\ begun' = begun /\ ware' = ware /\ clerk' = clerk
    OBVIOUS
  <2>2. ASSUME ~ begun.ware PROVE \A u \in Sales : sale'[u].units = 0
    <3>1. row.units = 0
      BY <2>2, <1>r DEF SaleRow
    <3> QED
      BY <3>1, <2>2, <1>v, <1>i DEF NothingBefore
  <2> QED
    BY <2>1, <2>2, <1>i DEF NothingBefore
<1>5. ~ shopOverwritten => CopiesAreNotLess' /\ DeletedFirst'
  <2>1. ASSUME ~ shopOverwritten PROVE CopiesAreNotLess'
    <3>1. ASSUME NEW u \in Sales, sale'[u].pc = "units", ware # NoShopRow
          PROVE  ware.stock <= sale'[u].copy.stock
      <4>1. CASE u = s
        <5>1. sale'[u].copy = ware
          BY <4>1, <3>1, <1>v
        <5>2. ware.stock \in Int
          BY <1>i, <3>1 DEF ShopTypes, WareRow
        <5> QED
          BY <5>1, <5>2
      <4>2. CASE u # s
        BY <4>2, <3>1, <1>v, <1>i, <2>1 DEF CopiesAreNotLess
      <4> QED
        BY <4>1, <4>2
    <3> QED
      BY <3>1 DEF CopiesAreNotLess
  <2>2. ASSUME ~ shopOverwritten PROVE DeletedFirst'
    BY <2>2, <1>i DEF DeletedFirst
  <2> QED
    BY <2>1, <2>2
<1>6. Taken' = Taken
  <2>1. \A u \in Sales : sale'[u].units - sale'[u].left = sale[u].units - sale[u].left
    BY <1>v
  <2> QED
    BY <2>1 DEF Taken
<1>7. shop # NoShopRow => Counted' = Counted /\ Amounts' = Amounts
  <2> SUFFICES ASSUME shop # NoShopRow PROVE Counted' = Counted /\ Amounts' = Amounts
    OBVIOUS
  <2>1. Counted' = Counted
    BY <1>v DEF Counted, CountedPc
  <2>2. \A u \in Sales : u \in Counted => sale'[u].amount = sale[u].amount
    BY <1>v, <2>1 DEF Counted, CountedPc
  <2> QED
    BY <2>1, <2>2 DEF Amounts
<1>8. ShopIsItsOrders'
  <2> SUFFICES ASSUME ~ shopOverwritten
               PROVE  /\ shop # NoShopRow =>
                            shop.orders = Cardinality(Counted') /\ shop.revenue = SumFunction(Amounts')
                      /\ ware # NoShopRow =>
                            ware.stock = IF begun.stock < 0 THEN begun.stock
                                         ELSE Max({0, begun.stock - SumFunction(Taken')})
                      /\ shop = NoShopRow => ware = NoShopRow
    BY DEF ShopIsItsOrders
  <2> QED
    BY <1>6, <1>7, <1>i DEF ShopIsItsOrders
<1> QED
  BY <1>1, <1>2, <1>3, <1>4, <1>5, <1>8 DEF ShopIInv

\* A step of one clerk that creates nothing: unless it saves an old copy it keeps
\* the totals and the stock, or the row goes.
LEMMA ClerkMoves ==
    ASSUME ShopIInv, begun.shop, NEW t \in Clerks, NEW row, SoundClerk(row),
           clerk' = [clerk EXCEPT ![t] = row],
           UNCHANGED <<sale, begun>>, ShopTypes',
           shopOverwritten => shopOverwritten',
           ~ begun.ware => ware' = NoShopRow /\ row.pc # "ware",
           ~ shopOverwritten' =>
              /\ shop' # NoShopRow => /\ shop # NoShopRow
                                      /\ shop'.orders = shop.orders
                                      /\ shop'.revenue = shop.revenue
              /\ ware' # NoShopRow => ware # NoShopRow /\ ware'.stock = ware.stock
              /\ shop' = NoShopRow => ware' = NoShopRow
              /\ row.pc = "delete" => ware' = NoShopRow
    PROVE  ShopIInv'
<1>i. /\ ShopTypes /\ SalesAreSound /\ ClerksAreSound /\ NothingBefore
      /\ ShopIsItsOrders
      /\ ~ shopOverwritten => CopiesAreNotLess /\ DeletedFirst
  BY DEF ShopIInv
<1>c. clerk \in [Clerks -> ClerkRow] /\ row \in ClerkRow
  BY <1>i DEF ClerksAreSound, SoundClerk
<1>v. clerk'[t] = row /\ \A u \in Clerks \ {t} : clerk'[u] = clerk[u]
  BY <1>c
<1>2. SalesAreSound'
  BY <1>i DEF SalesAreSound, SoundSale
<1>3. ClerksAreSound'
  <2>1. clerk' \in [Clerks -> ClerkRow]
    BY <1>c
  <2>2. \A u \in Clerks : SoundClerk(clerk'[u])
    BY <1>v, <1>i DEF ClerksAreSound
  <2> QED
    BY <2>1, <2>2, Zenon DEF ClerksAreSound, SoundClerk
<1>4. NothingBefore'
  BY <1>v, <1>i DEF NothingBefore
<1>5. ~ shopOverwritten' => CopiesAreNotLess' /\ DeletedFirst'
  <2> SUFFICES ASSUME ~ shopOverwritten' PROVE CopiesAreNotLess' /\ DeletedFirst'
    OBVIOUS
  <2>1. CopiesAreNotLess /\ DeletedFirst
    BY <1>i
  <2>2. CopiesAreNotLess'
    BY <2>1 DEF CopiesAreNotLess
  <2>3. DeletedFirst'
    BY <2>1, <1>v DEF DeletedFirst
  <2> QED
    BY <2>2, <2>3
<1>6. Taken' = Taken /\ Counted' = Counted /\ Amounts' = Amounts
  BY DEF Taken, Counted, Amounts
<1>8. ShopIsItsOrders'
  <2> SUFFICES ASSUME ~ shopOverwritten'
               PROVE  /\ shop' # NoShopRow =>
                            /\ shop'.orders = Cardinality(Counted)
                            /\ shop'.revenue = SumFunction(Amounts)
                      /\ ware' # NoShopRow =>
                            ware'.stock = IF begun.stock < 0 THEN begun.stock
                                          ELSE Max({0, begun.stock - SumFunction(Taken)})
                      /\ shop' = NoShopRow => ware' = NoShopRow
    BY <1>6 DEF ShopIsItsOrders
  <2> QED
    BY <1>i DEF ShopIsItsOrders
<1> QED
  BY <1>2, <1>3, <1>4, <1>5, <1>8 DEF ShopIInv

\* Whoever has begun something has a storefront to do it with, or had one.
LEMMA ShopHasBegun ==
    ASSUME ShopIInv
    PROVE  /\ shop # NoShopRow => begun.shop
           /\ \A s \in Sales : sale[s].pc # "open" => begun.shop
           /\ \A t \in Clerks : clerk[t].pc # "idle" => begun.shop
           /\ ware # NoShopRow => begun.ware
           /\ \A s \in Sales : sale[s].units # 0 => begun.ware
           /\ \A t \in Clerks : clerk[t].pc = "ware" => begun.ware
BY DEF ShopIInv, NothingBefore

LEMMA OrderStep ==
    ASSUME ShopIInv, NEW s \in Sales, NEW units \in Nat, NEW amount \in Int,
           units > 0 => OnSale, Order(s, units, amount), UNCHANGED begun
    PROVE  ShopIInv'
<1> PICK row : row = [NotOrdered EXCEPT !.pc = "ordered", !.units = units,
                                        !.left = units, !.amount = amount]
  OBVIOUS
<1>1. row = [pc |-> "ordered", units |-> units, left |-> units, amount |-> amount,
             copy |-> NoShopRow]
  BY DEF NotOrdered
<1>2. SoundSale(row)
  BY <1>1 DEF SoundSale, SaleRow
<1>3. sale' = [sale EXCEPT ![s] = row] /\ UNCHANGED <<shop, ware, clerk, shopOverwritten>>
  BY DEF Order
<1>4. sale[s].pc = "open" /\ begun.shop
  BY ShopHasBegun DEF Order, SaleAt
<1>5. sale[s].units = sale[s].left /\ sale[s].units \in Nat
  BY <1>4 DEF ShopIInv, SalesAreSound, SoundSale, SaleRow
<1>6. units > 0 => begun.ware
  BY ShopHasBegun DEF OnSale
<1>7. /\ row.pc = "ordered" /\ row.units = units /\ row.left = units
      /\ row.units - row.left = sale[s].units - sale[s].left
  BY <1>1, <1>5
<1>8. row.pc \notin CountedPc /\ sale[s].pc \notin CountedPc
  BY <1>4, <1>7 DEF CountedPc
<1> QED
  BY <1>2, <1>3, <1>4, <1>6, <1>7, <1>8, SaleMoves

\* What is known of an order that is past its first step.
LEMMA SaleFacts ==
    ASSUME ShopIInv, NEW s \in Sales
    PROVE  /\ SoundSale(sale[s]) /\ sale[s] \in SaleRow
           /\ shop \in ShopRow \cup {NoShopRow} /\ ware \in WareRow \cup {NoShopRow}
           /\ sale \in [Sales -> SaleRow]
BY DEF ShopIInv, SalesAreSound, ShopTypes

LEMMA BeginFulfilmentStep ==
    ASSUME ShopIInv, NEW s \in Sales, BeginFulfilment(s), UNCHANGED begun
    PROVE  ShopIInv'
<1> PICK pc : pc = IF shop = NoShopRow THEN "ended" ELSE "count"
  OBVIOUS
<1> PICK row : row = [sale[s] EXCEPT !.pc = pc, !.copy = shop]
  OBVIOUS
<1>f. SoundSale(sale[s]) /\ sale[s] \in SaleRow /\ shop \in ShopRow \cup {NoShopRow}
  BY SaleFacts
<1>1. /\ row.pc = pc /\ row.copy = shop /\ row.units = sale[s].units
      /\ row.left = sale[s].left /\ row.amount = sale[s].amount /\ row \in SaleRow
  BY <1>f DEF SaleRow
<1>2. sale[s].pc = "ordered" /\ begun.shop
  BY ShopHasBegun DEF BeginFulfilment, SaleAt
<1>3. SoundSale(row)
  BY <1>1, <1>2, <1>f DEF SoundSale
<1>4. sale' = [sale EXCEPT ![s] = row] /\ UNCHANGED <<shop, ware, clerk, shopOverwritten>>
  BY SaleFacts DEF BeginFulfilment
<1>5. row.units > 0 => begun.ware
  BY <1>1, ShopHasBegun
<1>6. row.pc # "units" /\ sale[s].pc \notin CountedPc
      /\ (row.pc \in CountedPc => shop = NoShopRow)
  BY <1>1, <1>2 DEF CountedPc
<1>7. row.units - row.left = sale[s].units - sale[s].left
  BY <1>1
<1> QED
  BY <1>1, <1>2, <1>3, <1>4, <1>5, <1>6, <1>7, SaleMoves

LEMMA TakeItemStep ==
    ASSUME ShopIInv, NEW s \in Sales, TakeItem(s), UNCHANGED begun
    PROVE  ShopIInv'
<1> PICK pc : pc = IF ware = NoShopRow \/ sale[s].units = 0 THEN "flag" ELSE "units"
  OBVIOUS
<1> PICK row : row = [sale[s] EXCEPT !.pc = pc, !.copy = ware]
  OBVIOUS
<1>f. SoundSale(sale[s]) /\ sale[s] \in SaleRow /\ ware \in WareRow \cup {NoShopRow}
  BY SaleFacts
<1>1. /\ row.pc = pc /\ row.copy = ware /\ row.units = sale[s].units
      /\ row.left = sale[s].left /\ row.amount = sale[s].amount /\ row \in SaleRow
  BY <1>f DEF SaleRow
<1>2. sale[s].pc = "item" /\ begun.shop
  BY ShopHasBegun DEF TakeItem, SaleAt
<1>3. SoundSale(row)
  <2>1. sale[s].left = sale[s].units /\ sale[s].units \in Nat
    BY <1>2, <1>f DEF SoundSale, SaleRow
  <2>2. pc = "units" => ware \in WareRow /\ sale[s].units > 0
    BY <1>f, <2>1
  <2> QED
    BY <1>1, <2>1, <2>2 DEF SoundSale
<1>4. sale' = [sale EXCEPT ![s] = row] /\ UNCHANGED <<shop, ware, clerk, shopOverwritten>>
  BY SaleFacts DEF TakeItem
<1>5. row.units > 0 => begun.ware
  BY <1>1, ShopHasBegun
<1>6. row.pc \in CountedPc /\ sale[s].pc \in CountedPc
  BY <1>1, <1>2 DEF CountedPc
<1>7. row.units - row.left = sale[s].units - sale[s].left
  BY <1>1
<1> QED
  BY <1>1, <1>2, <1>3, <1>4, <1>5, <1>6, <1>7, SaleMoves

LEMMA MarkFulfilledStep ==
    ASSUME ShopIInv, NEW s \in Sales, MarkFulfilled(s), UNCHANGED begun
    PROVE  ShopIInv'
<1> PICK row : row = [sale[s] EXCEPT !.pc = "ended", !.copy = NoShopRow]
  OBVIOUS
<1>f. SoundSale(sale[s]) /\ sale[s] \in SaleRow
  BY SaleFacts
<1>1. /\ row.pc = "ended" /\ row.units = sale[s].units
      /\ row.left = sale[s].left /\ row.amount = sale[s].amount /\ row \in SaleRow
  BY <1>f DEF SaleRow
<1>2. sale[s].pc = "flag" /\ begun.shop
  BY ShopHasBegun DEF MarkFulfilled, SaleAt
<1>3. SoundSale(row)
  BY <1>1, <1>2, <1>f DEF SoundSale
<1>4. sale' = [sale EXCEPT ![s] = row] /\ UNCHANGED <<shop, ware, clerk, shopOverwritten>>
  BY SaleFacts DEF MarkFulfilled
<1>5. row.units > 0 => begun.ware
  BY <1>1, ShopHasBegun
<1>6. row.pc \in CountedPc /\ sale[s].pc \in CountedPc /\ row.pc # "units"
  BY <1>1, <1>2 DEF CountedPc
<1>7. row.units - row.left = sale[s].units - sale[s].left
  BY <1>1
<1> QED
  BY <1>1, <1>2, <1>3, <1>4, <1>5, <1>6, <1>7, SaleMoves

LEMMA CountOrderStep ==
    ASSUME ShopIInv, NEW s \in Sales, CountOrder(s), UNCHANGED begun
    PROVE  ShopIInv'
<1>i. /\ ShopTypes /\ SalesAreSound /\ ClerksAreSound /\ NothingBefore
      /\ ShopIsItsOrders
      /\ ~ shopOverwritten => CopiesAreNotLess /\ DeletedFirst
  BY DEF ShopIInv
<1>f. SoundSale(sale[s]) /\ sale[s] \in SaleRow /\ sale \in [Sales -> SaleRow]
  BY SaleFacts
<1> PICK copy : copy = sale[s].copy
  OBVIOUS
<1> PICK counted : counted = [copy EXCEPT !.orders = @ + 1, !.revenue = @ + sale[s].amount]
  OBVIOUS
<1> PICK row : row = [sale[s] EXCEPT !.pc = "item"]
  OBVIOUS
<1>1. sale[s].pc = "count" /\ begun.shop
  BY ShopHasBegun DEF CountOrder, SaleAt
<1>2. copy \in ShopRow
  BY <1>1, <1>f DEF SoundSale
<1>3. /\ counted \in ShopRow /\ counted.orders = copy.orders + 1
      /\ counted.revenue = copy.revenue + sale[s].amount
  <2>1. /\ copy.active \in BOOLEAN /\ copy.orders \in Nat /\ copy.revenue \in Int
        /\ sale[s].amount \in Int
        /\ DOMAIN copy = {"active", "orders", "revenue"}
    BY <1>2, <1>f DEF ShopRow, SaleRow
  <2>2. counted = [active |-> copy.active, orders |-> copy.orders + 1,
                   revenue |-> copy.revenue + sale[s].amount]
    BY <1>2 DEF ShopRow
  <2>3. copy.orders + 1 \in Nat /\ copy.revenue + sale[s].amount \in Int
    BY <2>1
  <2>4. counted \in ShopRow
    BY <2>1, <2>2, <2>3, Zenon DEF ShopRow
  <2> QED
    BY <2>2, <2>4
<1>4. /\ shop' = counted /\ shopOverwritten' = (shopOverwritten \/ shop # copy)
      /\ sale' = [sale EXCEPT ![s] = row] /\ UNCHANGED <<ware, clerk>>
  BY <1>f DEF CountOrder, SaveShopRow
<1>5. /\ row.pc = "item" /\ row.units = sale[s].units /\ row.left = sale[s].left
      /\ row.amount = sale[s].amount /\ row.copy = copy /\ row \in SaleRow
  BY <1>f DEF SaleRow
<1>v. sale'[s] = row /\ \A u \in Sales \ {s} : sale'[u] = sale[u]
  BY <1>4, <1>f
<1>6. ShopTypes'
  <2>1. shopOverwritten' \in BOOLEAN
    BY <1>4
  <2> QED
    BY <2>1, <1>3, <1>4, <1>i DEF ShopTypes
<1>7. SalesAreSound'
  <2>1. SoundSale(row)
    BY <1>1, <1>5, <1>f DEF SoundSale
  <2>2. sale' \in [Sales -> SaleRow]
    BY <1>4, <1>5, <1>f
  <2>3. \A u \in Sales : SoundSale(sale'[u])
    BY <2>1, <1>v, <1>i DEF SalesAreSound
  <2> QED
    BY <2>2, <2>3, Zenon DEF SalesAreSound, SoundSale
<1>8. ClerksAreSound'
  BY <1>4, <1>i DEF ClerksAreSound, SoundClerk
<1>9. NothingBefore'
  BY <1>1, <1>4, <1>5, <1>v, <1>i DEF NothingBefore
<1>10. ~ shopOverwritten' => CopiesAreNotLess' /\ DeletedFirst'
  <2> SUFFICES ASSUME ~ shopOverwritten' PROVE CopiesAreNotLess' /\ DeletedFirst'
    OBVIOUS
  <2>1. CopiesAreNotLess /\ DeletedFirst
    BY <1>i, <1>4
  <2>2. CopiesAreNotLess'
    BY <2>1, <1>4, <1>5, <1>v DEF CopiesAreNotLess
  <2>3. DeletedFirst'
    BY <2>1, <1>4 DEF DeletedFirst
  <2> QED
    BY <2>2, <2>3
<1>11. Taken' = Taken
  <2>1. \A u \in Sales : sale'[u].units - sale'[u].left = sale[u].units - sale[u].left
    BY <1>v, <1>5
  <2> QED
    BY <2>1 DEF Taken
<1>12. Counted' = Counted \cup {s} /\ s \notin Counted
  <2>1. \A u \in Sales : sale'[u].pc \in CountedPc <=> sale[u].pc \in CountedPc \/ u = s
    BY <1>v, <1>5 DEF CountedPc
  <2>2. sale[s].pc \notin CountedPc
    BY <1>1 DEF CountedPc
  <2> QED
    BY <2>1, <2>2 DEF Counted, CountedPc
<1>13. Cardinality(Counted') = Cardinality(Counted) + 1
  BY <1>12, SumsOfSales, FS_AddElement
<1>14. SumFunction(Amounts') = SumFunction(Amounts) + sale[s].amount
  <2>1. Amounts \in [Sales -> Int] /\ Amounts' \in [Sales -> Int]
    BY <1>7, SumsOfSales DEF Amounts, SalesAreSound, SaleRow
  <2>2. Amounts[s] = 0 /\ Amounts'[s] = sale[s].amount
    BY <1>12, <1>v, <1>5 DEF Amounts
  <2>3. \A u \in Sales \ {s} : Amounts[u] = Amounts'[u]
    BY <1>12, <1>v DEF Amounts
  <2>4. SumFunctionOnSet(Amounts', Sales)
            = SumFunctionOnSet(Amounts, Sales) + Amounts'[s] - Amounts[s]
    <3> PICK before : before = Amounts
      OBVIOUS
    <3> PICK after : after = Amounts'
      OBVIOUS
    <3>1. SumFunctionOnSet(after, Sales)
              = SumFunctionOnSet(before, Sales) + after[s] - before[s]
      BY <2>1, <2>3, StorefrontAssumption, SumChanges
    <3> QED
      BY <3>1
  <2>5. DOMAIN Amounts' = Sales
    BY DEF Amounts
  <2>6. SumFunction(Amounts') = SumFunctionOnSet(Amounts', Sales)
    BY <2>5 DEF SumFunction
  <2>7. sale[s].amount \in Int
    BY <1>f DEF SaleRow
  <2> QED
    BY <2>2, <2>4, <2>6, <2>7, SumsOfSales
<1>15. ShopIsItsOrders'
  <2> SUFFICES ASSUME ~ shopOverwritten'
               PROVE  /\ counted.orders = Cardinality(Counted')
                      /\ counted.revenue = SumFunction(Amounts')
                      /\ ware # NoShopRow =>
                            ware.stock = IF begun.stock < 0 THEN begun.stock
                                         ELSE Max({0, begun.stock - SumFunction(Taken)})
                      /\ counted # NoShopRow
    BY <1>4, <1>11 DEF ShopIsItsOrders
  <2>1. ~ shopOverwritten /\ shop = copy /\ copy # NoShopRow
    BY <1>2, <1>4, StorefrontAssumption
  <2>2. /\ copy.orders = Cardinality(Counted) /\ copy.revenue = SumFunction(Amounts)
    BY <2>1, <1>i DEF ShopIsItsOrders
  <2> QED
    BY <2>1, <2>2, <1>3, <1>13, <1>14, <1>i, StorefrontAssumption DEF ShopIsItsOrders
<1> QED
  BY <1>6, <1>7, <1>8, <1>9, <1>10, <1>15 DEF ShopIInv

\* One unit of an order is taken from the stock, if the copy has one.
LEMMA DecrementStep ==
    ASSUME ShopIInv, NEW s \in Sales, DecrementInventory(s), UNCHANGED begun
    PROVE  ShopIInv'
<1>i. /\ ShopTypes /\ SalesAreSound /\ ClerksAreSound /\ NothingBefore
      /\ ShopIsItsOrders
      /\ ~ shopOverwritten => CopiesAreNotLess /\ DeletedFirst
  BY DEF ShopIInv
<1>f. SoundSale(sale[s]) /\ sale[s] \in SaleRow /\ sale \in [Sales -> SaleRow]
  BY SaleFacts
<1> PICK copy : copy = sale[s].copy
  OBVIOUS
<1> PICK less : less = [copy EXCEPT !.stock = @ - 1]
  OBVIOUS
<1> PICK pc : pc = IF sale[s].left = 1 THEN "flag" ELSE "units"
  OBVIOUS
<1> PICK held : held = IF copy.stock > 0 THEN less ELSE copy
  OBVIOUS
<1> PICK row : row = [sale[s] EXCEPT !.left = @ - 1, !.copy = held, !.pc = pc]
  OBVIOUS
<1>1. sale[s].pc = "units" /\ begun.shop
  BY ShopHasBegun DEF DecrementInventory, SaleAt
<1>2. copy \in WareRow /\ sale[s].left > 0 /\ sale[s].left \in Nat /\ copy.stock \in Int
  BY <1>1, <1>f DEF SoundSale, SaleRow, WareRow
<1>3. less \in WareRow /\ less.stock = copy.stock - 1 /\ held \in WareRow
  BY <1>2 DEF WareRow
<1>4. /\ row.pc = pc /\ row.units = sale[s].units /\ row.left = sale[s].left - 1
      /\ row.amount = sale[s].amount /\ row.copy = held /\ row \in SaleRow
  <2>1. sale[s].left - 1 \in Nat
    BY <1>2
  <2>2. row = [pc |-> pc, units |-> sale[s].units, left |-> sale[s].left - 1,
               amount |-> sale[s].amount, copy |-> held]
    BY <1>f DEF SaleRow
  <2>3. pc \in {"flag", "units"}
    OBVIOUS
  <2> QED
    BY <2>1, <2>2, <2>3, <1>f, <1>3 DEF SaleRow
<1>5. sale' = [sale EXCEPT ![s] = row] /\ UNCHANGED <<shop, clerk>>
  <2>1. CASE copy.stock > 0
    <3>1. sale' = [sale EXCEPT ![s].left = @ - 1, ![s].copy = less, ![s].pc = pc]
          /\ UNCHANGED <<shop, clerk>>
      BY <2>1 DEF DecrementInventory, SaveWareRow
    <3>2. row = [sale[s] EXCEPT !.left = @ - 1, !.copy = less, !.pc = pc]
      BY <2>1
    <3> QED
      BY <3>1, <3>2, <1>f
  <2>2. CASE ~ (copy.stock > 0)
    <3>1. sale' = [sale EXCEPT ![s].left = @ - 1, ![s].pc = pc] /\ UNCHANGED <<shop, clerk>>
      BY <2>2 DEF DecrementInventory
    <3>2. row = [sale[s] EXCEPT !.left = @ - 1, !.pc = pc]
      BY <2>2, <1>f DEF SaleRow
    <3> QED
      BY <3>1, <3>2, <1>f
  <2> QED
    BY <2>1, <2>2
<1>6. IF copy.stock > 0
      THEN ware' = less /\ shopOverwritten' = (shopOverwritten \/ ware # copy)
      ELSE UNCHANGED <<ware, shopOverwritten>>
  BY DEF DecrementInventory, SaveWareRow
<1>v. sale'[s] = row /\ \A u \in Sales \ {s} : sale'[u] = sale[u]
  BY <1>5, <1>f
<1>7. ShopTypes'
  <2>1. shopOverwritten' \in BOOLEAN /\ ware' \in WareRow \cup {NoShopRow}
    BY <1>6, <1>3, <1>i DEF ShopTypes
  <2> QED
    BY <2>1, <1>5, <1>i DEF ShopTypes
<1>8. SalesAreSound'
  <2>1. SoundSale(row)
    BY <1>2, <1>3, <1>4, <1>f DEF SoundSale, SaleRow
  <2>2. sale' \in [Sales -> SaleRow]
    BY <1>4, <1>5, <1>f
  <2>3. \A u \in Sales : SoundSale(sale'[u])
    BY <2>1, <1>v, <1>i DEF SalesAreSound
  <2> QED
    BY <2>2, <2>3, Zenon DEF SalesAreSound, SoundSale
<1>9. ClerksAreSound'
  BY <1>5, <1>i DEF ClerksAreSound, SoundClerk
<1>10. begun.ware
  <2>1. sale[s].units # 0
    BY <1>2, <1>f DEF SoundSale, SaleRow
  <2> QED
    BY <2>1, ShopHasBegun
<1>11. NothingBefore'
  BY <1>1, <1>5, <1>10 DEF NothingBefore
<1>12. Counted' = Counted /\ Amounts' = Amounts
  <2>1. Counted' = Counted
    <3>1. row.pc \in CountedPc /\ sale[s].pc \in CountedPc
      BY <1>1, <1>4 DEF CountedPc
    <3>2. \A u \in Sales : sale'[u].pc \in CountedPc <=> sale[u].pc \in CountedPc
      BY <1>v, <3>1
    <3> QED
      BY <3>2 DEF Counted, CountedPc
  <2>2. \A u \in Sales : sale'[u].amount = sale[u].amount
    BY <1>v, <1>4
  <2> QED
    BY <2>1, <2>2 DEF Amounts
<1>13. SumFunction(Taken') = SumFunction(Taken) + 1
  <2>1. Taken \in [Sales -> Int] /\ Taken' \in [Sales -> Int]
    BY <1>8, SumsOfSales DEF Taken, SalesAreSound, SaleRow
  <2>2. Taken'[s] = Taken[s] + 1
    <3>1. Taken[s] = sale[s].units - sale[s].left /\ Taken'[s] = row.units - row.left
      BY <1>v DEF Taken
    <3>2. sale[s].units \in Nat /\ sale[s].left \in Nat
      BY <1>f DEF SaleRow
    <3> QED
      BY <3>1, <3>2, <1>4
  <2>3. \A u \in Sales \ {s} : Taken[u] = Taken'[u]
    BY <1>v DEF Taken
  <2>4. SumFunctionOnSet(Taken', Sales)
            = SumFunctionOnSet(Taken, Sales) + Taken'[s] - Taken[s]
    <3> PICK before : before = Taken
      OBVIOUS
    <3> PICK after : after = Taken'
      OBVIOUS
    <3>1. SumFunctionOnSet(after, Sales)
              = SumFunctionOnSet(before, Sales) + after[s] - before[s]
      BY <2>1, <2>3, StorefrontAssumption, SumChanges
    <3> QED
      BY <3>1
  <2>5. DOMAIN Taken' = Sales
    BY DEF Taken
  <2>6. SumFunction(Taken') = SumFunctionOnSet(Taken', Sales)
    BY <2>5 DEF SumFunction
  <2>7. Taken[s] \in Int
    BY <2>1
  <2> QED
    BY <2>2, <2>4, <2>6, <2>7, SumsOfSales
<1>14. ASSUME ~ shopOverwritten'
       PROVE  /\ ~ shopOverwritten
              /\ copy.stock > 0 => ware = copy
              /\ CopiesAreNotLess /\ DeletedFirst
  BY <1>14, <1>6, <1>i
<1>15. ~ shopOverwritten' => CopiesAreNotLess' /\ DeletedFirst'
  <2> SUFFICES ASSUME ~ shopOverwritten' PROVE CopiesAreNotLess' /\ DeletedFirst'
    OBVIOUS
  <2>1. DeletedFirst'
    <3>1. copy.stock > 0 => ware # NoShopRow
      BY <1>14, <1>2, StorefrontAssumption
    <3> QED
      BY <3>1, <1>14, <1>5, <1>6 DEF DeletedFirst
  <2>2. ASSUME NEW u \in Sales, sale'[u].pc = "units", ware' # NoShopRow
        PROVE  ware'.stock <= sale'[u].copy.stock
    <3>1. CASE copy.stock > 0
      <4>1. ware' = less /\ ware = copy /\ less.stock = ware.stock - 1 /\ ware # NoShopRow
        BY <3>1, <1>14, <1>6, <1>3, <1>2, StorefrontAssumption
      <4>2. CASE u = s
        BY <4>2, <4>1, <3>1, <1>v, <1>4, <1>3 DEF WareRow
      <4>3. CASE u # s
        <5>1. sale'[u] = sale[u] /\ ware.stock <= sale[u].copy.stock
          BY <4>1, <4>3, <2>2, <1>v, <1>14 DEF CopiesAreNotLess
        <5>2. sale[u].copy \in WareRow
          BY <5>1, <2>2, <1>i DEF SalesAreSound, SoundSale
        <5> QED
          BY <5>1, <5>2, <4>1, <1>2 DEF WareRow
      <4> QED
        BY <4>2, <4>3
    <3>2. CASE ~ (copy.stock > 0)
      <4>1. ware' = ware /\ held = copy
        BY <3>2, <1>6
      <4>2. CASE u = s
        BY <4>1, <4>2, <2>2, <1>v, <1>4, <1>1, <1>14 DEF CopiesAreNotLess
      <4>3. CASE u # s
        BY <4>1, <4>3, <2>2, <1>v, <1>14 DEF CopiesAreNotLess
      <4> QED
        BY <4>2, <4>3
    <3> QED
      BY <3>1, <3>2
  <2> QED
    BY <2>1, <2>2 DEF CopiesAreNotLess
<1>16. ShopIsItsOrders'
  <2> SUFFICES ASSUME ~ shopOverwritten'
               PROVE  /\ shop # NoShopRow =>
                            /\ shop.orders = Cardinality(Counted)
                            /\ shop.revenue = SumFunction(Amounts)
                      /\ ware' # NoShopRow =>
                            ware'.stock = IF begun.stock < 0 THEN begun.stock
                                          ELSE Max({0, begun.stock - SumFunction(Taken')})
                      /\ shop = NoShopRow => ware' = NoShopRow
    BY <1>5, <1>12 DEF ShopIsItsOrders
  <2>1. /\ shop # NoShopRow =>
              /\ shop.orders = Cardinality(Counted)
              /\ shop.revenue = SumFunction(Amounts)
        /\ ware # NoShopRow =>
              ware.stock = IF begun.stock < 0 THEN begun.stock
                           ELSE Max({0, begun.stock - SumFunction(Taken)})
        /\ shop = NoShopRow => ware = NoShopRow
    BY <1>14, <1>i DEF ShopIsItsOrders
  <2>2. begun.stock \in Int /\ SumFunction(Taken) \in Int
    BY <1>i, SumsOfSales DEF ShopTypes
  <2>m. /\ Max({0, begun.stock - SumFunction(Taken)})
              = IF begun.stock - SumFunction(Taken) > 0
                THEN begun.stock - SumFunction(Taken) ELSE 0
        /\ Max({0, begun.stock - SumFunction(Taken')})
              = IF begun.stock - SumFunction(Taken) - 1 > 0
                THEN begun.stock - SumFunction(Taken) - 1 ELSE 0
    <3>1. begun.stock - SumFunction(Taken') = begun.stock - SumFunction(Taken) - 1
      BY <1>13, <2>2
    <3>2. /\ begun.stock - SumFunction(Taken) \in Int
          /\ begun.stock - SumFunction(Taken) - 1 \in Int
      BY <2>2
    <3> QED
      BY <3>1, <3>2, MaxOfTwo
  <2>3. CASE copy.stock > 0
    <3>1. ware' = less /\ ware = copy /\ less.stock = ware.stock - 1 /\ ware # NoShopRow
      BY <2>3, <1>14, <1>6, <1>3, <1>2, StorefrontAssumption
    <3> QED
      BY <3>1, <2>1, <2>2, <2>m, <2>3
  <2>4. CASE ~ (copy.stock > 0)
    <3>1. ware' = ware
      BY <2>4, <1>6
    <3>2. ware # NoShopRow => ware.stock <= copy.stock
      BY <1>1, <1>14 DEF CopiesAreNotLess
    <3>3. ware # NoShopRow => ware.stock \in Int
      BY <1>i DEF ShopTypes, WareRow
    <3> QED
      BY <3>1, <3>2, <3>3, <2>1, <2>2, <2>m, <2>4, <1>2
  <2> QED
    BY <2>3, <2>4
<1> QED
  BY <1>7, <1>8, <1>9, <1>11, <1>15, <1>16 DEF ShopIInv

\* What is known of a clerk, and of the rows that a clerk may write.
LEMMA ClerkFacts ==
    ASSUME ShopIInv, NEW t \in Clerks
    PROVE  /\ SoundClerk(clerk[t]) /\ clerk[t] \in ClerkRow
           /\ clerk \in [Clerks -> ClerkRow] /\ SoundClerk(ClerkIdle)
           /\ ShopTypes
           /\ ~ shopOverwritten => (shop = NoShopRow => ware = NoShopRow) /\ DeletedFirst
BY DEF ShopIInv, ClerksAreSound, ShopIsItsOrders, SoundClerk, ClerkRow, ClerkIdle

LEMMA OpenRowStep ==
    ASSUME ShopIInv, NEW t \in Clerks, NEW step, NEW opened,
           \/ step \in {"shop", "add"} /\ opened = shop
           \/ step = "ware" /\ opened = ware,
           OpenRow(t, step, opened), UNCHANGED begun
    PROVE  ShopIInv'
<1> PICK row : row = [pc |-> step, copy |-> opened]
  OBVIOUS
<1>f. ShopTypes /\ (~ shopOverwritten => (shop = NoShopRow => ware = NoShopRow))
  BY ClerkFacts
<1>1. SoundClerk(row) /\ row.pc = step
  BY <1>f DEF SoundClerk, ClerkRow, ShopTypes, OpenRow
<1>2. clerk' = [clerk EXCEPT ![t] = row] /\ UNCHANGED <<shop, ware, sale, shopOverwritten>>
  BY DEF OpenRow
<1>3. begun.shop
  <2>1. ware # NoShopRow => begun.ware
    BY ShopHasBegun
  <2>2. begun.ware => begun.shop
    BY DEF ShopIInv, NothingBefore
  <2> QED
    BY <2>1, <2>2, ShopHasBegun DEF OpenRow
<1>4. ShopTypes'
  BY <1>2, <1>f DEF ShopTypes
<1>5. ~ begun.ware => ware' = NoShopRow /\ row.pc # "ware"
  BY <1>1, <1>2, ShopHasBegun DEF OpenRow
<1>6. row.pc # "delete"
  BY <1>1
<1> QED
  BY <1>1, <1>2, <1>3, <1>4, <1>5, <1>6, <1>f, ClerkMoves

LEMMA EditStorefrontStep ==
    ASSUME ShopIInv, NEW t \in Clerks, NEW active \in BOOLEAN, EditStorefront(t, active),
           UNCHANGED begun
    PROVE  ShopIInv'
<1>f. /\ SoundClerk(clerk[t]) /\ SoundClerk(ClerkIdle) /\ ShopTypes
      /\ ~ shopOverwritten => (shop = NoShopRow => ware = NoShopRow)
  BY ClerkFacts
<1> PICK copy : copy = clerk[t].copy
  OBVIOUS
<1> PICK edited : edited = [copy EXCEPT !.active = active]
  OBVIOUS
<1>1. clerk[t].pc = "shop" /\ begun.shop
  BY ShopHasBegun DEF EditStorefront, ClerkAt
<1>2. copy \in ShopRow
  BY <1>1, <1>f DEF SoundClerk
<1>3. edited \in ShopRow /\ edited.orders = copy.orders /\ edited.revenue = copy.revenue
  BY <1>2 DEF ShopRow
<1>4. /\ shop' = edited /\ shopOverwritten' = (shopOverwritten \/ shop # copy)
      /\ clerk' = [clerk EXCEPT ![t] = ClerkIdle] /\ UNCHANGED <<ware, sale>>
  BY DEF EditStorefront, SaveShopRow
<1>5. ShopTypes'
  <2>1. shopOverwritten' \in BOOLEAN
    BY <1>4
  <2> QED
    BY <2>1, <1>3, <1>4, <1>f DEF ShopTypes
<1>6. /\ shopOverwritten => shopOverwritten'
      /\ ~ begun.ware => ware' = NoShopRow /\ ClerkIdle.pc # "ware"
      /\ ClerkIdle.pc # "delete"
  BY <1>4, ShopHasBegun DEF ClerkIdle
<1>7. copy # NoShopRow /\ edited # NoShopRow
  BY <1>2, <1>3, StorefrontAssumption
<1>8. ~ shopOverwritten' => shop = copy /\ ~ shopOverwritten
  BY <1>4
<1> QED
  BY <1>1, <1>3, <1>4, <1>5, <1>6, <1>7, <1>8, <1>f, ClerkMoves

LEMMA EditItemStep ==
    ASSUME ShopIInv, NEW t \in Clerks, NEW active \in BOOLEAN, NEW price \in ItemPrices,
           EditItem(t, active, price), UNCHANGED begun
    PROVE  ShopIInv'
<1>f. /\ SoundClerk(clerk[t]) /\ SoundClerk(ClerkIdle) /\ ShopTypes
      /\ ~ shopOverwritten => (shop = NoShopRow => ware = NoShopRow)
  BY ClerkFacts
<1> PICK copy : copy = clerk[t].copy
  OBVIOUS
<1> PICK edited : edited = [copy EXCEPT !.active = active, !.price = price]
  OBVIOUS
<1>1. clerk[t].pc = "ware" /\ begun.shop /\ begun.ware
  BY ShopHasBegun DEF EditItem, ClerkAt
<1>2. copy \in WareRow
  BY <1>1, <1>f DEF SoundClerk
<1>3. edited \in WareRow /\ edited.stock = copy.stock
  BY <1>2, StorefrontAssumption DEF WareRow
<1>4. /\ ware' = edited /\ shopOverwritten' = (shopOverwritten \/ ware # copy)
      /\ clerk' = [clerk EXCEPT ![t] = ClerkIdle] /\ UNCHANGED <<shop, sale>>
  BY DEF EditItem, SaveWareRow
<1>5. ShopTypes'
  <2>1. shopOverwritten' \in BOOLEAN
    BY <1>4
  <2> QED
    BY <2>1, <1>3, <1>4, <1>f DEF ShopTypes
<1>6. /\ shopOverwritten => shopOverwritten'
      /\ ClerkIdle.pc # "delete"
  BY <1>4 DEF ClerkIdle
<1>7. copy # NoShopRow /\ edited # NoShopRow
  BY <1>2, <1>3, StorefrontAssumption
<1>8. ~ shopOverwritten' => ware = copy /\ ~ shopOverwritten /\ shop # NoShopRow
  BY <1>4, <1>7, <1>f
<1> QED
  BY <1>1, <1>3, <1>4, <1>5, <1>6, <1>7, <1>8, <1>f, ClerkMoves

LEMMA DeleteSteps ==
    ASSUME ShopIInv, NEW t \in Clerks, UNCHANGED begun,
           DeleteItem(t) \/ DeleteItems(t) \/ DeleteStorefront(t)
    PROVE  ShopIInv'
<1>f. /\ SoundClerk(clerk[t]) /\ clerk[t] \in ClerkRow /\ clerk \in [Clerks -> ClerkRow]
      /\ SoundClerk(ClerkIdle) /\ ShopTypes
      /\ ~ shopOverwritten => (shop = NoShopRow => ware = NoShopRow) /\ DeletedFirst
  BY ClerkFacts
<1>0. begun.shop /\ ClerkIdle.pc = "idle"
  BY ShopHasBegun DEF DeleteItem, DeleteItems, DeleteStorefront, ClerkAt, ClerkIdle
<1>n. ~ begun.ware => ware = NoShopRow
  BY ShopHasBegun
<1>1. CASE DeleteItem(t)
  <2>1. ware' = NoShopRow /\ clerk' = [clerk EXCEPT ![t] = ClerkIdle]
        /\ UNCHANGED <<shop, sale, shopOverwritten>>
    BY <1>1 DEF DeleteItem
  <2>2. ShopTypes'
    BY <2>1, <1>f DEF ShopTypes
  <2> QED
    BY <2>1, <2>2, <1>0, <1>f, ClerkMoves
<1>2. CASE DeleteItems(t)
  <2> PICK row : row = [clerk[t] EXCEPT !.pc = "delete"]
    OBVIOUS
  <2>1. ware' = NoShopRow /\ clerk' = [clerk EXCEPT ![t] = row]
        /\ UNCHANGED <<shop, sale, shopOverwritten>>
    BY <1>2, <1>f DEF DeleteItems
  <2>2. ShopTypes'
    BY <2>1, <1>f DEF ShopTypes
  <2>3. SoundClerk(row) /\ row.pc = "delete"
    BY <1>f DEF SoundClerk, ClerkRow
  <2> QED
    BY <2>1, <2>2, <2>3, <1>0, <1>f, ClerkMoves
<1>3. CASE DeleteStorefront(t)
  <2>1. shop' = NoShopRow /\ clerk' = [clerk EXCEPT ![t] = ClerkIdle]
        /\ UNCHANGED <<ware, sale, shopOverwritten>>
    BY <1>3 DEF DeleteStorefront
  <2>2. ShopTypes'
    BY <2>1, <1>f DEF ShopTypes
  <2>3. ~ shopOverwritten => ware = NoShopRow
    BY <1>3, <1>f DEF DeleteStorefront, ClerkAt, DeletedFirst
  <2> QED
    BY <2>1, <2>2, <2>3, <1>0, <1>n, <1>f, ClerkMoves
<1> QED
  BY <1>1, <1>2, <1>3

LEMMA CreateStorefrontStep ==
    ASSUME ShopIInv, CreateStorefront
    PROVE  ShopIInv'
<1>i. /\ ShopTypes /\ SalesAreSound /\ ClerksAreSound /\ NothingBefore
      /\ ShopIsItsOrders
      /\ ~ shopOverwritten => CopiesAreNotLess /\ DeletedFirst
  BY DEF ShopIInv
<1> PICK row : row = [active |-> TRUE, orders |-> 0, revenue |-> 0]
  OBVIOUS
<1>1. row \in ShopRow /\ row # NoShopRow /\ row.orders = 0 /\ row.revenue = 0
  <2>1. row \in ShopRow
    BY DEF ShopRow
  <2> QED
    BY <2>1, StorefrontAssumption
<1>2. /\ ~ begun.shop /\ shop' = row /\ begun' = [begun EXCEPT !.shop = TRUE]
      /\ UNCHANGED <<ware, sale, clerk, shopOverwritten>>
  BY DEF CreateStorefront
<1>3. /\ begun'.shop /\ begun'.ware = begun.ware /\ begun'.stock = begun.stock
      /\ begun' \in [shop : BOOLEAN, ware : BOOLEAN, stock : Int]
  BY <1>2, <1>i DEF ShopTypes
<1>4. ShopTypes'
  BY <1>1, <1>2, <1>3, <1>i DEF ShopTypes
<1>5. SalesAreSound' /\ ClerksAreSound'
  BY <1>2, <1>i DEF SalesAreSound, SoundSale, ClerksAreSound, SoundClerk
<1>6. NothingBefore'
  BY <1>2, <1>3, <1>i DEF NothingBefore
<1>7. ~ shopOverwritten' => CopiesAreNotLess' /\ DeletedFirst'
  BY <1>2, <1>i DEF CopiesAreNotLess, DeletedFirst
<1>8. Taken' = Taken /\ Counted' = Counted /\ Amounts' = Amounts
  BY <1>2 DEF Taken, Counted, Amounts
<1>9. Cardinality(Counted) = 0 /\ SumFunction(Amounts) = 0
  BY <1>2, SumsBefore, FS_EmptySet
<1>10. ware = NoShopRow
  BY <1>2, <1>i DEF NothingBefore
<1>11. ShopIsItsOrders'
  BY <1>1, <1>2, <1>8, <1>9, <1>10 DEF ShopIsItsOrders
<1> QED
  BY <1>4, <1>5, <1>6, <1>7, <1>11 DEF ShopIInv

LEMMA AddItemStep ==
    ASSUME ShopIInv, NEW t \in Clerks, NEW price \in ItemPrices, AddItem(t, price)
    PROVE  ShopIInv'
<1>i. /\ ShopTypes /\ SalesAreSound /\ ClerksAreSound /\ NothingBefore
      /\ ShopIsItsOrders
      /\ ~ shopOverwritten => CopiesAreNotLess /\ DeletedFirst
  BY DEF ShopIInv
<1>f. clerk \in [Clerks -> ClerkRow] /\ SoundClerk(ClerkIdle) /\ ClerkIdle \in ClerkRow
  BY ClerkFacts DEF SoundClerk
<1> PICK row : row = [active |-> TRUE, price |-> price, stock |-> -1]
  OBVIOUS
<1>1. row \in WareRow /\ row.stock = -1
  BY StorefrontAssumption DEF WareRow
<1>2. /\ clerk[t].pc = "add" /\ ~ begun.ware /\ ware' = row
      /\ begun' = [begun EXCEPT !.ware = TRUE, !.stock = -1]
      /\ shopOverwritten' = (shopOverwritten \/ shop = NoShopRow
                                             \/ \E u \in Clerks : clerk[u].pc = "delete")
      /\ clerk' = [clerk EXCEPT ![t] = ClerkIdle]
      /\ UNCHANGED <<shop, sale>>
  BY DEF AddItem, ClerkAt
<1>3. /\ begun'.shop = begun.shop /\ begun'.ware /\ begun'.stock = -1
      /\ begun' \in [shop : BOOLEAN, ware : BOOLEAN, stock : Int]
  <2>1. begun \in [shop : BOOLEAN, ware : BOOLEAN, stock : Int]
    BY <1>i DEF ShopTypes
  <2>2. -1 \in Int /\ TRUE \in BOOLEAN
    OBVIOUS
  <2> PICK minus : minus = -1
    OBVIOUS
  <2>3. begun' = [begun EXCEPT !.ware = TRUE, !.stock = minus]
    BY <1>2
  <2>4. minus \in Int
    BY <2>2
  <2>5. begun' \in [shop : BOOLEAN, ware : BOOLEAN, stock : Int]
    BY <2>1, <2>3, <2>4
  <2> QED
    BY <2>1, <2>3, <2>5
<1>b. begun.shop
  BY <1>2, ShopHasBegun
<1>v. clerk'[t] = ClerkIdle /\ \A u \in Clerks \ {t} : clerk'[u] = clerk[u]
  BY <1>2, <1>f
<1>4. ShopTypes'
  <2>1. shopOverwritten' \in BOOLEAN
    BY <1>2
  <2> QED
    BY <2>1, <1>1, <1>2, <1>3, <1>i DEF ShopTypes
<1>5. SalesAreSound'
  BY <1>2, <1>i DEF SalesAreSound, SoundSale
<1>6. ClerksAreSound'
  <2>1. clerk' \in [Clerks -> ClerkRow]
    BY <1>2, <1>f
  <2>2. \A u \in Clerks : SoundClerk(clerk'[u])
    BY <1>v, <1>f, <1>i DEF ClerksAreSound
  <2> QED
    BY <2>1, <2>2, Zenon DEF ClerksAreSound, SoundClerk
<1>7. NothingBefore'
  BY <1>b, <1>3 DEF NothingBefore
<1>8. ~ shopOverwritten' => CopiesAreNotLess' /\ DeletedFirst'
  <2>1. \A s \in Sales : sale[s].pc # "units"
    <3>1. \A s \in Sales : sale[s].units = 0 /\ SoundSale(sale[s]) /\ sale[s] \in SaleRow
      BY <1>2, <1>i DEF NothingBefore, SalesAreSound, SoundSale
    <3> QED
      BY <3>1 DEF SoundSale, SaleRow
  <2>2. ~ shopOverwritten' => \A u \in Clerks : clerk[u].pc # "delete"
    BY <1>2
  <2>3. CopiesAreNotLess'
    BY <2>1, <1>2 DEF CopiesAreNotLess
  <2>4. ClerkIdle.pc # "delete"
    BY DEF ClerkIdle
  <2> QED
    BY <2>2, <2>3, <2>4, <1>v DEF DeletedFirst
<1>9. Taken' = Taken /\ Counted' = Counted /\ Amounts' = Amounts
  BY <1>2 DEF Taken, Counted, Amounts
<1>10. ShopIsItsOrders'
  <2> SUFFICES ASSUME ~ shopOverwritten'
               PROVE  /\ shop # NoShopRow =>
                            /\ shop.orders = Cardinality(Counted)
                            /\ shop.revenue = SumFunction(Amounts)
                      /\ row.stock = -1 /\ shop # NoShopRow
    BY <1>2, <1>3, <1>9 DEF ShopIsItsOrders
  <2> QED
    BY <1>1, <1>2, <1>i DEF ShopIsItsOrders
<1> QED
  BY <1>4, <1>5, <1>6, <1>7, <1>8, <1>10 DEF ShopIInv

LEMMA ShopRowsStep ==
    ASSUME ShopIInv, RowsChange, UNCHANGED begun
    PROVE  ShopIInv'
<1>1. ASSUME NEW s \in Sales, NEW units \in 1 .. MaxUnits, CartCheckout(s, units)
      PROVE  ShopIInv'
  <2>1. OnSale /\ Order(s, units, units * ware.price)
    BY <1>1 DEF CartCheckout
  <2>2. ware.price \in Int /\ units \in Nat
    BY <2>1, StorefrontAssumption DEF OnSale, ShopIInv, ShopTypes, WareRow
  <2>3. units * ware.price \in Int
    BY <2>2
  <2> QED
    BY <2>1, <2>2, <2>3, OrderStep
<1>2. ASSUME NEW s \in Sales, BuyItem(s) PROVE ShopIInv'
  <2>1. OnSale /\ Order(s, 1, ware.price)
    BY <1>2 DEF BuyItem
  <2>2. ware.price \in Int
    BY <2>1 DEF OnSale, ShopIInv, ShopTypes, WareRow
  <2> QED
    BY <2>1, <2>2, OrderStep
<1>3. ASSUME NEW s \in Sales, Donate(s) PROVE ShopIInv'
  <2>1. PICK amount \in ItemPrices : Order(s, 0, amount)
    BY <1>3 DEF Donate
  <2>2. amount \in Int
    BY StorefrontAssumption
  <2> QED
    BY <2>1, <2>2, OrderStep
<1>4. ASSUME NEW t \in Clerks,
             OpenRow(t, "shop", shop) \/ OpenRow(t, "ware", ware) \/ OpenRow(t, "add", shop)
      PROVE  ShopIInv'
  BY <1>4, OpenRowStep
<1> QED
  BY <1>1, <1>2, <1>3, <1>4, BeginFulfilmentStep, CountOrderStep, TakeItemStep,
     DecrementStep, MarkFulfilledStep, DeleteSteps, EditStorefrontStep, EditItemStep
     DEF RowsChange

\* While no copy is saved over a newer row, the storefront's totals and the item's
\* stock are those of the orders, and no item outlives its storefront (fulfillment.py,
\* public_views.py, views.py).
THEOREM ShopFollowsOrders == StorefrontSpec => []ShopIsItsOrders
<1>1. ASSUME ShopIInv, [StorefrontNext]_shopVars PROVE ShopIInv'
  <2>1. CASE CreateStorefront
    BY <1>1, <2>1, CreateStorefrontStep
  <2>2. ASSUME NEW t \in Clerks, NEW price \in ItemPrices, AddItem(t, price)
        PROVE  ShopIInv'
    BY <1>1, <2>2, AddItemStep
  <2>3. CASE RowsChange /\ UNCHANGED begun
    BY <1>1, <2>3, ShopRowsStep
  <2>4. CASE UNCHANGED shopVars
    <3>1. UNCHANGED <<shop, ware, sale, clerk, begun, shopOverwritten>>
      BY <2>4 DEF shopVars
    <3>2. Taken' = Taken /\ Counted' = Counted /\ Amounts' = Amounts
      BY <3>1 DEF Taken, Counted, Amounts
    <3>3. ShopIsItsOrders' /\ ShopTypes' /\ NothingBefore'
      BY <1>1, <3>1, <3>2 DEF ShopIInv, ShopIsItsOrders, ShopTypes, NothingBefore
    <3>4. SalesAreSound' /\ ClerksAreSound'
      BY <1>1, <3>1 DEF ShopIInv, SalesAreSound, ClerksAreSound, SoundSale, SoundClerk
    <3>5. ~ shopOverwritten' => CopiesAreNotLess' /\ DeletedFirst'
      BY <1>1, <3>1 DEF ShopIInv, CopiesAreNotLess, DeletedFirst
    <3> QED
      BY <3>3, <3>4, <3>5 DEF ShopIInv
  <2> QED
    BY <1>1, <2>1, <2>2, <2>3, <2>4 DEF StorefrontNext
<1>2. ShopIInv => ShopIsItsOrders
  BY DEF ShopIInv
<1> QED
  BY ShopInitially, <1>1, <1>2, PTL DEF StorefrontSpec

-------------------------------------------------------------------------------
(* API calls. *)

CallSteps == {"idle", "look", "pop", "count", "append", "stamp", "sweep", "drop",
              "otherSweep", "otherDrop"}
CallRow == [pc : CallSteps, window : Nat, at : Nat, stale : BOOLEAN]

ApiTypes ==
    /\ now \in Nat /\ cleaned \in Nat /\ let \in Seq(Nat)
    /\ windows \in Seq(Seq(Nat)) /\ current \in 0 .. Len(windows)
    /\ caller \in [Callers -> CallRow]
    /\ key \in BOOLEAN /\ dropped \in BOOLEAN
    /\ keyOverwritten \in BOOLEAN /\ revoked \in BOOLEAN

\* The deque in _windows, or the one that defaultdict would make.
Kept == IF current = 0 THEN <<>> ELSE windows[current]

\* The places of the stamps in a sequence that are in T.
Stamps(s, T) == {n \in DOMAIN s : s[n] \in T}
From(x) == {y \in Nat : y >= x}
Span(t) == t .. t + Window

\* Threads that will append a stamp in the window from t, and those that may yet
\* count with the clock of a step ago.
Due(t) == {c \in Callers : caller[c].pc = "append" /\ caller[c].at \in Span(t)}
Slow == {c \in Callers : caller[c].pc \in {"look", "pop", "count"} /\ caller[c].at = now - 1}

\* As many stamps from x on are kept as calls were let through.
HeldFrom(x) == Cardinality(Stamps(let, From(x))) <= Cardinality(Stamps(Kept, From(x)))

LetOrDue(t) == Cardinality(LetThrough(t)) + Cardinality(Due(t))

ChecksAreCurrent ==
    \A c \in Callers : Checking(c) =>
        /\ current # 0 /\ caller[c].window = current
        /\ caller[c].at \in {now - 1, now}

StampsAreHeld == \A x \in 0 .. MaxTime : x >= now - Window => HeldFrom(x)

\* In the windows that no thread pops from yet, in the one that the threads with the
\* later clock pop from, and in those that no thread appends to any more.
OpenWindows ==
    \A t \in 0 .. MaxTime : t >= now - Window =>
        LetOrDue(t) <= MaxAttempts + Cardinality(Callers) - 1

ClosingWindow ==
    \A t \in 0 .. MaxTime : t = now - 1 - Window =>
        \/ HeldFrom(t) /\ LetOrDue(t) <= MaxAttempts + Cardinality(Callers) - 1
        \/ LetOrDue(t) + Cardinality(Slow) <= MaxAttempts + 2 * Cardinality(Callers) - 2

ClosedWindows ==
    \A t \in 0 .. MaxTime : t < now - 1 - Window =>
        Cardinality(LetThrough(t)) <= MaxAttempts + 2 * Cardinality(Callers) - 2

LimitsHold ==
    ChecksAreCurrent /\ StampsAreHeld /\ OpenWindows /\ ClosingWindow /\ ClosedWindows

RevokedStays == revoked /\ ~ keyOverwritten => ~ key

ApiIInv == ApiTypes /\ RevokedStays /\ (~ dropped => LimitsHold)

LEMMA StampsAreFinite ==
    ASSUME NEW s \in Seq(Nat), NEW T
    PROVE  /\ IsFiniteSet(Stamps(s, T))
           /\ Cardinality(Stamps(s, T)) \in 0 .. Len(s)
<1>1. DOMAIN s = 1 .. Len(s) /\ Len(s) \in Nat
  OBVIOUS
<1>2. IsFiniteSet(1 .. Len(s)) /\ Cardinality(1 .. Len(s)) = Len(s)
  <2>1. /\ IsFiniteSet(1 .. Len(s))
        /\ Cardinality(1 .. Len(s)) = IF 1 > Len(s) THEN 0 ELSE Len(s) - 1 + 1
    BY <1>1, FS_Interval, 1 \in Int, Len(s) \in Int, Zenon
  <2> QED
    BY <1>1, <2>1
<1>3. Stamps(s, T) \in SUBSET (1 .. Len(s))
  BY <1>1 DEF Stamps
<1>4. IsFiniteSet(Stamps(s, T)) /\ Cardinality(Stamps(s, T)) <= Len(s)
  BY <1>2, <1>3, FS_Subset
<1>5. Cardinality(Stamps(s, T)) \in Nat
  BY <1>4, FS_CardinalityType
<1> QED
  BY <1>1, <1>4, <1>5

LEMMA MoreStamps ==
    ASSUME NEW s \in Seq(Nat), NEW T, NEW U, \A y \in Nat : y \in T => y \in U
    PROVE  Cardinality(Stamps(s, T)) <= Cardinality(Stamps(s, U))
<1>1. Stamps(s, T) \in SUBSET Stamps(s, U)
  <2>1. \A n \in DOMAIN s : s[n] \in Nat
    OBVIOUS
  <2> QED
    BY <2>1 DEF Stamps
<1> QED
  BY <1>1, StampsAreFinite, FS_Subset

LEMMA StampAppended ==
    ASSUME NEW s \in Seq(Nat), NEW e \in Nat, NEW T
    PROVE  Cardinality(Stamps(Append(s, e), T)) =
              IF e \in T THEN Cardinality(Stamps(s, T)) + 1 ELSE Cardinality(Stamps(s, T))
<1> DEFINE m == Len(s) + 1
<1>1. /\ DOMAIN s = 1 .. Len(s) /\ Len(s) \in Nat
      /\ DOMAIN Append(s, e) = 1 .. m
      /\ \A n \in 1 .. Len(s) : Append(s, e)[n] = s[n]
      /\ Append(s, e)[m] = e
  OBVIOUS
<1>2. \A n : n \in Stamps(Append(s, e), T) <=>
                n \in Stamps(s, T) \/ (n = m /\ e \in T)
  BY <1>1 DEF Stamps
<1>3. m \notin Stamps(s, T)
  BY <1>1 DEF Stamps
<1>4. IsFiniteSet(Stamps(s, T))
  BY StampsAreFinite
<1> HIDE DEF m
<1>5. CASE e \in T
  <2>1. Stamps(Append(s, e), T) = Stamps(s, T) \cup {m}
    BY <1>2, <1>5
  <2>2. Cardinality(Stamps(s, T) \cup {m}) = Cardinality(Stamps(s, T)) + 1
    BY <1>3, <1>4, FS_AddElement, Zenon
  <2> QED
    BY <1>5, <2>1, <2>2
<1>6. CASE e \notin T
  <2>1. Stamps(Append(s, e), T) = Stamps(s, T)
    BY <1>2, <1>6
  <2> QED
    BY <1>6, <2>1
<1> QED
  BY <1>5, <1>6

LEMMA OldStampPopped ==
    ASSUME NEW s \in Seq(Nat), s # <<>>, NEW T, Head(s) \notin T
    PROVE  Cardinality(Stamps(Tail(s), T)) = Cardinality(Stamps(s, T))
<1>1. /\ DOMAIN s = 1 .. Len(s) /\ Len(s) \in Nat /\ Head(s) = s[1]
      /\ Tail(s) \in Seq(Nat)
      /\ DOMAIN Tail(s) = 1 .. Len(s) - 1
      /\ \A n \in 1 .. Len(s) - 1 : Tail(s)[n] = s[n + 1]
  OBVIOUS
<1> DEFINE A == Stamps(Tail(s), T)
           B == Stamps(s, T)
           f == [n \in A |-> n + 1]
<1>2. \A n \in A : n \in 1 .. Len(s) - 1 /\ n + 1 \in B
  BY <1>1 DEF Stamps
<1>3. \A k \in B : k \in 2 .. Len(s) /\ k - 1 \in A
  BY <1>1 DEF Stamps
<1> HIDE DEF A, B
<1>4. f \in Injection(A, B)
  <2>1. f \in [A -> B]
    BY <1>2
  <2>2. \A a, b \in A : f[a] = f[b] => a = b
    BY <1>2
  <2> QED
    BY <2>1, <2>2 DEF Injection, IsInjective
<1>5. f \in Surjection(A, B)
  <2>1. \A k \in B : \E n \in A : f[n] = k
    <3>1. TAKE k \in B
    <3>2. k - 1 \in A /\ k \in Int
      BY <1>3
    <3>3. f[k - 1] = k
      BY <3>2
    <3> QED
      BY <3>2, <3>3
  <2> QED
    BY <1>2, <2>1 DEF Surjection
<1>6. ExistsBijection(A, B)
  BY <1>4, <1>5 DEF ExistsBijection, Bijection
<1>7. IsFiniteSet(A)
  BY <1>1, StampsAreFinite DEF A
<1>8. Cardinality(B) = Cardinality(A)
  BY <1>6, <1>7, FS_Bijection
<1> QED
  BY <1>8 DEF A, B

LEMMA ThreadsAreFinite ==
    ASSUME NEW S, S \subseteq Callers
    PROVE  /\ IsFiniteSet(S) /\ Cardinality(S) \in Nat
           /\ Cardinality(Callers) \in Nat /\ Cardinality(Callers) > 0
           /\ Cardinality(S) <= Cardinality(Callers)
           /\ \A c \in Callers : c \notin S => Cardinality(S) <= Cardinality(Callers) - 1
<1>1. IsFiniteSet(Callers) /\ Callers # {} /\ S \in SUBSET Callers
  BY ApiAssumption
<1>2. IsFiniteSet(S) /\ Cardinality(S) <= Cardinality(Callers)
  BY <1>1, FS_Subset
<1>3. Cardinality(S) \in Nat /\ Cardinality(Callers) \in Nat
  BY <1>1, <1>2, FS_CardinalityType
<1>4. Cardinality(Callers) # 0
  BY <1>1, FS_EmptySet
<1>5. ASSUME NEW c \in Callers, c \notin S
      PROVE  Cardinality(S) <= Cardinality(Callers) - 1
  <2>1. Cardinality(S) # Cardinality(Callers)
    BY <1>1, <1>5, FS_Subset
  <2> QED
    BY <1>2, <1>3, <2>1
<1> QED
  BY <1>2, <1>3, <1>4, <1>5

LEMMA KeptIsDeque == ApiTypes => Kept \in Seq(Nat)
<1> SUFFICES ASSUME ApiTypes PROVE Kept \in Seq(Nat)
  OBVIOUS
<1>1. CASE current = 0
  BY <1>1 DEF Kept
<1>2. CASE current # 0
  <2>1. current \in DOMAIN windows
    BY <1>2 DEF ApiTypes
  <2>2. windows[current] \in Seq(Nat)
    BY <2>1 DEF ApiTypes
  <2> QED
    BY <1>2, <2>2 DEF Kept
<1> QED
  BY <1>1, <1>2

\* A step that lets no call through, and after which no more are due or late.
LEMMA LimitsGoOn ==
    ASSUME ApiTypes, LimitsHold, ApiTypes', now' = now, let' = let,
           ChecksAreCurrent', StampsAreHeld',
           \A t \in 0 .. MaxTime : Due(t)' \subseteq Due(t),
           Slow' \subseteq Slow,
           \A t \in 0 .. MaxTime : t = now - 1 - Window /\ HeldFrom(t) =>
               HeldFrom(t)' \/ Cardinality(Slow') <= Cardinality(Callers) - 1
    PROVE  LimitsHold'
<1>1. ASSUME NEW t \in 0 .. MaxTime
      PROVE  /\ Cardinality(LetThrough(t)') = Cardinality(LetThrough(t))
             /\ Cardinality(LetThrough(t)) \in Nat
             /\ Cardinality(Due(t)) \in Nat /\ Cardinality(Due(t)') \in Nat
             /\ Cardinality(Due(t)') <= Cardinality(Due(t))
             /\ LetOrDue(t)' <= LetOrDue(t)
             /\ LetOrDue(t) \in Nat /\ LetOrDue(t)' \in Nat
  <2>1. LetThrough(t)' = LetThrough(t) /\ LetThrough(t) = Stamps(let, Span(t))
    BY DEF LetThrough, Stamps, Span
  <2>2. Cardinality(LetThrough(t)) \in Nat
    BY <2>1, StampsAreFinite DEF ApiTypes
  <2>3. Due(t) \subseteq Callers /\ Due(t)' \subseteq Callers
    BY DEF Due
  <2>4. /\ IsFiniteSet(Due(t))
        /\ Cardinality(Due(t)) \in Nat /\ Cardinality(Due(t)') \in Nat
    BY <2>3, ThreadsAreFinite
  <2>5. Cardinality(Due(t)') <= Cardinality(Due(t))
    BY <2>4, FS_Subset
  <2> QED
    BY <2>1, <2>2, <2>4, <2>5 DEF LetOrDue
<1>2. /\ Cardinality(Slow) \in Nat /\ Cardinality(Slow') \in Nat
      /\ Cardinality(Slow') <= Cardinality(Slow)
  <2>1. Slow \subseteq Callers /\ Slow' \subseteq Callers
    BY DEF Slow
  <2>2. IsFiniteSet(Slow) /\ Cardinality(Slow) \in Nat /\ Cardinality(Slow') \in Nat
    BY <2>1, ThreadsAreFinite
  <2> QED
    BY <2>2, FS_Subset
<1>3. /\ Cardinality(Callers) \in Nat /\ Cardinality(Callers) > 0
      /\ MaxAttempts \in Nat /\ now \in Nat /\ Window \in Nat
  BY ThreadsAreFinite, ApiAssumption DEF ApiTypes
<1>4. OpenWindows'
  BY <1>1, <1>3 DEF OpenWindows, LimitsHold
<1>5. ClosingWindow'
  <2> SUFFICES ASSUME NEW t \in 0 .. MaxTime, t = now - 1 - Window
               PROVE  \/ HeldFrom(t)' /\ LetOrDue(t)' <= MaxAttempts + Cardinality(Callers) - 1
                      \/ LetOrDue(t)' + Cardinality(Slow') <=
                            MaxAttempts + 2 * Cardinality(Callers) - 2
    BY DEF ClosingWindow
  <2>1. LetOrDue(t)' <= LetOrDue(t) /\ LetOrDue(t) \in Nat /\ LetOrDue(t)' \in Nat
    BY <1>1
  <2>2. \/ HeldFrom(t) /\ LetOrDue(t) <= MaxAttempts + Cardinality(Callers) - 1
        \/ LetOrDue(t) + Cardinality(Slow) <= MaxAttempts + 2 * Cardinality(Callers) - 2
    BY DEF LimitsHold, ClosingWindow
  <2>3. HeldFrom(t) => HeldFrom(t)' \/ Cardinality(Slow') <= Cardinality(Callers) - 1
    OBVIOUS
  <2> QED
    BY <1>2, <1>3, <2>1, <2>2, <2>3
<1>6. ClosedWindows'
  BY <1>1, <1>3 DEF ClosedWindows, LimitsHold
<1> QED
  BY <1>4, <1>5, <1>6 DEF LimitsHold

\* A thread goes on, but not to append.
LEMMA CallGoesOn ==
    ASSUME ApiTypes, LimitsHold, ApiTypes', now' = now, let' = let,
           NEW c \in Callers, NEW row \in CallRow,
           caller' = [caller EXCEPT ![c] = row],
           Kept' = Kept, current' = current \/ current = 0,
           row.pc # "append",
           row.pc \in {"look", "pop", "count"} =>
              /\ current' # 0 /\ row.window = current'
              /\ \/ row.at = now
                 \/ caller[c].pc \in {"look", "pop", "count"} /\ row.at = caller[c].at
    PROVE  LimitsHold'
<1>1. /\ caller'[c] = row
      /\ \A d \in Callers \ {c} : caller'[d] = caller[d]
  BY DEF ApiTypes
<1>2. ChecksAreCurrent'
  <2> SUFFICES ASSUME NEW d \in Callers, Checking(d)'
               PROVE  /\ current' # 0 /\ caller'[d].window = current'
                      /\ caller'[d].at \in {now - 1, now}
    BY DEF ChecksAreCurrent
  <2>1. ChecksAreCurrent
    BY DEF LimitsHold
  <2>2. CASE d = c
    <3>1. row.pc \in {"look", "pop", "count"}
      BY <1>1, <2>2 DEF Checking
    <3>2. caller[c].pc \in {"look", "pop", "count"} => caller[c].at \in {now - 1, now}
      BY <2>1 DEF ChecksAreCurrent, Checking
    <3> QED
      BY <1>1, <2>2, <3>1, <3>2
  <2>3. CASE d # c
    <3>1. caller'[d] = caller[d] /\ Checking(d)
      BY <1>1, <2>3 DEF Checking
    <3> QED
      BY <2>1, <3>1 DEF ChecksAreCurrent
  <2> QED
    BY <2>2, <2>3
<1>3. \A t : HeldFrom(t)' = HeldFrom(t)
  BY DEF HeldFrom, Stamps, From
<1>4. StampsAreHeld'
  BY <1>3 DEF StampsAreHeld, LimitsHold
<1>5. \A t \in 0 .. MaxTime : Due(t)' \subseteq Due(t)
  BY <1>1 DEF Due, Span
<1>6. Slow' \subseteq Slow
  <2>1. now # now - 1
    BY DEF ApiTypes
  <2> QED
    BY <1>1, <2>1 DEF Slow
<1> QED
  BY <1>2, <1>3, <1>4, <1>5, <1>6, LimitsGoOn

LEMMA Rows ==
    /\ NoCall \in CallRow
    /\ \A row \in CallRow, pc \in CallSteps : [row EXCEPT !.pc = pc] \in CallRow
    /\ \A pc \in CallSteps, w \in Nat, at \in Nat :
          [NoCall EXCEPT !.pc = pc, !.window = w, !.at = at] \in CallRow
    /\ \A row \in CallRow, pc \in CallSteps, stale \in BOOLEAN :
          [row EXCEPT !.pc = pc, !.stale = stale] \in CallRow
<1>1. NoCall \in CallRow
  BY DEF NoCall, CallRow, CallSteps
<1>2. ASSUME NEW row \in CallRow, NEW pc \in CallSteps PROVE [row EXCEPT !.pc = pc] \in CallRow
  BY DEF CallRow, CallSteps
<1>3. ASSUME NEW pc \in CallSteps, NEW w \in Nat, NEW at \in Nat
      PROVE  [NoCall EXCEPT !.pc = pc, !.window = w, !.at = at] \in CallRow
  BY DEF CallRow, CallSteps, NoCall
<1>4. ASSUME NEW row \in CallRow, NEW pc \in CallSteps, NEW stale \in BOOLEAN
      PROVE  [row EXCEPT !.pc = pc, !.stale = stale] \in CallRow
  BY DEF CallRow, CallSteps
<1> QED
  BY <1>1, <1>2, <1>3, <1>4

\* What a thread's next place is, whatever the step.
LEMMA CallersAreTyped ==
    ASSUME ApiTypes, NEW c \in Callers, NEW row \in CallRow,
           caller' = [caller EXCEPT ![c] = row]
    PROVE  caller' \in [Callers -> CallRow]
BY DEF ApiTypes

\* The row that each step of a call leaves to its thread.
LEMMA RowAfter ==
    ASSUME ApiTypes, NEW c \in Callers
    PROVE  /\ BeginCall(c) => \E row \in CallRow :
                 /\ caller' = [caller EXCEPT ![c] = row]
                 /\ row.pc = "look" /\ row.window = current' /\ row.at = now
           /\ Look(c) \/ PopStamp(c) \/ CountCall(c) => \E row \in CallRow :
                 /\ caller' = [caller EXCEPT ![c] = row]
                 /\ row.pc # "idle" => row.window = caller[c].window /\ row.at = caller[c].at
                 /\ Look(c) => row.pc \in {"pop", "count"}
                 /\ PopStamp(c) => row.pc = IF Deque(c) = <<>> THEN "idle" ELSE "look"
                 /\ CountCall(c) => row.pc = IF Len(Deque(c)) >= MaxAttempts THEN "idle"
                                             ELSE "append"
           /\ AppendCall(c) \/ CallOther(c) \/ Sweep(c) \/ Drop(c) \/ StampKey(c) =>
                 \E row \in CallRow :
                    /\ caller' = [caller EXCEPT ![c] = row]
                    /\ row.pc \notin {"look", "pop", "count", "append"}
<1>1. caller[c] \in CallRow /\ now \in Nat
  BY DEF ApiTypes
<1>2. ASSUME BeginCall(c)
      PROVE \E row \in CallRow : /\ caller' = [caller EXCEPT ![c] = row]
                                 /\ row.pc = "look" /\ row.window = current' /\ row.at = now
  <2> DEFINE row == [NoCall EXCEPT !.pc = "look", !.window = current', !.at = now]
  <2>1. current' \in Nat
    BY <1>2 DEF BeginCall, ApiTypes
  <2>2. row \in CallRow
    BY <1>1, <2>1, Rows DEF CallSteps
  <2>3. row.pc = "look" /\ row.window = current' /\ row.at = now
    BY DEF NoCall
  <2>4. caller' = [caller EXCEPT ![c] = row]
    BY <1>2 DEF BeginCall
  <2> QED
    BY <2>2, <2>3, <2>4
<1> DEFINE Kind(pc) == [caller[c] EXCEPT !.pc = pc]
<1>3. ASSUME NEW pc \in CallSteps
      PROVE  /\ Kind(pc) \in CallRow /\ Kind(pc).pc = pc
             /\ Kind(pc).window = caller[c].window /\ Kind(pc).at = caller[c].at
             /\ [caller EXCEPT ![c].pc = pc] = [caller EXCEPT ![c] = Kind(pc)]
  <2>1. Kind(pc) \in CallRow
    BY <1>1, Rows
  <2>2. /\ Kind(pc).pc = pc
        /\ Kind(pc).window = caller[c].window /\ Kind(pc).at = caller[c].at
    BY <1>1 DEF CallRow, CallSteps
  <2> QED
    BY <2>1, <2>2
<1>4. NoCall \in CallRow /\ NoCall.pc = "idle"
  BY Rows DEF NoCall
<1>5. ASSUME Look(c)
      PROVE  \E row \in CallRow : /\ caller' = [caller EXCEPT ![c] = row]
                                  /\ row.window = caller[c].window /\ row.at = caller[c].at
                                  /\ row.pc \in {"pop", "count"}
  <2> DEFINE pc == IF Deque(c) # <<>> /\ Old(Head(Deque(c)), caller[c].at) THEN "pop" ELSE "count"
  <2>1. pc \in CallSteps /\ pc \in {"pop", "count"}
    BY DEF CallSteps
  <2>2. caller' = [caller EXCEPT ![c].pc = pc]
    BY <1>5 DEF Look
  <2> HIDE DEF pc
  <2> QED
    BY <1>3, <2>1, <2>2
<1>6. ASSUME PopStamp(c)
      PROVE  \E row \in CallRow : /\ caller' = [caller EXCEPT ![c] = row]
                                  /\ row.pc # "idle" =>
                                       row.window = caller[c].window /\ row.at = caller[c].at
                                  /\ row.pc = IF Deque(c) = <<>> THEN "idle" ELSE "look"
  <2>1. CASE Deque(c) = <<>>
    <3>1. caller' = [caller EXCEPT ![c] = NoCall]
      BY <1>6, <2>1 DEF PopStamp
    <3> QED
      BY <1>4, <2>1, <3>1
  <2>2. CASE Deque(c) # <<>>
    <3>1. caller' = [caller EXCEPT ![c].pc = "look"] /\ "look" \in CallSteps
      BY <1>6, <2>2 DEF PopStamp, CallSteps
    <3> QED
      BY <1>3, <2>2, <3>1
  <2> QED
    BY <2>1, <2>2
<1>7. ASSUME CountCall(c)
      PROVE  \E row \in CallRow : /\ caller' = [caller EXCEPT ![c] = row]
                                  /\ row.pc # "idle" =>
                                       row.window = caller[c].window /\ row.at = caller[c].at
                                  /\ row.pc = IF Len(Deque(c)) >= MaxAttempts THEN "idle"
                                              ELSE "append"
  <2>1. CASE Len(Deque(c)) >= MaxAttempts
    <3>1. caller' = [caller EXCEPT ![c] = NoCall]
      BY <1>7, <2>1 DEF CountCall
    <3> QED
      BY <1>4, <2>1, <3>1
  <2>2. CASE ~ (Len(Deque(c)) >= MaxAttempts)
    <3>1. caller' = [caller EXCEPT ![c] = Kind("append")] /\ "append" \in CallSteps
      BY <1>7, <2>2 DEF CountCall, CallSteps
    <3> QED
      BY <1>3, <2>2, <3>1
  <2> QED
    BY <2>1, <2>2
<1>8. ASSUME AppendCall(c)
      PROVE  \E row \in CallRow : /\ caller' = [caller EXCEPT ![c] = row]
                                  /\ row.pc \notin {"look", "pop", "count", "append"}
  <2> DEFINE pc == IF caller[c].at - cleaned > Interval THEN "sweep" ELSE "stamp"
  <2>1. pc \in CallSteps /\ pc \in {"sweep", "stamp"}
    BY DEF CallSteps
  <2>2. caller' = [caller EXCEPT ![c].pc = pc]
    BY <1>8 DEF AppendCall
  <2> HIDE DEF pc
  <2> QED
    BY <1>3, <2>1, <2>2
<1>9. ASSUME CallOther(c)
      PROVE  \E row \in CallRow : /\ caller' = [caller EXCEPT ![c] = row]
                                  /\ row.pc \notin {"look", "pop", "count", "append"}
  <2> DEFINE row == [NoCall EXCEPT !.pc = "otherSweep", !.at = now]
  <2>1. row \in CallRow /\ row.pc = "otherSweep"
    BY <1>1 DEF NoCall, CallRow, CallSteps
  <2>2. caller' = [caller EXCEPT ![c] = row]
    BY <1>9 DEF CallOther
  <2> QED
    BY <2>1, <2>2
<1>10. ASSUME Sweep(c)
       PROVE  \E row \in CallRow : /\ caller' = [caller EXCEPT ![c] = row]
                                   /\ row.pc \notin {"look", "pop", "count", "append"}
  <2> DEFINE stale == current # 0 /\ (windows[current] # <<>> =>
                                        Last(windows[current]) < caller[c].at - Forgotten)
             pc == IF CallAt(c, "sweep") THEN "drop" ELSE "otherDrop"
             row == [caller[c] EXCEPT !.pc = pc, !.stale = stale]
  <2>1. pc \in CallSteps /\ pc \in {"drop", "otherDrop"} /\ stale \in BOOLEAN
    BY DEF CallSteps
  <2>2. \/ caller' = [caller EXCEPT ![c].stale = stale, ![c].pc = pc]
        \/ caller' = [caller EXCEPT ![c] = NoCall]
    BY <1>10 DEF Sweep
  <2> HIDE DEF stale, pc
  <2>3. row \in CallRow
    BY <1>1, <2>1, Rows
  <2>4. row.pc = pc
    BY <1>1 DEF CallRow, CallSteps
  <2>5. [caller EXCEPT ![c].stale = stale, ![c].pc = pc] = [caller EXCEPT ![c] = row]
    BY <1>1 DEF CallRow, CallSteps, ApiTypes
  <2> QED
    BY <1>4, <2>1, <2>2, <2>3, <2>4, <2>5
<1>11. ASSUME Drop(c)
       PROVE  \E row \in CallRow : /\ caller' = [caller EXCEPT ![c] = row]
                                   /\ row.pc \notin {"look", "pop", "count", "append"}
  <2>1. \/ caller' = [caller EXCEPT ![c] = Kind("stamp")]
        \/ caller' = [caller EXCEPT ![c] = NoCall]
    BY <1>11 DEF Drop
  <2>2. Kind("stamp") \in CallRow /\ Kind("stamp").pc = "stamp"
    BY <1>3 DEF CallSteps
  <2> QED
    BY <1>4, <2>1, <2>2
<1>12. ASSUME StampKey(c)
       PROVE  \E row \in CallRow : /\ caller' = [caller EXCEPT ![c] = row]
                                   /\ row.pc \notin {"look", "pop", "count", "append"}
  BY <1>4, <1>12 DEF StampKey
<1>13. /\ Look(c) => caller[c].pc = "look"
       /\ PopStamp(c) => caller[c].pc = "pop"
       /\ CountCall(c) => caller[c].pc = "count"
  BY DEF Look, PopStamp, CountCall, CallAt
<1>14. ~ (Look(c) /\ PopStamp(c)) /\ ~ (Look(c) /\ CountCall(c)) /\ ~ (PopStamp(c) /\ CountCall(c))
  BY <1>13
<1> QED
  BY <1>2, <1>5, <1>6, <1>7, <1>8, <1>9, <1>10, <1>11, <1>12, <1>14

LEMMA SequenceExcept ==
    ASSUME NEW S, NEW s \in Seq(S), NEW w, NEW e, w \in DOMAIN s => e \in S
    PROVE  /\ [s EXCEPT ![w] = e] \in Seq(S)
           /\ Len([s EXCEPT ![w] = e]) = Len(s)
           /\ w \in DOMAIN s => [s EXCEPT ![w] = e][w] = e
<1>1. CASE w \in 1 .. Len(s)
  <2>1. e \in S
    BY <1>1
  <2> QED
    BY <1>1, <2>1, ExceptSeq
<1>2. CASE w \notin 1 .. Len(s)
  <2>1. [s EXCEPT ![w] = e] = s
    BY <1>2
  <2> QED
    BY <1>2, <2>1
<1> QED
  BY <1>1, <1>2

LEMMA ApiTypesAreKept == ApiTypes /\ [ApiNext]_apiVars => ApiTypes'
<1> SUFFICES ASSUME ApiTypes, [ApiNext]_apiVars PROVE ApiTypes'
  OBVIOUS
<1>1. ASSUME NEW c \in Callers, NEW row \in CallRow, caller' = [caller EXCEPT ![c] = row]
      PROVE  caller' \in [Callers -> CallRow]
  BY <1>1 DEF ApiTypes
<1>2. ASSUME NEW c \in Callers, BeginCall(c) PROVE ApiTypes'
  <2>1. caller' \in [Callers -> CallRow]
    BY <1>1, <1>2, RowAfter
  <2>2. windows' \in Seq(Seq(Nat)) /\ current' \in 0 .. Len(windows')
    <3>1. CASE current = 0
      <4>1. windows' = Append(windows, <<>>) /\ current' = Len(windows) + 1
        BY <1>2, <3>1 DEF BeginCall
      <4>2. <<>> \in Seq(Nat)
        OBVIOUS
      <4> QED
        BY <4>1, <4>2 DEF ApiTypes
    <3>2. CASE current # 0
      BY <1>2, <3>2 DEF BeginCall, ApiTypes
    <3> QED
      BY <3>1, <3>2
  <2> QED
    BY <1>2, <2>1, <2>2 DEF BeginCall, ApiTypes
<1>3. ASSUME NEW c \in Callers, Look(c) \/ CountCall(c) \/ CallOther(c) \/ Sweep(c)
      PROVE  ApiTypes'
  <2>1. caller' \in [Callers -> CallRow]
    BY <1>1, <1>3, RowAfter
  <2> QED
    BY <1>3, <2>1 DEF Look, CountCall, CallOther, Sweep, ApiTypes
<1>4. ASSUME NEW c \in Callers, PopStamp(c) PROVE ApiTypes'
  <2>1. caller' \in [Callers -> CallRow]
    BY <1>1, <1>4, RowAfter
  <2>2. CASE Deque(c) = <<>>
    BY <1>4, <2>1, <2>2 DEF PopStamp, ApiTypes
  <2>3. CASE Deque(c) # <<>>
    <3> DEFINE w == caller[c].window
    <3>1. windows' = [windows EXCEPT ![w] = Tail(@)] /\ windows[w] # <<>>
      BY <1>4, <2>3 DEF PopStamp, Deque
    <3>2. ASSUME w \in DOMAIN windows PROVE Tail(windows[w]) \in Seq(Nat)
      <4>1. windows[w] \in Seq(Nat)
        BY <3>2 DEF ApiTypes
      <4> QED
        BY <3>1, <4>1, HeadTailProperties
    <3> HIDE DEF w
    <3>3. windows' \in Seq(Seq(Nat)) /\ Len(windows') = Len(windows)
      <4>1. windows' = [windows EXCEPT ![w] = Tail(windows[w])]
        BY <3>1
      <4> DEFINE e == Tail(windows[w])
      <4>2. windows' = [windows EXCEPT ![w] = e] /\ (w \in DOMAIN windows => e \in Seq(Nat))
        BY <3>2, <4>1
      <4>3. windows \in Seq(Seq(Nat))
        BY DEF ApiTypes
      <4> HIDE DEF e
      <4> QED
        BY <4>2, <4>3, SequenceExcept
    <3>4. dropped' \in BOOLEAN
      BY <1>4, <2>3 DEF PopStamp
    <3> QED
      BY <1>4, <2>1, <3>3, <3>4 DEF PopStamp, ApiTypes
  <2> QED
    BY <2>2, <2>3
<1>5. ASSUME NEW c \in Callers, AppendCall(c) PROVE ApiTypes'
  <2>1. caller' \in [Callers -> CallRow]
    BY <1>1, <1>5, RowAfter
  <2>2. caller[c].at \in Nat
    BY DEF ApiTypes, CallRow, CallSteps
  <2>3. /\ windows' = [windows EXCEPT ![caller[c].window] = Append(@, caller[c].at)]
        /\ let' = Append(let, caller[c].at)
    BY <1>5 DEF AppendCall
  <2>4. windows' \in Seq(Seq(Nat)) /\ Len(windows') = Len(windows)
    <3> DEFINE w == caller[c].window
               e == Append(windows[w], caller[c].at)
    <3>1. windows' = [windows EXCEPT ![w] = e]
      BY <2>3
    <3>2. windows \in Seq(Seq(Nat))
      BY DEF ApiTypes
    <3>3. ASSUME w \in DOMAIN windows PROVE e \in Seq(Nat)
      <4>1. windows[w] \in Seq(Nat)
        BY <3>2, <3>3
      <4> QED
        BY <2>2, <4>1, AppendProperties
    <3> HIDE DEF w, e
    <3> QED
      BY <3>1, <3>2, <3>3, SequenceExcept
  <2>5. let' \in Seq(Nat)
    BY <2>2, <2>3 DEF ApiTypes
  <2> QED
    BY <1>5, <2>1, <2>4, <2>5 DEF AppendCall, ApiTypes
<1>6. ASSUME NEW c \in Callers, Drop(c) PROVE ApiTypes'
  <2>1. caller' \in [Callers -> CallRow]
    BY <1>1, <1>6, RowAfter
  <2>2. caller[c].at \in Nat
    BY DEF ApiTypes, CallRow, CallSteps
  <2>3. /\ UNCHANGED <<now, windows, key, let, keyOverwritten, revoked>>
        /\ cleaned' = caller[c].at \/ cleaned' = cleaned
        /\ current' = 0 \/ current' = current
    BY <1>6 DEF Drop
  <2>4. dropped' \in BOOLEAN
    BY <1>6 DEF Drop, ApiTypes
  <2> QED
    BY <2>1, <2>2, <2>3, <2>4 DEF ApiTypes
<1>7. ASSUME NEW c \in Callers, StampKey(c) PROVE ApiTypes'
  <2>1. caller' \in [Callers -> CallRow]
    BY <1>1, <1>7, RowAfter
  <2> QED
    BY <1>7, <2>1 DEF StampKey, ApiTypes
<1>8. CASE Clock
  <2>1. now' \in Nat
    BY <1>8 DEF Clock, ApiTypes
  <2> QED
    BY <1>8, <2>1 DEF Clock, ApiTypes
<1>9. CASE RevokeKey
  BY <1>9 DEF RevokeKey, ApiTypes
<1>10. CASE UNCHANGED apiVars
  BY <1>10 DEF apiVars, ApiTypes
<1> QED
  BY <1>2, <1>3, <1>4, <1>5, <1>6, <1>7, <1>8, <1>9, <1>10 DEF ApiNext

\* What a checking thread holds is the deque that is in _windows.
LEMMA ChecksHoldKept ==
    ASSUME ApiTypes, LimitsHold, NEW c \in Callers, Checking(c)
    PROVE  /\ current # 0 /\ caller[c].window = current /\ current \in DOMAIN windows
           /\ caller[c].at \in Nat /\ caller[c].at \in {now - 1, now}
           /\ Deque(c) = Kept
<1>1. current # 0 /\ caller[c].window = current /\ caller[c].at \in {now - 1, now}
  BY DEF LimitsHold, ChecksAreCurrent
<1>2. caller[c].at \in Nat
  BY DEF ApiTypes, CallRow, CallSteps
<1>3. current \in DOMAIN windows
  BY <1>1 DEF ApiTypes
<1> QED
  BY <1>1, <1>2, <1>3 DEF Deque, Kept

LEMMA ClockLimits ==
    ASSUME ApiTypes, ApiTypes', LimitsHold, Clock
    PROVE  LimitsHold'
<1>1. /\ now' = now + 1
      /\ UNCHANGED <<windows, current, caller, let>>
      /\ \A c \in Callers : Checking(c) => caller[c].at = now
  BY DEF Clock
<1>2. now \in Nat /\ Window \in Nat /\ MaxAttempts \in Nat
  BY ApiAssumption DEF ApiTypes
<1>3. ChecksAreCurrent'
  <2> SUFFICES ASSUME NEW c \in Callers, Checking(c)'
               PROVE  /\ current' # 0 /\ caller'[c].window = current'
                      /\ caller'[c].at \in {now' - 1, now'}
    BY DEF ChecksAreCurrent
  <2>1. Checking(c) /\ caller'[c] = caller[c]
    BY <1>1 DEF Checking
  <2>2. current # 0 /\ caller[c].window = current /\ caller[c].at = now
    BY <1>1, <2>1, ChecksHoldKept
  <2> QED
    BY <1>1, <1>2, <2>1, <2>2
<1>4. ASSUME NEW t \in 0 .. MaxTime
      PROVE  /\ HeldFrom(t)' = HeldFrom(t) /\ LetOrDue(t)' = LetOrDue(t)
             /\ LetThrough(t)' = LetThrough(t)
             /\ LetOrDue(t) \in Nat /\ Cardinality(LetThrough(t)) \in Nat
             /\ Cardinality(LetThrough(t)) <= LetOrDue(t)
  <2>1. HeldFrom(t)' = HeldFrom(t)
    BY <1>1 DEF HeldFrom, Stamps, From, Kept
  <2>2. LetThrough(t)' = LetThrough(t) /\ Due(t)' = Due(t)
    BY <1>1 DEF LetThrough, Due, Span
  <2>3. LetThrough(t) = Stamps(let, Span(t))
    BY DEF LetThrough, Stamps, Span
  <2>4. Cardinality(LetThrough(t)) \in Nat
    BY <2>3, StampsAreFinite DEF ApiTypes
  <2>5. Due(t) \subseteq Callers
    BY DEF Due
  <2>6. Cardinality(Due(t)) \in Nat
    BY <2>5, ThreadsAreFinite
  <2> QED
    BY <2>1, <2>2, <2>4, <2>6 DEF LetOrDue
<1>5. /\ Cardinality(Callers) \in Nat /\ Cardinality(Callers) > 0
      /\ Cardinality(Slow) \in Nat
  <2>1. Slow \subseteq Callers
    BY DEF Slow
  <2> QED
    BY <2>1, ThreadsAreFinite
<1>6. StampsAreHeld'
  BY <1>1, <1>2, <1>4 DEF StampsAreHeld, LimitsHold
<1>7. OpenWindows'
  BY <1>1, <1>2, <1>4 DEF OpenWindows, LimitsHold
<1>8. ClosingWindow'
  <2> SUFFICES ASSUME NEW t \in 0 .. MaxTime, t = now' - 1 - Window
               PROVE  HeldFrom(t)' /\ LetOrDue(t)' <= MaxAttempts + Cardinality(Callers) - 1
    BY DEF ClosingWindow
  <2>1. t >= now - Window
    BY <1>1, <1>2
  <2> QED
    BY <2>1, <1>4 DEF OpenWindows, StampsAreHeld, LimitsHold
<1>9. ClosedWindows'
  <2> SUFFICES ASSUME NEW t \in 0 .. MaxTime, t < now' - 1 - Window
               PROVE  Cardinality(LetThrough(t)) <= MaxAttempts + 2 * Cardinality(Callers) - 2
    BY <1>4 DEF ClosedWindows
  <2>1. CASE t = now - 1 - Window
    <3>1. \/ LetOrDue(t) <= MaxAttempts + Cardinality(Callers) - 1
          \/ LetOrDue(t) + Cardinality(Slow) <= MaxAttempts + 2 * Cardinality(Callers) - 2
      BY <2>1 DEF ClosingWindow, LimitsHold
    <3> QED
      BY <1>2, <1>4, <1>5, <3>1
  <2>2. CASE t < now - 1 - Window
    BY <2>2 DEF ClosedWindows, LimitsHold
  <2>3. t < now - Window
    BY <1>1, <1>2
  <2> QED
    BY <1>2, <2>1, <2>2, <2>3
<1> QED
  BY <1>3, <1>6, <1>7, <1>8, <1>9 DEF LimitsHold

LEMMA PopLimits ==
    ASSUME ApiTypes, ApiTypes', LimitsHold, NEW c \in Callers, PopStamp(c), ~ dropped'
    PROVE  LimitsHold'
<1>1. Checking(c)
  BY DEF PopStamp, CallAt, Checking
<1>2. /\ current # 0 /\ caller[c].window = current /\ current \in DOMAIN windows
      /\ caller[c].at \in Nat /\ caller[c].at \in {now - 1, now}
      /\ Deque(c) = Kept
  BY <1>1, ChecksHoldKept
<1>3. now' = now /\ let' = let /\ current' = current
  BY DEF PopStamp
<1>4. PICK row \in CallRow :
        /\ caller' = [caller EXCEPT ![c] = row]
        /\ row.pc # "idle" => row.window = caller[c].window /\ row.at = caller[c].at
        /\ row.pc = IF Deque(c) = <<>> THEN "idle" ELSE "look"
  BY RowAfter
<1>5. CASE Deque(c) = <<>>
  <2>1. Kept' = Kept
    BY <1>3, <1>5 DEF PopStamp, Kept
  <2> QED
    BY <1>3, <1>4, <1>5, <2>1, CallGoesOn
<1>6. CASE Deque(c) # <<>>
  <2>1. /\ windows' = [windows EXCEPT ![current] = Tail(@)]
        /\ Old(Head(Kept), caller[c].at)
    BY <1>2, <1>6 DEF PopStamp
  <2>2. Kept' = Tail(Kept) /\ Kept # <<>>
    <3>1. windows'[current] = Tail(windows[current])
      BY <1>2, <2>1 DEF ApiTypes
    <3> QED
      BY <1>2, <1>3, <1>6, <3>1 DEF Kept
  <2>3. Kept \in Seq(Nat) /\ Head(Kept) \in Nat
    BY <2>2, KeptIsDeque, HeadTailProperties
  <2>4. /\ caller'[c] = row /\ row.pc = "look" /\ row.at = caller[c].at
        /\ row.window = current
        /\ \A d \in Callers \ {c} : caller'[d] = caller[d]
    BY <1>2, <1>4, <1>6 DEF ApiTypes
  <2>5. ChecksAreCurrent'
    <3>1. \A d \in Callers : Checking(d)' => Checking(d) /\ caller'[d].at = caller[d].at
                                              /\ caller'[d].window = caller[d].window
      BY <1>1, <1>2, <2>4 DEF Checking
    <3> QED
      BY <1>3, <3>1 DEF ChecksAreCurrent, LimitsHold
  <2>6. now \in Nat /\ Window \in Nat
    BY ApiAssumption DEF ApiTypes
  <2>7. ASSUME NEW x \in 0 .. MaxTime, ~ (Head(Kept) >= x), HeldFrom(x)
        PROVE  HeldFrom(x)'
    <3>1. Head(Kept) \notin From(x)
      BY <2>7 DEF From
    <3>2. Cardinality(Stamps(Tail(Kept), From(x))) = Cardinality(Stamps(Kept, From(x)))
      BY <2>2, <2>3, <3>1, OldStampPopped
    <3>3. /\ Stamps(Kept, From(x))' = Stamps(Tail(Kept), From(x))
          /\ Stamps(let, From(x))' = Stamps(let, From(x))
      BY <1>3, <2>2 DEF Stamps, From
    <3> QED
      BY <2>7, <3>2, <3>3 DEF HeldFrom
  <2>8. StampsAreHeld'
    BY <1>2, <1>3, <2>1, <2>3, <2>6, <2>7 DEF StampsAreHeld, LimitsHold, Old
  <2>9. \A t \in 0 .. MaxTime : Due(t)' \subseteq Due(t)
    BY <2>4 DEF Due, Span
  <2>10. Slow' \subseteq Slow
    <3>1. caller[c].pc = "pop"
      BY DEF PopStamp, CallAt
    <3> QED
      BY <1>3, <2>4, <3>1 DEF Slow
  <2>11. ASSUME NEW t \in 0 .. MaxTime, t = now - 1 - Window, HeldFrom(t)
         PROVE  HeldFrom(t)' \/ Cardinality(Slow') <= Cardinality(Callers) - 1
    <3>1. CASE caller[c].at = now - 1
      <4>1. ~ (Head(Kept) >= t)
        BY <2>1, <2>3, <2>6, <2>11, <3>1 DEF Old
      <4> QED
        BY <2>7, <2>11, <4>1
    <3>2. CASE caller[c].at = now
      <4>1. c \notin Slow' /\ Slow' \subseteq Callers
        BY <1>3, <2>4, <2>6, <3>2 DEF Slow
      <4> QED
        BY <4>1, ThreadsAreFinite
    <3> QED
      BY <1>2, <3>1, <3>2
  <2> QED
    BY <1>3, <2>5, <2>8, <2>9, <2>10, <2>11, LimitsGoOn
<1> QED
  BY <1>5, <1>6

LEMMA DropLimits ==
    ASSUME ApiTypes, ApiTypes', LimitsHold, NEW c \in Callers, Drop(c), ~ dropped'
    PROVE  LimitsHold'
<1>1. now' = now /\ let' = let /\ windows' = windows
  BY DEF Drop
<1>2. PICK row \in CallRow :
        /\ caller' = [caller EXCEPT ![c] = row]
        /\ row.pc \notin {"look", "pop", "count", "append"}
  BY RowAfter
<1>3. CASE current' = current
  <2>1. Kept' = Kept
    BY <1>1, <1>3 DEF Kept
  <2> QED
    BY <1>1, <1>2, <1>3, <2>1, CallGoesOn
<1>4. CASE current' # current
  <2>1. /\ current' = 0 /\ current # 0
        /\ \A d \in Callers : ~ Checking(d)
        /\ \A n \in DOMAIN windows[current] : Old(windows[current][n], now)
    BY <1>4 DEF Drop
  <2>2. Kept = windows[current] /\ Kept' = <<>> /\ Kept \in Seq(Nat)
    BY <2>1, KeptIsDeque DEF Kept
  <2>3. now \in Nat /\ Window \in Nat
    BY ApiAssumption DEF ApiTypes
  <2>4. \A d \in Callers : ~ Checking(d)'
    <3>1. /\ caller'[c] = row
          /\ \A d \in Callers \ {c} : caller'[d] = caller[d]
      BY <1>2 DEF ApiTypes
    <3> QED
      BY <1>2, <2>1, <3>1 DEF Checking
  <2>5. ChecksAreCurrent'
    BY <2>4 DEF ChecksAreCurrent
  <2>6. StampsAreHeld'
    <3> SUFFICES ASSUME NEW x \in 0 .. MaxTime, x >= now - Window
                 PROVE  HeldFrom(x)'
      BY <1>1 DEF StampsAreHeld
    <3>1. HeldFrom(x)
      BY DEF StampsAreHeld, LimitsHold
    <3>2. Stamps(Kept, From(x)) = {} /\ Stamps(Kept, From(x))' = {}
      <4>1. \A n \in DOMAIN Kept : Kept[n] \in Nat /\ Kept[n] < now - Window
        BY <2>1, <2>2 DEF Old
      <4>2. Stamps(Kept, From(x)) = {}
        BY <2>3, <4>1 DEF Stamps, From
      <4> QED
        BY <2>2, <4>2 DEF Stamps
    <3>3. Stamps(let, From(x))' = Stamps(let, From(x))
      BY <1>1 DEF Stamps, From
    <3> QED
      BY <3>1, <3>2, <3>3 DEF HeldFrom
  <2>7. \A t \in 0 .. MaxTime : Due(t)' \subseteq Due(t)
    BY <2>4 DEF Due, Checking
  <2>8. Slow' = {}
    BY <2>4 DEF Slow, Checking
  <2>9. Cardinality(Slow') <= Cardinality(Callers) - 1
    <3>1. PICK d \in Callers : TRUE
      OBVIOUS
    <3>2. d \notin Slow' /\ Slow' \subseteq Callers
      BY <2>8
    <3> QED
      BY <3>2, ThreadsAreFinite
  <2>10. Slow' \subseteq Slow
    BY <2>8
  <2> QED
    BY <1>1, <2>5, <2>6, <2>7, <2>9, <2>10, LimitsGoOn
<1> QED
  BY <1>3, <1>4

LEMMA CountLimits ==
    ASSUME ApiTypes, ApiTypes', LimitsHold, NEW c \in Callers, CountCall(c)
    PROVE  LimitsHold'
<1>1. Checking(c) /\ caller[c].pc = "count"
  BY DEF CountCall, CallAt, Checking
<1>2. /\ current # 0 /\ caller[c].window = current
      /\ caller[c].at \in Nat /\ caller[c].at \in {now - 1, now}
      /\ Deque(c) = Kept
  BY <1>1, ChecksHoldKept
<1>3. now' = now /\ let' = let /\ current' = current /\ windows' = windows /\ Kept' = Kept
  BY DEF CountCall, Kept
<1>4. PICK row \in CallRow :
        /\ caller' = [caller EXCEPT ![c] = row]
        /\ row.pc # "idle" => row.window = caller[c].window /\ row.at = caller[c].at
        /\ row.pc = IF Len(Deque(c)) >= MaxAttempts THEN "idle" ELSE "append"
  BY RowAfter
<1>5. CASE Len(Kept) >= MaxAttempts
  <2>1. row.pc = "idle"
    BY <1>2, <1>4, <1>5
  <2> QED
    BY <1>3, <1>4, <2>1, CallGoesOn
<1>6. CASE ~ (Len(Kept) >= MaxAttempts)
  <2>1. /\ caller'[c] = row /\ row.pc = "append" /\ row.at = caller[c].at
        /\ row.window = current
        /\ \A d \in Callers \ {c} : caller'[d] = caller[d]
    BY <1>2, <1>4, <1>6 DEF ApiTypes
  <2>2. ChecksAreCurrent'
    <3>1. \A d \in Callers : Checking(d)' => Checking(d) /\ caller'[d].at = caller[d].at
                                              /\ caller'[d].window = caller[d].window
      BY <1>1, <1>2, <2>1 DEF Checking
    <3> QED
      BY <1>3, <3>1 DEF ChecksAreCurrent, LimitsHold
  <2>3. /\ now \in Nat /\ Window \in Nat /\ MaxAttempts \in Nat
        /\ Cardinality(Callers) \in Nat /\ Cardinality(Callers) > 0
    BY ThreadsAreFinite, ApiAssumption DEF ApiTypes
  <2>4. Kept \in Seq(Nat) /\ Len(Kept) \in Nat /\ Len(Kept) <= MaxAttempts - 1
    <3>1. Kept \in Seq(Nat)
      BY KeptIsDeque
    <3>2. Len(Kept) \in Nat
      BY <3>1
    <3> QED
      BY <1>6, <2>3, <3>1, <3>2
  <2>5. let \in Seq(Nat)
    BY DEF ApiTypes
  <2>6. \A t \in 0 .. MaxTime : HeldFrom(t)' = HeldFrom(t)
    BY <1>3 DEF HeldFrom, Stamps, From
  <2>7. StampsAreHeld'
    BY <1>3, <2>6 DEF StampsAreHeld, LimitsHold
  <2>8. ASSUME NEW t \in 0 .. MaxTime
        PROVE  /\ LetThrough(t)' = LetThrough(t) /\ Cardinality(LetThrough(t)) \in Nat
               /\ Cardinality(Due(t)) \in Nat
               /\ Cardinality(Due(t)) <= Cardinality(Callers) - 1
               /\ LetOrDue(t) = Cardinality(LetThrough(t)) + Cardinality(Due(t))
               /\ LetOrDue(t)' = IF caller[c].at \in Span(t) THEN LetOrDue(t) + 1
                                 ELSE LetOrDue(t)
               /\ HeldFrom(t) => Cardinality(LetThrough(t)) <= MaxAttempts - 1
    <3>1. LetThrough(t)' = LetThrough(t) /\ LetThrough(t) = Stamps(let, Span(t))
      BY <1>3 DEF LetThrough, Stamps, Span
    <3>2. Cardinality(LetThrough(t)) \in Nat
      BY <2>5, <3>1, StampsAreFinite
    <3>3. c \notin Due(t) /\ Due(t) \subseteq Callers
      BY <1>1 DEF Due
    <3>4. /\ IsFiniteSet(Due(t)) /\ Cardinality(Due(t)) \in Nat
          /\ Cardinality(Due(t)) <= Cardinality(Callers) - 1
      BY <3>3, ThreadsAreFinite
    <3>5. /\ caller[c].at \in Span(t) => Due(t)' = Due(t) \cup {c}
          /\ caller[c].at \notin Span(t) => Due(t)' = Due(t)
      <4>1. Span(t)' = Span(t)
        BY DEF Span
      <4>2. \A d \in Callers \ {c} : d \in Due(t)' <=> d \in Due(t)
        BY <2>1, <4>1 DEF Due
      <4>3. c \in Due(t)' <=> caller[c].at \in Span(t)
        BY <2>1, <4>1 DEF Due
      <4>4. Due(t)' \subseteq Callers
        BY DEF Due
      <4> QED
        BY <3>3, <4>2, <4>3, <4>4
    <3>6. Cardinality(Due(t)') = IF caller[c].at \in Span(t) THEN Cardinality(Due(t)) + 1
                                 ELSE Cardinality(Due(t))
      <4>1. Cardinality(Due(t) \cup {c}) = Cardinality(Due(t)) + 1
        BY <3>3, <3>4, FS_AddElement, Zenon
      <4> QED
        BY <3>5, <4>1
    <3>7. ASSUME HeldFrom(t) PROVE Cardinality(LetThrough(t)) <= MaxAttempts - 1
      <4>1. \A y \in Nat : y \in Span(t) => y \in From(t)
        BY <2>3 DEF Span, From
      <4>2. Cardinality(Stamps(let, Span(t))) <= Cardinality(Stamps(let, From(t)))
        BY <2>5, <4>1, MoreStamps
      <4>3. Cardinality(Stamps(let, From(t))) <= Cardinality(Stamps(Kept, From(t)))
        BY <3>7 DEF HeldFrom
      <4>4. /\ Cardinality(Stamps(let, From(t))) \in 0 .. Len(let)
            /\ Cardinality(Stamps(Kept, From(t))) \in 0 .. Len(Kept)
        BY <2>4, <2>5, StampsAreFinite
      <4> QED
        BY <2>3, <2>4, <3>1, <3>2, <4>2, <4>3, <4>4
    <3>8. LetOrDue(t) = Cardinality(LetThrough(t)) + Cardinality(Due(t))
      BY DEF LetOrDue
    <3>9. LetOrDue(t)' = Cardinality(LetThrough(t)) + Cardinality(Due(t)')
      BY <3>1 DEF LetOrDue
    <3> QED
      BY <3>1, <3>2, <3>4, <3>6, <3>7, <3>8, <3>9
  <2>9. OpenWindows'
    <3> SUFFICES ASSUME NEW t \in 0 .. MaxTime, t >= now - Window
                 PROVE  LetOrDue(t)' <= MaxAttempts + Cardinality(Callers) - 1
      BY <1>3 DEF OpenWindows
    <3>1. HeldFrom(t) /\ LetOrDue(t) <= MaxAttempts + Cardinality(Callers) - 1
      BY DEF StampsAreHeld, OpenWindows, LimitsHold
    <3> QED
      BY <2>3, <2>8, <3>1
  <2>10. ClosingWindow'
    <3> SUFFICES ASSUME NEW t \in 0 .. MaxTime, t = now - 1 - Window
                 PROVE  \/ HeldFrom(t)' /\ LetOrDue(t)' <= MaxAttempts + Cardinality(Callers) - 1
                        \/ LetOrDue(t)' + Cardinality(Slow') <=
                              MaxAttempts + 2 * Cardinality(Callers) - 2
      BY <1>3 DEF ClosingWindow
    <3>1. \/ HeldFrom(t) /\ LetOrDue(t) <= MaxAttempts + Cardinality(Callers) - 1
          \/ LetOrDue(t) + Cardinality(Slow) <= MaxAttempts + 2 * Cardinality(Callers) - 2
      BY DEF ClosingWindow, LimitsHold
    <3>2. caller[c].at \in Span(t) <=> caller[c].at = now - 1
      BY <1>2, <2>3 DEF Span
    <3>3. Slow \subseteq Callers
      BY DEF Slow
    <3>4. IsFiniteSet(Slow) /\ Cardinality(Slow) \in Nat
      BY <3>3, ThreadsAreFinite
    <3>5. Slow' = Slow \ {c}
      <4>1. c \notin Slow' /\ Slow' \subseteq Callers
        BY <2>1 DEF Slow
      <4>2. \A d \in Callers \ {c} : d \in Slow' <=> d \in Slow
        BY <1>3, <2>1 DEF Slow
      <4> QED
        BY <3>3, <4>1, <4>2
    <3>6. c \in Slow <=> caller[c].at = now - 1
      BY <1>1 DEF Slow
    <3>7. Cardinality(Slow') = IF caller[c].at = now - 1 THEN Cardinality(Slow) - 1
                               ELSE Cardinality(Slow)
      <4>1. Cardinality(Slow \ {c}) = IF c \in Slow THEN Cardinality(Slow) - 1
                                      ELSE Cardinality(Slow)
        BY <3>4, FS_RemoveElement, Zenon
      <4> QED
        BY <3>5, <3>6, <4>1
    <3>8. CASE HeldFrom(t) /\ LetOrDue(t) <= MaxAttempts + Cardinality(Callers) - 1
      <4>1. HeldFrom(t)'
        BY <2>6, <3>8
      <4>2. LetOrDue(t)' <= MaxAttempts + Cardinality(Callers) - 1
        BY <2>3, <2>8, <3>8
      <4> QED
        BY <4>1, <4>2
    <3>9. CASE LetOrDue(t) + Cardinality(Slow) <= MaxAttempts + 2 * Cardinality(Callers) - 2
      BY <2>3, <2>8, <3>2, <3>4, <3>7, <3>9
    <3> QED
      BY <3>1, <3>8, <3>9
  <2>11. ClosedWindows'
    BY <1>3, <2>8 DEF ClosedWindows, LimitsHold
  <2> QED
    BY <2>2, <2>7, <2>9, <2>10, <2>11 DEF LimitsHold
<1> QED
  BY <1>5, <1>6

LEMMA AppendLimits ==
    ASSUME ApiTypes, ApiTypes', LimitsHold, NEW c \in Callers, AppendCall(c)
    PROVE  LimitsHold'
<1>1. Checking(c) /\ caller[c].pc = "append"
  BY DEF AppendCall, CallAt, Checking
<1>2. /\ current # 0 /\ caller[c].window = current /\ current \in DOMAIN windows
      /\ caller[c].at \in Nat /\ caller[c].at \in {now - 1, now}
  BY <1>1, ChecksHoldKept
<1>3. PICK row \in CallRow :
        /\ caller' = [caller EXCEPT ![c] = row]
        /\ row.pc \notin {"look", "pop", "count", "append"}
  BY RowAfter
<1>4. /\ caller'[c] = row
      /\ \A d \in Callers \ {c} : caller'[d] = caller[d]
  BY <1>3 DEF ApiTypes
<1>5. PICK at \in Nat : at = caller[c].at
  BY <1>2
<1>6. /\ now' = now /\ current' = current
      /\ let' = Append(let, at)
      /\ windows' = [windows EXCEPT ![current] = Append(@, at)]
  BY <1>2, <1>5 DEF AppendCall
<1>7. Kept' = Append(Kept, at)
  <2>1. windows'[current] = Append(windows[current], at)
    BY <1>2, <1>6 DEF ApiTypes
  <2> QED
    BY <1>2, <1>6, <2>1 DEF Kept
<1>8. Kept \in Seq(Nat) /\ let \in Seq(Nat)
  BY KeptIsDeque DEF ApiTypes
<1>9. now \in Nat /\ Window \in Nat
  BY ApiAssumption DEF ApiTypes
<1>10. ChecksAreCurrent'
  <2>1. \A d \in Callers : Checking(d)' => Checking(d) /\ caller'[d] = caller[d]
    BY <1>3, <1>4 DEF Checking
  <2> QED
    BY <1>6, <2>1 DEF ChecksAreCurrent, LimitsHold
<1>11. ASSUME NEW x \in 0 .. MaxTime
       PROVE  HeldFrom(x)' = HeldFrom(x)
  <2>1. /\ Stamps(Kept, From(x))' = Stamps(Append(Kept, at), From(x))
        /\ Stamps(let, From(x))' = Stamps(Append(let, at), From(x))
    BY <1>6, <1>7 DEF Stamps, From
  <2>2. /\ Cardinality(Stamps(Append(Kept, at), From(x))) =
              IF at \in From(x) THEN Cardinality(Stamps(Kept, From(x))) + 1
              ELSE Cardinality(Stamps(Kept, From(x)))
        /\ Cardinality(Stamps(Append(let, at), From(x))) =
              IF at \in From(x) THEN Cardinality(Stamps(let, From(x))) + 1
              ELSE Cardinality(Stamps(let, From(x)))
    BY <1>8, StampAppended
  <2>3. /\ Cardinality(Stamps(Kept, From(x))) \in Nat
        /\ Cardinality(Stamps(let, From(x))) \in Nat
    BY <1>8, StampsAreFinite
  <2> QED
    BY <2>1, <2>2, <2>3 DEF HeldFrom
<1>12. ASSUME NEW t \in 0 .. MaxTime
       PROVE  /\ LetOrDue(t)' = LetOrDue(t)
              /\ at \notin Span(t) =>
                    Cardinality(LetThrough(t)') = Cardinality(LetThrough(t))
  <2>1. /\ LetThrough(t) = Stamps(let, Span(t))
        /\ LetThrough(t)' = Stamps(Append(let, at), Span(t))
    BY <1>6 DEF LetThrough, Stamps, Span
  <2>2. /\ Cardinality(LetThrough(t)) \in Nat
        /\ Cardinality(LetThrough(t)') = IF at \in Span(t) THEN Cardinality(LetThrough(t)) + 1
                                         ELSE Cardinality(LetThrough(t))
    BY <1>8, <2>1, StampsAreFinite, StampAppended
  <2>3. Due(t) \subseteq Callers
    BY DEF Due
  <2>4. IsFiniteSet(Due(t)) /\ Cardinality(Due(t)) \in Nat
    BY <2>3, ThreadsAreFinite
  <2>5. Due(t)' = Due(t) \ {c} /\ (c \in Due(t) <=> at \in Span(t))
    <3>1. Span(t)' = Span(t)
      BY DEF Span
    <3>2. \A d \in Callers \ {c} : d \in Due(t)' <=> d \in Due(t)
      BY <1>4, <3>1 DEF Due
    <3>3. c \notin Due(t)' /\ Due(t)' \subseteq Callers
      BY <1>3, <1>4 DEF Due
    <3>4. c \in Due(t) <=> at \in Span(t)
      BY <1>1, <1>5 DEF Due
    <3> QED
      BY <2>3, <3>2, <3>3, <3>4
  <2>6. Cardinality(Due(t)') = IF at \in Span(t) THEN Cardinality(Due(t)) - 1
                               ELSE Cardinality(Due(t))
    <3>1. Cardinality(Due(t) \ {c}) = IF c \in Due(t) THEN Cardinality(Due(t)) - 1
                                      ELSE Cardinality(Due(t))
      BY <2>4, FS_RemoveElement, Zenon
    <3> QED
      BY <2>5, <3>1
  <2> QED
    BY <2>2, <2>4, <2>6 DEF LetOrDue
<1>13. StampsAreHeld'
  BY <1>6, <1>11 DEF StampsAreHeld, LimitsHold
<1>14. OpenWindows'
  BY <1>6, <1>12 DEF OpenWindows, LimitsHold
<1>15. Slow' = Slow
  <2>1. \A d \in Callers : d \in Slow' <=> d \in Slow
    BY <1>1, <1>3, <1>4, <1>6 DEF Slow
  <2>2. Slow \subseteq Callers /\ Slow' \subseteq Callers
    BY DEF Slow
  <2> QED
    BY <2>1, <2>2
<1>16. ClosingWindow'
  BY <1>6, <1>11, <1>12, <1>15 DEF ClosingWindow, LimitsHold
<1>17. ClosedWindows'
  <2> SUFFICES ASSUME NEW t \in 0 .. MaxTime, t < now - 1 - Window
               PROVE  Cardinality(LetThrough(t)') <= MaxAttempts + 2 * Cardinality(Callers) - 2
    BY <1>6 DEF ClosedWindows
  <2>1. at \notin Span(t)
    BY <1>2, <1>5, <1>9 DEF Span
  <2> QED
    BY <1>12, <2>1 DEF ClosedWindows, LimitsHold
<1> QED
  BY <1>10, <1>13, <1>14, <1>16, <1>17 DEF LimitsHold

LEMMA LimitsAreKept ==
    ASSUME ApiTypes, ApiTypes', LimitsHold, [ApiNext]_apiVars, ~ dropped'
    PROVE  LimitsHold'
<1>1. ASSUME NEW c \in Callers, BeginCall(c) PROVE LimitsHold'
  <2>1. now' = now /\ let' = let
    BY <1>1 DEF BeginCall
  <2>2. PICK row \in CallRow : /\ caller' = [caller EXCEPT ![c] = row]
                               /\ row.pc = "look" /\ row.window = current' /\ row.at = now
    BY <1>1, RowAfter
  <2>3. current' # 0 /\ (current' = current \/ current = 0) /\ Kept' = Kept
    <3>1. CASE current = 0
      <4>1. windows' = Append(windows, <<>>) /\ current' = Len(windows) + 1
        BY <1>1, <3>1 DEF BeginCall
      <4>2. windows \in Seq(Seq(Nat)) /\ Len(windows) \in Nat
        BY DEF ApiTypes
      <4>3. windows'[current'] = <<>> /\ current' # 0
        BY <4>1, <4>2
      <4> QED
        BY <3>1, <4>3 DEF Kept
    <3>2. CASE current # 0
      BY <1>1, <3>2 DEF BeginCall, Kept
    <3> QED
      BY <3>1, <3>2
  <2> QED
    BY <2>1, <2>2, <2>3, CallGoesOn
<1>2. ASSUME NEW c \in Callers, Look(c) PROVE LimitsHold'
  <2>1. /\ now' = now /\ let' = let /\ current' = current /\ Kept' = Kept
        /\ caller[c].pc = "look"
    BY <1>2 DEF Look, Kept, CallAt
  <2>2. PICK row \in CallRow :
          /\ caller' = [caller EXCEPT ![c] = row]
          /\ row.window = caller[c].window /\ row.at = caller[c].at
          /\ row.pc \in {"pop", "count"}
    BY <1>2, RowAfter
  <2>3. current # 0 /\ caller[c].window = current
    BY <2>1, ChecksHoldKept DEF Checking
  <2> QED
    BY <2>1, <2>2, <2>3, CallGoesOn
<1>3. ASSUME NEW c \in Callers, CallOther(c) \/ Sweep(c) \/ StampKey(c) PROVE LimitsHold'
  <2>1. now' = now /\ let' = let /\ current' = current /\ Kept' = Kept
    BY <1>3 DEF CallOther, Sweep, StampKey, Kept
  <2>2. PICK row \in CallRow : /\ caller' = [caller EXCEPT ![c] = row]
                               /\ row.pc \notin {"look", "pop", "count", "append"}
    BY <1>3, RowAfter
  <2> QED
    BY <2>1, <2>2, CallGoesOn
<1>4. ASSUME caller' = caller, now' = now, let' = let, current' = current, windows' = windows
      PROVE  LimitsHold'
  <2>1. /\ ChecksAreCurrent' = ChecksAreCurrent
        /\ Slow' = Slow /\ \A t : Due(t)' = Due(t)
        /\ \A x : HeldFrom(x)' = HeldFrom(x)
    BY <1>4 DEF ChecksAreCurrent, Checking, Slow, Due, Span, HeldFrom, Stamps, Kept, From
  <2> QED
    BY <1>4, <2>1, LimitsGoOn DEF LimitsHold, StampsAreHeld
<1>5. CASE RevokeKey
  BY <1>4, <1>5 DEF RevokeKey
<1>6. CASE UNCHANGED apiVars
  BY <1>4, <1>6 DEF apiVars
<1> QED
  BY <1>1, <1>2, <1>3, <1>5, <1>6, ClockLimits, PopLimits, CountLimits, AppendLimits, DropLimits
     DEF ApiNext

LEMMA ApiIInvAlways == ApiSpec => []ApiIInv
<1>1. ApiInit => ApiIInv
  <2> SUFFICES ASSUME ApiInit PROVE ApiIInv
    OBVIOUS
  <2>1. ApiTypes
    <3>1. windows = <<>> /\ let = <<>> /\ current = 0 /\ now = 0 /\ cleaned = 0
      BY DEF ApiInit
    <3>2. <<>> \in Seq(Seq(Nat)) /\ <<>> \in Seq(Nat) /\ Len(<<>>) = 0 /\ 0 \in 0 .. 0
      OBVIOUS
    <3>3. caller \in [Callers -> CallRow]
      BY Rows DEF ApiInit
    <3>4. /\ key \in BOOLEAN /\ dropped \in BOOLEAN
          /\ keyOverwritten \in BOOLEAN /\ revoked \in BOOLEAN
      BY DEF ApiInit
    <3> QED
      BY <3>1, <3>2, <3>3, <3>4 DEF ApiTypes
  <2>2. RevokedStays
    BY DEF ApiInit, RevokedStays
  <2>3. \A c \in Callers : caller[c].pc = "idle"
    BY DEF ApiInit, NoCall
  <2>4. /\ ChecksAreCurrent /\ Slow = {}
        /\ \A t \in 0 .. MaxTime : Due(t) = {} /\ LetThrough(t) = {} /\ HeldFrom(t)
    <3>1. let = <<>> /\ DOMAIN let = {} /\ Kept = <<>>
      BY DEF ApiInit, Kept
    <3>2. ChecksAreCurrent /\ Slow = {}
      BY <2>3 DEF ChecksAreCurrent, Checking, Slow
    <3>3. ASSUME NEW t \in 0 .. MaxTime
          PROVE  Due(t) = {} /\ LetThrough(t) = {} /\ HeldFrom(t)
      <4>1. Due(t) = {} /\ LetThrough(t) = {}
        BY <2>3, <3>1 DEF Due, LetThrough
      <4>2. Stamps(let, From(t)) = {} /\ Stamps(Kept, From(t)) = {}
        BY <3>1 DEF Stamps
      <4> QED
        BY <4>1, <4>2, FS_EmptySet DEF HeldFrom
    <3> QED
      BY <3>2, <3>3
  <2>5. \A t \in 0 .. MaxTime : LetOrDue(t) = 0 /\ Cardinality(LetThrough(t)) = 0
    BY <2>4, FS_EmptySet DEF LetOrDue
  <2>6. MaxAttempts \in Nat /\ Cardinality(Callers) \in Nat /\ Cardinality(Callers) > 0
    BY ThreadsAreFinite, ApiAssumption
  <2>7. LimitsHold
    BY <2>4, <2>5, <2>6 DEF LimitsHold, StampsAreHeld, OpenWindows, ClosingWindow, ClosedWindows
  <2> QED
    BY <2>1, <2>2, <2>7 DEF ApiIInv
<1>2. ApiIInv /\ [ApiNext]_apiVars => ApiIInv'
  <2> SUFFICES ASSUME ApiIInv, [ApiNext]_apiVars PROVE ApiIInv'
    OBVIOUS
  <2>1. ApiTypes /\ ApiTypes'
    BY ApiTypesAreKept DEF ApiIInv
  <2>2. RevokedStays'
    <3>1. RevokedStays /\ keyOverwritten \in BOOLEAN
      BY <2>1 DEF ApiIInv, ApiTypes
    <3>2. ASSUME NEW c \in Callers, StampKey(c) PROVE RevokedStays'
      BY <3>1, <3>2 DEF StampKey, RevokedStays
    <3>3. CASE RevokeKey
      BY <3>3 DEF RevokeKey, RevokedStays
    <3>4. ASSUME key' = key, revoked' = revoked, keyOverwritten' = keyOverwritten
          PROVE  RevokedStays'
      BY <3>1, <3>4 DEF RevokedStays
    <3>5. ASSUME NEW c \in Callers,
                 \/ BeginCall(c) \/ Look(c) \/ PopStamp(c) \/ CountCall(c) \/ AppendCall(c)
                 \/ CallOther(c) \/ Sweep(c) \/ Drop(c)
          PROVE  RevokedStays'
      BY <3>4, <3>5 DEF BeginCall, Look, PopStamp, CountCall, AppendCall, CallOther, Sweep, Drop
    <3>6. CASE Clock \/ UNCHANGED apiVars
      BY <3>4, <3>6 DEF Clock, apiVars
    <3> QED
      BY <3>2, <3>3, <3>5, <3>6 DEF ApiNext
  <2>3. ASSUME ~ dropped' PROVE LimitsHold'
    <3>1. ~ dropped
      <4>1. ASSUME NEW c \in Callers, PopStamp(c) \/ Drop(c) PROVE ~ dropped
        BY <2>3, <4>1 DEF PopStamp, Drop
      <4>2. ASSUME NEW c \in Callers,
                   \/ BeginCall(c) \/ Look(c) \/ CountCall(c) \/ AppendCall(c)
                   \/ CallOther(c) \/ Sweep(c) \/ StampKey(c)
            PROVE  ~ dropped
        BY <2>3, <4>2 DEF BeginCall, Look, CountCall, AppendCall, CallOther, Sweep, StampKey
      <4>3. CASE Clock \/ RevokeKey \/ UNCHANGED apiVars
        BY <2>3, <4>3 DEF Clock, RevokeKey, apiVars
      <4> QED
        BY <4>1, <4>2, <4>3 DEF ApiNext
    <3>2. LimitsHold
      BY <3>1 DEF ApiIInv
    <3> QED
      BY <2>1, <2>3, <3>2, LimitsAreKept
  <2> QED
    BY <2>1, <2>2, <2>3 DEF ApiIInv
<1> QED
  BY <1>1, <1>2, PTL DEF ApiSpec

\* For any number of threads, any limit, window and cleaning: no window lets through
\* more than the limit and twice the other threads, unless a stamp that counts was
\* lost (btpay/security/rate_limit.py:26), and a revoked key stays revoked unless a
\* call saved a copy that it had fetched before (btpay/auth/decorators.py:106).
THEOREM LimitsAreMet == ApiSpec => []CallsAreLimited
<1>1. ApiIInv => CallsAreLimited
  <2> SUFFICES ASSUME ApiIInv PROVE CallsAreLimited
    OBVIOUS
  <2>1. ASSUME ~ dropped, NEW t \in 0 .. MaxTime
        PROVE  Cardinality(LetThrough(t)) <= MaxAttempts + 2 * Cardinality(Callers) - 2
    <3>1. ApiTypes /\ LimitsHold
      BY <2>1 DEF ApiIInv
    <3>2. /\ now \in Nat /\ Window \in Nat /\ MaxAttempts \in Nat
          /\ Cardinality(Callers) \in Nat /\ Cardinality(Callers) > 0
      BY <3>1, ThreadsAreFinite, ApiAssumption DEF ApiTypes
    <3>3. Slow \subseteq Callers /\ Due(t) \subseteq Callers
      BY DEF Slow, Due
    <3>4. Cardinality(Slow) \in Nat /\ Cardinality(Due(t)) \in Nat
      BY <3>3, ThreadsAreFinite
    <3>5. LetThrough(t) = Stamps(let, Span(t)) /\ let \in Seq(Nat)
      BY <3>1 DEF LetThrough, Stamps, Span, ApiTypes
    <3>6. Cardinality(LetThrough(t)) \in Nat
      BY <3>5, StampsAreFinite
    <3>7. CASE t >= now - Window
      <4>1. LetOrDue(t) <= MaxAttempts + Cardinality(Callers) - 1
        BY <3>1, <3>7 DEF LimitsHold, OpenWindows
      <4> QED
        BY <3>2, <3>4, <3>6, <4>1 DEF LetOrDue
    <3>8. CASE t = now - 1 - Window
      <4>1. \/ LetOrDue(t) <= MaxAttempts + Cardinality(Callers) - 1
            \/ LetOrDue(t) + Cardinality(Slow) <= MaxAttempts + 2 * Cardinality(Callers) - 2
        BY <3>1, <3>8 DEF LimitsHold, ClosingWindow
      <4> QED
        BY <3>2, <3>4, <3>6, <4>1 DEF LetOrDue
    <3>9. CASE t < now - 1 - Window
      BY <3>1, <3>9 DEF LimitsHold, ClosedWindows
    <3> QED
      BY <3>2, <3>7, <3>8, <3>9
  <2>2. revoked /\ ~ keyOverwritten => ~ key
    BY DEF ApiIInv, RevokedStays
  <2> QED
    BY <2>1, <2>2 DEF CallsAreLimited
<1> QED
  BY <1>1, ApiIInvAlways, PTL

-------------------------------------------------------------------------------
(* Exchange rates. *)

\* What is collected for a currency: valid prices, in order.
InOrder(s) == \A i, j \in 1 .. Len(s) : i < j => s[i] <= s[j]
PriceLists == {s \in Seq(Int) : InOrder(s) /\ \A n \in 1 .. Len(s) : Valid(s[n])}

FetchRow == [pc : {"idle", "asking"}, asked : Nat, all : [Currencies -> PriceLists]]

RatesIInv ==
    /\ fetch \in [Fetchers -> FetchRow]
    /\ \A c \in Currencies : rates[c] # NoRate =>
          \E s \in PriceLists : s # <<>> /\ rates[c] = AverageRates(s)

\* Where all terms are within bounds, so is the average.
LEMMA SumIsWithin ==
    ASSUME NEW S, IsFiniteSet(S), NEW f, NEW a \in Int, NEW b \in Int, NEW k \in Int,
           \A x \in S : f[x] \in Int /\ a <= k * f[x] /\ k * f[x] <= b
    PROVE  /\ SumFunctionOnSet(f, S) \in Int
           /\ a * Cardinality(S) <= k * SumFunctionOnSet(f, S)
           /\ k * SumFunctionOnSet(f, S) <= b * Cardinality(S)
<1>1. PICK g : SumsUp(g, f, S) /\ SumFunctionOnSet(f, S) = g[S]
  BY SumIsWitnessed
<1>2. \A s \in SUBSET S :
          g[s] = IF s = {} THEN 0 ELSE f[FirstOf(s)] + g[s \ {FirstOf(s)}]
  BY <1>1, SumsUpEquation
<1> DEFINE Good(s) == /\ g[s] \in Int
                      /\ a * Cardinality(s) <= k * g[s]
                      /\ k * g[s] <= b * Cardinality(s)
           Bad == {s \in SUBSET S : ~ Good(s)}
<1>3. Bad = {}
  <2>1. SUFFICES ASSUME Bad # {} PROVE FALSE
    OBVIOUS
  <2>2. PICK s \in Bad : \A u \in Bad : u \subseteq s => u = s
    <3>1. Bad \subseteq SUBSET S
      OBVIOUS
    <3> HIDE DEF Bad
    <3> QED
      BY <2>1, <3>1, SmallestSubset
  <2>3. s # {}
    <3>1. Cardinality({}) = 0
      BY FS_EmptySet
    <3>2. g[{}] = 0
      BY <1>2
    <3>3. Good({})
      BY <3>1, <3>2
    <3> QED
      BY <3>3
  <2>4. PICK x \in s : x = FirstOf(s)
    BY <2>3, FirstOfIsElement
  <2>5. PICK u \in SUBSET S : u = s \ {x}
    OBVIOUS
  <2>6. Good(u)
    <3>1. u \subseteq s /\ u # s
      BY <2>5
    <3>2. u \notin Bad
      <4> HIDE DEF Bad
      <4> QED
        BY <2>2, <3>1
    <3> HIDE DEF Good
    <3> QED
      BY <3>2
  <2>7. g[s] = f[x] + g[u]
    BY <1>2, <2>3, <2>4, <2>5
  <2>8. Cardinality(u) \in Nat /\ Cardinality(s) = Cardinality(u) + 1
    <3>1. IsFiniteSet(s) /\ IsFiniteSet(u)
      BY FS_Subset
    <3>2. Cardinality(u) \in Nat /\ Cardinality(s) \in Nat
      BY <3>1, FS_CardinalityType
    <3>3. Cardinality(s \ {x}) = IF x \in s THEN Cardinality(s) - 1 ELSE Cardinality(s)
      BY <3>1, FS_RemoveElement, Zenon
    <3> QED
      BY <2>5, <3>2, <3>3
  <2>9. PICK n \in Nat, y \in Int, z \in Int : n = Cardinality(u) /\ y = f[x] /\ z = g[u]
    BY <2>6, <2>8
  <2>10. /\ a * (n + 1) = a * n + a /\ b * (n + 1) = b * n + b
         /\ k * (y + z) = k * y + k * z
    OBVIOUS
  <2>11. a <= k * y /\ k * y <= b /\ a * n <= k * z /\ k * z <= b * n
    BY <2>6, <2>9
  <2>12. g[s] = y + z /\ Cardinality(s) = n + 1
    BY <2>7, <2>8, <2>9
  <2>13. y + z \in Int /\ a * (n + 1) <= k * (y + z) /\ k * (y + z) <= b * (n + 1)
    <3>1. PICK an \in Int, bn \in Int, ky \in Int, kz \in Int :
             an = a * n /\ bn = b * n /\ ky = k * y /\ kz = k * z
      OBVIOUS
    <3> QED
      BY <2>10, <2>11, <3>1
  <2>14. Good(s)
    BY <2>12, <2>13
  <2> QED
    BY <2>14
<1>4. S \notin Bad
  BY <1>3
<1> QED
  BY <1>1, <1>4

\* The prices up to p are the first ones of a list in order.
LEMMA LowOnesComeFirst ==
    ASSUME NEW s \in PriceLists, NEW p \in Int
    PROVE  \E k \in 0 .. Len(s) :
              /\ Cardinality({n \in DOMAIN s : s[n] <= p}) = k
              /\ \A n \in 1 .. Len(s) : s[n] <= p <=> n <= k
<1> DEFINE low == {n \in DOMAIN s : s[n] <= p}
<1>1. /\ DOMAIN s = 1 .. Len(s) /\ Len(s) \in Nat
      /\ \A i \in 1 .. Len(s) : s[i] \in Int
      /\ \A i, j \in 1 .. Len(s) : i < j => s[i] <= s[j]
  BY DEF PriceLists, InOrder
<1> DEFINE all == 1 .. Len(s) + 1
           T == {u \in SUBSET all : \E m \in all : m \notin low /\ u = 1 .. m}
<1>2. IsFiniteSet(all)
  BY <1>1, FS_Interval
<1>3. T \subseteq SUBSET all /\ T # {}
  <2>1. Len(s) + 1 \in all /\ Len(s) + 1 \notin low
    BY <1>1
  <2>2. 1 .. Len(s) + 1 \in T
    BY <2>1
  <2> QED
    BY <2>2
<1>4. PICK u \in T : \A v \in T : v \subseteq u => v = u
  <2> HIDE DEF T, all
  <2> QED
    BY <1>2, <1>3, SmallestSubset
<1>5. PICK m \in all : m \notin low /\ u = 1 .. m
  OBVIOUS
<1>6. ASSUME NEW n \in 1 .. m - 1
      PROVE  n \in low
  <2>1. SUFFICES ASSUME n \notin low PROVE FALSE
    OBVIOUS
  <2>2. n \in all /\ n < m /\ 1 .. n \subseteq 1 .. m /\ 1 .. n \subseteq all
    BY <1>1
  <2>3. 1 .. n \in T
    BY <2>1, <2>2
  <2>4. 1 .. n = 1 .. m
    <3> HIDE DEF T, all
    <3> QED
      BY <1>4, <1>5, <2>2, <2>3
  <2>5. m \in 1 .. m /\ m \notin 1 .. n
    BY <1>1, <2>2
  <2> QED
    BY <2>4, <2>5
<1>7. ASSUME NEW n \in 1 .. Len(s), s[n] <= p
      PROVE  n <= m - 1
  <2>1. SUFFICES ASSUME m <= n PROVE FALSE
    BY <1>1
  <2>2. m \in 1 .. Len(s) /\ s[m] <= s[n]
    BY <1>1, <2>1
  <2> QED
    BY <1>1, <1>5, <1>7, <2>2
<1>8. low = 1 .. m - 1
  BY <1>1, <1>6, <1>7
<1>9. m - 1 \in 0 .. Len(s)
  BY <1>1
<1>10. Cardinality(low) = m - 1
  <2>1. Cardinality(1 .. m - 1) = IF 1 > m - 1 THEN 0 ELSE m - 1 - 1 + 1
    <3>1. 1 \in Int /\ m - 1 \in Int
      BY <1>1
    <3> QED
      BY <3>1, FS_Interval, Zenon
  <2>2. low = 1 .. m - 1 /\ m - 1 \in Nat
    BY <1>1, <1>8, <1>9
  <2> HIDE DEF low
  <2> QED
    BY <2>1, <2>2
<1>11. \A n \in 1 .. Len(s) : s[n] <= p <=> n <= m - 1
  BY <1>1, <1>6, <1>7
<1> QED
  BY <1>9, <1>10, <1>11

LEMMA InsertIsConcat ==
    ASSUME NEW s, NEW i, NEW e
    PROVE  InsertAt(s, i, e) = SubSeq(s, 1, i - 1) \o <<e>> \o SubSeq(s, i, Len(s))
BY DEF InsertAt

LEMMA PartsOfList ==
    ASSUME NEW s \in Seq(Int), NEW k \in 0 .. Len(s)
    PROVE  /\ SubSeq(s, 1, k) \in Seq(Int) /\ Len(SubSeq(s, 1, k)) = k
           /\ SubSeq(s, k + 1, Len(s)) \in Seq(Int)
           /\ Len(SubSeq(s, k + 1, Len(s))) = Len(s) - k
           /\ \A n \in 1 .. k : SubSeq(s, 1, k)[n] = s[n]
           /\ \A n \in 1 .. Len(s) - k : SubSeq(s, k + 1, Len(s))[n] = s[k + n]
OBVIOUS

LEMMA PriceIsInserted ==
    ASSUME NEW s \in PriceLists, NEW p \in Int, Valid(p)
    PROVE  WithPrice(s, p) \in PriceLists
<1>1. PICK k \in 0 .. Len(s) :
        /\ Cardinality({n \in DOMAIN s : s[n] <= p}) = k
        /\ \A n \in 1 .. Len(s) : s[n] <= p <=> n <= k
  BY LowOnesComeFirst
<1>2. PICK r : r = WithPrice(s, p)
  OBVIOUS
<1>3. s \in Seq(Int) /\ Len(s) \in Nat /\ k \in Int
  BY DEF PriceLists
<1>4. /\ r \in Seq(Int) /\ Len(r) = Len(s) + 1
      /\ \A n \in 1 .. k : r[n] = s[n]
      /\ r[k + 1] = p
      /\ \A n \in k + 2 .. Len(s) + 1 : r[n] = s[n - 1]
  <2>1. r = SubSeq(s, 1, (k + 1) - 1) \o <<p>> \o SubSeq(s, k + 1, Len(s))
    <3>1. r = InsertAt(s, k + 1, p)
      BY <1>1, <1>2 DEF WithPrice
    <3>2. InsertAt(s, k + 1, p) = SubSeq(s, 1, (k + 1) - 1) \o <<p>> \o SubSeq(s, k + 1, Len(s))
      BY InsertIsConcat
    <3> QED
      BY <3>1, <3>2, Zenon
  <2>2. (k + 1) - 1 = k
    BY <1>3
  <2>3. PICK a, b : a = SubSeq(s, 1, k) /\ b = SubSeq(s, k + 1, Len(s))
    OBVIOUS
  <2>4. /\ a \in Seq(Int) /\ b \in Seq(Int)
        /\ Len(a) = k /\ Len(b) = Len(s) - k
        /\ \A n \in 1 .. k : a[n] = s[n]
        /\ \A n \in 1 .. Len(s) - k : b[n] = s[k + n]
    BY <1>3, <2>3, PartsOfList
  <2>5. PICK d : d = a \o <<p>>
    OBVIOUS
  <2>6. /\ d \in Seq(Int) /\ Len(d) = k + 1 /\ d[k + 1] = p
        /\ \A n \in 1 .. k : d[n] = s[n]
    <3>1. <<p>> \in Seq(Int) /\ Len(<<p>>) = 1 /\ <<p>>[1] = p
      OBVIOUS
    <3>2. /\ d \in Seq(Int) /\ Len(d) = Len(a) + Len(<<p>>)
          /\ \A i \in 1 .. Len(a) + Len(<<p>>) :
                d[i] = IF i <= Len(a) THEN a[i] ELSE <<p>>[i - Len(a)]
      BY <2>4, <2>5, <3>1, ConcatProperties
    <3> QED
      BY <1>3, <2>4, <3>1, <3>2
  <2>7. r = d \o b
    BY <2>1, <2>2, <2>3, <2>5
  <2>8. /\ r \in Seq(Int) /\ Len(r) = k + 1 + (Len(s) - k)
        /\ \A n \in 1 .. k + 1 : r[n] = d[n]
        /\ \A n \in k + 2 .. Len(s) + 1 : r[n] = b[n - (k + 1)]
    <3>1. /\ r \in Seq(Int) /\ Len(r) = Len(d) + Len(b)
          /\ \A i \in 1 .. Len(d) + Len(b) :
                r[i] = IF i <= Len(d) THEN d[i] ELSE b[i - Len(d)]
      BY <2>4, <2>6, <2>7, ConcatProperties
    <3>2. ASSUME NEW n \in 1 .. k + 1 PROVE r[n] = d[n]
      <4>1. n \in 1 .. Len(d) + Len(b) /\ n <= Len(d)
        BY <1>3, <2>4, <2>6
      <4> QED
        BY <3>1, <4>1
    <3>3. ASSUME NEW n \in k + 2 .. Len(s) + 1 PROVE r[n] = b[n - (k + 1)]
      <4>1. n \in 1 .. Len(d) + Len(b) /\ ~ (n <= Len(d))
        BY <1>3, <2>4, <2>6
      <4> QED
        BY <2>6, <3>1, <4>1
    <3> QED
      BY <2>4, <2>6, <3>1, <3>2, <3>3
  <2>9. ASSUME NEW n \in k + 2 .. Len(s) + 1
        PROVE  r[n] = s[n - 1]
    <3>1. n - (k + 1) \in 1 .. Len(s) - k /\ k + (n - (k + 1)) = n - 1
      BY <1>3
    <3> QED
      BY <2>4, <2>8, <3>1
  <2>10. \A n \in 1 .. k : r[n] = s[n]
    <3>1. TAKE n \in 1 .. k
    <3>2. n \in 1 .. k + 1
      BY <1>3
    <3> QED
      BY <2>6, <2>8, <3>2
  <2>11. r[k + 1] = p /\ k + 1 + (Len(s) - k) = Len(s) + 1
    <3>1. k + 1 \in 1 .. k + 1 /\ k + 1 + (Len(s) - k) = Len(s) + 1
      BY <1>3
    <3> QED
      BY <2>6, <2>8, <3>1
  <2> QED
    BY <2>8, <2>9, <2>10, <2>11
<1>5. ASSUME NEW n \in 1 .. Len(r)
      PROVE  /\ n <= k => n \in 1 .. Len(s) /\ r[n] = s[n]
             /\ n = k + 1 => r[n] = p
             /\ n > k + 1 => n - 1 \in 1 .. Len(s) /\ r[n] = s[n - 1]
  BY <1>3, <1>4
<1>6. /\ \A i \in 1 .. Len(s) : s[i] \in Int /\ Valid(s[i])
      /\ \A i, j \in 1 .. Len(s) : i < j => s[i] <= s[j]
  BY DEF PriceLists, InOrder
<1>7. \A n \in 1 .. Len(r) : Valid(r[n])
  <2>1. TAKE n \in 1 .. Len(r)
  <2>2. n <= k \/ n = k + 1 \/ n > k + 1
    BY <1>3
  <2> QED
    BY <1>5, <1>6, <2>2
<1>8. InOrder(r)
  <2> SUFFICES ASSUME NEW i \in 1 .. Len(r), NEW j \in 1 .. Len(r), i < j
               PROVE  r[i] <= r[j]
    BY DEF InOrder
  <2>1. CASE j <= k
    BY <1>3, <1>5, <1>6, <2>1
  <2>2. CASE j = k + 1
    <3>1. i <= k
      BY <1>3, <2>2
    <3> QED
      BY <1>1, <1>5, <2>2, <3>1
  <2>3. CASE j > k + 1
    <3>1. j - 1 \in 1 .. Len(s) /\ r[j] = s[j - 1] /\ ~ (j - 1 <= k)
      BY <1>3, <1>5, <2>3
    <3>2. s[j - 1] \in Int /\ ~ (s[j - 1] <= p)
      BY <1>1, <1>6, <3>1
    <3>3. CASE i <= k
      <4>1. i \in 1 .. Len(s) /\ r[i] = s[i] /\ i < j - 1
        BY <1>3, <1>5, <2>3, <3>3
      <4> QED
        BY <1>6, <3>1, <4>1
    <3>4. CASE i = k + 1
      BY <1>5, <3>1, <3>2, <3>4
    <3>5. CASE i > k + 1
      <4>1. i - 1 \in 1 .. Len(s) /\ r[i] = s[i - 1] /\ i - 1 < j - 1
        BY <1>3, <1>5, <3>5
      <4> QED
        BY <1>6, <3>1, <4>1
    <3> QED
      BY <1>3, <3>3, <3>4, <3>5
  <2> QED
    BY <1>3, <2>1, <2>2, <2>3
<1> QED
  BY <1>2, <1>4, <1>7, <1>8 DEF PriceLists

LEMMA RatesStaySane ==
    ASSUME NEW s \in PriceLists, s # <<>>, NEW r, r = AverageRates(s)
    PROVE  /\ r.of = s /\ r.count > 0
           /\ r.count * Low <= r.sum /\ r.sum <= r.count * High
           /\ Len(s) >= 3 => 20 * Distance(r.sum, r.count * s[Len(s) \div 2 + 1])
                                <= r.count * s[Len(s) \div 2 + 1]
<1>1. /\ s \in Seq(Int) /\ Len(s) \in Nat /\ Len(s) > 0 /\ DOMAIN s = 1 .. Len(s)
      /\ \A n \in 1 .. Len(s) : s[n] \in Int /\ s[n] > 0 /\ Low <= s[n] /\ s[n] <= High
      /\ Low \in Int /\ High \in Int
  BY RatesAssumption DEF PriceLists, Valid
<1>2. PICK m : m = Median(s)
  OBVIOUS
<1>3. PICK mid \in Int : mid = Len(s) \div 2 + 1
  BY <1>1
<1>4. mid \in 1 .. Len(s)
  BY <1>1, <1>3
<1>5. m = s[mid] /\ m \in Int /\ m > 0
  BY <1>1, <1>2, <1>3, <1>4 DEF Median
<1>6. PICK S : S = IF Len(s) < 3 THEN DOMAIN s ELSE Near(s)
  OBVIOUS
<1>7. S \subseteq 1 .. Len(s) /\ mid \in S
  <2>1. Near(s) \subseteq DOMAIN s
    BY DEF Near
  <2>2. mid \in Near(s)
    <3>1. 20 * Distance(s[mid], m) <= m
      BY <1>5 DEF Distance
    <3> QED
      BY <1>1, <1>2, <1>4, <3>1 DEF Near
  <2> QED
    BY <1>1, <1>4, <1>6, <2>1, <2>2
<1>8. /\ IsFiniteSet(S) /\ Cardinality(S) \in Nat /\ Cardinality(S) > 0
  <2>1. IsFiniteSet(1 .. Len(s))
    BY <1>1, FS_Interval
  <2>2. IsFiniteSet(S)
    BY <1>7, <2>1, FS_Subset
  <2>3. Cardinality(S) \in Nat /\ Cardinality(S) # 0
    BY <1>7, <2>2, FS_CardinalityType, FS_EmptySet
  <2> QED
    BY <2>2, <2>3
<1>9. r = [sum |-> SumFunctionOnSet(s, S), count |-> Cardinality(S), of |-> s]
  BY <1>6 DEF AverageRates, AverageOver
<1>10. PICK n, t : n \in Nat /\ n = Cardinality(S) /\ t = SumFunctionOnSet(s, S)
  BY <1>8
<1>11. r.of = s /\ r.count = n /\ r.sum = t /\ n > 0
  BY <1>8, <1>9, <1>10
<1>12. t \in Int /\ Low * n <= 1 * t /\ 1 * t <= High * n
  <2>1. \A x \in S : s[x] \in Int /\ Low <= 1 * s[x] /\ 1 * s[x] <= High
    BY <1>1, <1>7
  <2>2. IsFiniteSet(S) /\ Low \in Int /\ High \in Int /\ 1 \in Int
    BY <1>1, <1>8
  <2>3. /\ SumFunctionOnSet(s, S) \in Int
        /\ Low * Cardinality(S) <= 1 * SumFunctionOnSet(s, S)
        /\ 1 * SumFunctionOnSet(s, S) <= High * Cardinality(S)
    BY <2>1, <2>2, SumIsWithin, Zenon
  <2> QED
    BY <1>10, <2>3
<1>13. n * Low <= t /\ t <= n * High
  <2>1. n * Low = Low * n /\ n * High = High * n /\ 1 * t = t
    BY <1>1, <1>10, <1>12
  <2> QED
    BY <1>12, <2>1
<1>14. ASSUME Len(s) >= 3
       PROVE  20 * Distance(t, n * m) <= n * m
  <2>1. S = Near(s)
    BY <1>1, <1>6, <1>14
  <2>2. \A x \in S : s[x] \in Int /\ 19 * m <= 20 * s[x] /\ 20 * s[x] <= 21 * m
    <3>1. TAKE x \in S
    <3>2. 20 * Distance(s[x], m) <= m /\ s[x] \in Int
      BY <1>1, <1>2, <1>7, <2>1 DEF Near
    <3> QED
      BY <1>5, <3>2 DEF Distance
  <2>3. 19 * m \in Int /\ 21 * m \in Int
    BY <1>5
  <2>4. (19 * m) * n <= 20 * t /\ 20 * t <= (21 * m) * n
    <3>1. PICK a \in Int, b \in Int : a = 19 * m /\ b = 21 * m
      BY <2>3
    <3>2. \A x \in S : s[x] \in Int /\ a <= 20 * s[x] /\ 20 * s[x] <= b
      BY <2>2, <3>1
    <3>3. IsFiniteSet(S) /\ 20 \in Int
      BY <1>8
    <3>4. /\ a * Cardinality(S) <= 20 * SumFunctionOnSet(s, S)
          /\ 20 * SumFunctionOnSet(s, S) <= b * Cardinality(S)
      BY <3>2, <3>3, SumIsWithin, Zenon
    <3> QED
      BY <1>10, <3>1, <3>4
  <2>5. PICK z \in Int : z = n * m
    BY <1>5, <1>10
  <2>6. (19 * m) * n = 19 * z /\ (21 * m) * n = 21 * z
    BY <1>5, <1>10, <2>5
  <2>7. 19 * z <= 20 * t /\ 20 * t <= 21 * z
    BY <2>4, <2>6
  <2> QED
    BY <1>12, <2>5, <2>7 DEF Distance
<1> QED
  BY <1>2, <1>3, <1>5, <1>11, <1>13, <1>14

LEMMA RatesIInvAlways == RatesSpec => []RatesIInv
<1>0. <<>> \in PriceLists
  BY DEF PriceLists, InOrder
<1>1. NoFetch \in FetchRow
  BY <1>0 DEF NoFetch, FetchRow
<1>2. RatesInit => RatesIInv
  BY <1>1 DEF RatesInit, RatesIInv
<1>3. RatesIInv /\ [RatesNext]_rateVars => RatesIInv'
  <2> SUFFICES ASSUME RatesIInv, [RatesNext]_rateVars PROVE RatesIInv'
    OBVIOUS
  <2>1. ASSUME NEW f \in Fetchers, NEW row \in FetchRow,
               fetch' = [fetch EXCEPT ![f] = row], rates' = rates
        PROVE  RatesIInv'
    BY <2>1 DEF RatesIInv
  <2>2. ASSUME NEW f \in Fetchers
        PROVE  /\ fetch[f] \in FetchRow /\ fetch[f].asked \in Nat
               /\ fetch[f].all \in [Currencies -> PriceLists]
    BY DEF RatesIInv, FetchRow
  <2>3. ASSUME NEW f \in Fetchers, BeginFetch(f) PROVE RatesIInv'
    <3>1. [NoFetch EXCEPT !.pc = "asking"] \in FetchRow
      BY <1>1 DEF FetchRow
    <3> QED
      BY <2>1, <2>3, <3>1 DEF BeginFetch
  <2>4. ASSUME NEW f \in Fetchers, FailFetch(f) PROVE RatesIInv'
    <3> DEFINE row == [fetch[f] EXCEPT !.asked = @ + 1]
    <3>1. row \in FetchRow
      BY <2>2 DEF FetchRow
    <3>2. fetch' = [fetch EXCEPT ![f] = row] /\ rates' = rates
      BY <2>4 DEF FailFetch
    <3> QED
      BY <2>1, <3>1, <3>2
  <2>5. ASSUME NEW f \in Fetchers, NEW quoted \in Quotes, SourceAnswers(f, quoted)
        PROVE  RatesIInv'
    <3> DEFINE all == [c \in Currencies |->
                         IF c \in DOMAIN quoted /\ Valid(quoted[c])
                         THEN WithPrice(fetch[f].all[c], quoted[c]) ELSE fetch[f].all[c]]
               row == [fetch[f] EXCEPT !.asked = @ + 1, !.all = all]
    <3>1. ASSUME NEW c \in Currencies PROVE all[c] \in PriceLists
      <4>1. fetch[f].all[c] \in PriceLists
        BY <2>2
      <4>2. ASSUME c \in DOMAIN quoted PROVE quoted[c] \in Int
        BY <4>2, RatesAssumption DEF Quotes
      <4> QED
        BY <4>1, <4>2, PriceIsInserted
    <3>2. all \in [Currencies -> PriceLists]
      BY <3>1
    <3>3. /\ fetch' = [fetch EXCEPT ![f].asked = @ + 1, ![f].all = all]
          /\ rates' = rates
      BY <2>5 DEF SourceAnswers
    <3> HIDE DEF all
    <3>4. row \in FetchRow
      <4>1. PICK old, asked : /\ old = fetch[f] /\ old \in FetchRow
                              /\ asked = fetch[f].asked + 1 /\ asked \in Nat
        <5>1. fetch[f].asked + 1 \in Nat
          BY <2>2
        <5> QED
          BY <2>2, <5>1
      <4>2. [old EXCEPT !.asked = asked, !.all = all] \in FetchRow
        BY <3>2, <4>1 DEF FetchRow
      <4> QED
        BY <4>1, <4>2
    <3>5. [fetch EXCEPT ![f].asked = @ + 1, ![f].all = all] = [fetch EXCEPT ![f] = row]
      BY <2>2 DEF RatesIInv, FetchRow
    <3> QED
      BY <2>1, <3>3, <3>4, <3>5
  <2>6. ASSUME NEW f \in Fetchers, FinishFetch(f) PROVE RatesIInv'
    <3>1. /\ fetch' = [fetch EXCEPT ![f] = NoFetch]
          /\ rates' = [c \in Currencies |->
                IF fetch[f].all[c] = <<>> THEN rates[c] ELSE AverageRates(fetch[f].all[c])]
      BY <2>6 DEF FinishFetch
    <3>2. fetch' \in [Fetchers -> FetchRow]
      BY <1>1, <3>1 DEF RatesIInv
    <3>3. ASSUME NEW c \in Currencies, rates'[c] # NoRate
          PROVE  \E s \in PriceLists : s # <<>> /\ rates'[c] = AverageRates(s)
      <4>1. CASE fetch[f].all[c] = <<>>
        <5>1. rates'[c] = rates[c]
          BY <3>1, <4>1
        <5> QED
          BY <3>3, <5>1 DEF RatesIInv
      <4>2. CASE fetch[f].all[c] # <<>>
        <5>1. rates'[c] = AverageRates(fetch[f].all[c])
          BY <3>1, <4>2
        <5>2. fetch[f].all[c] \in PriceLists
          BY <2>2
        <5> QED
          BY <4>2, <5>1, <5>2
      <4> QED
        BY <4>1, <4>2
    <3> QED
      BY <3>2, <3>3 DEF RatesIInv
  <2>7. ASSUME fetch' = fetch, rates' = rates PROVE RatesIInv'
    BY <2>7 DEF RatesIInv
  <2>8. ASSUME NEW s \in ToSet(Sources), SourceFlips(s) PROVE RatesIInv'
    BY <2>7, <2>8 DEF SourceFlips
  <2>9. CASE UNCHANGED rateVars
    BY <2>7, <2>9 DEF rateVars
  <2> QED
    BY <2>3, <2>4, <2>5, <2>6, <2>8, <2>9 DEF RatesNext, Fetch
<1> QED
  BY <1>2, <1>3, PTL DEF RatesSpec

\* For any sources, currencies and prices, and however the two fetches overlap: a
\* cached rate is an average of valid prices, and of three or more within 5% of the
\* median of all that were collected (btpay/bitcoin/exchange.py:295).
THEOREM RatesAreAverages == RatesSpec => []RatesAreSane
<1>1. RatesIInv => RatesAreSane
  <2> SUFFICES ASSUME RatesIInv, NEW c \in Currencies, rates[c] # NoRate
               PROVE  LET r == rates[c]
                          n == Len(r.of)
                      IN  /\ r.count > 0
                          /\ r.count * Low <= r.sum /\ r.sum <= r.count * High
                          /\ \A i, j \in 1 .. n : i < j => r.of[i] <= r.of[j]
                          /\ n >= 3 => 20 * Distance(r.sum, r.count * r.of[n \div 2 + 1])
                                           <= r.count * r.of[n \div 2 + 1]
    BY DEF RatesAreSane
  <2>1. PICK s \in PriceLists : s # <<>> /\ rates[c] = AverageRates(s)
    BY DEF RatesIInv
  <2>2. PICK r : r = rates[c]
    OBVIOUS
  <2>3. /\ r.of = s /\ r.count > 0
        /\ r.count * Low <= r.sum /\ r.sum <= r.count * High
        /\ Len(s) >= 3 => 20 * Distance(r.sum, r.count * s[Len(s) \div 2 + 1])
                             <= r.count * s[Len(s) \div 2 + 1]
    BY <2>1, <2>2, RatesStaySane
  <2>4. \A i, j \in 1 .. Len(s) : i < j => s[i] <= s[j]
    BY DEF PriceLists, InOrder
  <2> QED
    BY <2>2, <2>3, <2>4
<1> QED
  BY <1>1, RatesIInvAlways, PTL

===============================================================================
