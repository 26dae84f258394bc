-------------------------------- MODULE ApiAccess --------------------------------
(***************************************************************************)
(* API calls: the key (btpay/auth/decorators.py, settings_views.py) and the *)
(* sliding window that limits them (security/rate_limit.py), which also     *)
(* limits logins.  Calls run in threads that look, pop, count and append    *)
(* without a lock.  The clock advances in steps.                            *)
(*                                                                         *)
(* "Slip" introduces a mistaken form that a property is tested with.        *)
(***************************************************************************)
EXTENDS Integers, FiniteSets, Sequences, SequencesExt

CONSTANTS
    Callers,        \* request threads
    MaxAttempts,    \* calls allowed in one window
    Window,         \* its length
    Forgotten,      \* _cleanup drops a window that is as old as this (3600 s)
    Interval,       \* _cleanup_interval (300 s)
    MaxTime         \* bound on the clock

ASSUME ApiAssumption ==
    /\ IsFiniteSet(Callers) /\ Callers # {}
    /\ MaxAttempts \in Nat /\ Window \in Nat /\ MaxTime \in Nat
    /\ Interval \in Nat /\ Forgotten \in Nat

VARIABLES
    now,
    windows,        \* the deques of time stamps there have been for the key
    current,        \* the number of the one in _windows, 0 if there is none
    cleaned,        \* _last_cleanup
    key,            \* is_active of the ApiKey row
    caller,         \* each thread's place, the deque it holds, its now and stale_keys
    let,            \* history: the times of the calls let through
    dropped,        \* history: a stamp that still counts was lost
    keyOverwritten, \* history: a copy of the key was saved over a newer row
    revoked         \* history: revoke_api_key was answered

apiVars ==
    <<now, windows, current, cleaned, key, caller, let, dropped, keyOverwritten, revoked>>

NoCall == [pc |-> "idle", window |-> 0, at |-> 0, stale |-> FALSE]

ApiInit ==
    /\ now = 0 /\ windows = <<>> /\ current = 0 /\ cleaned = 0
    /\ key = TRUE
    /\ caller = [c \in Callers |-> NoCall]
    /\ let = <<>>
    /\ dropped = FALSE /\ keyOverwritten = FALSE /\ revoked = FALSE

CallAt(c, step) == caller[c].pc = step

\* Between reading the clock and recording the attempt.
Checking(c) == caller[c].pc \in {"look", "pop", "count", "append"}

\* A check takes less than a step of the clock.
Clock ==
    /\ now < MaxTime
    /\ \A c \in Callers : Checking(c) => caller[c].at = now
    /\ now' = now + 1
    /\ UNCHANGED <<windows, current, cleaned, key, caller, let, dropped, keyOverwritten, revoked>>

\* api_auth fetches the key; check() reads the clock and gets or makes the deque.
BeginCall(c) ==
    /\ CallAt(c, "idle") /\ key
    /\ IF current = 0
       THEN windows' = Append(windows, <<>>) /\ current' = Len(windows) + 1
       ELSE UNCHANGED <<windows, current>>
    /\ caller' = [caller EXCEPT ![c] = [NoCall EXCEPT !.pc = "look", !.window = current',
                                                      !.at = now]]
    /\ UNCHANGED <<now, cleaned, key, let, dropped, keyOverwritten, revoked>>

Old(stamp, at) == stamp < at - Window
Deque(c) == windows[caller[c].window]

\* The first stamp is looked at, and popped if it is older than the window.
Look(c) ==
    /\ CallAt(c, "look")
    /\ caller' = [caller EXCEPT ![c].pc =
          IF Deque(c) # <<>> /\ Old(Head(Deque(c)), caller[c].at) THEN "pop" ELSE "count"]
    /\ UNCHANGED <<now, windows, current, cleaned, key, let, dropped, keyOverwritten, revoked>>

\* Another thread may have popped the stamp that was looked at; then it is the next
\* one that goes, or there is none and the call fails.
PopStamp(c) ==
    /\ CallAt(c, "pop")
    /\ IF Deque(c) = <<>>
       THEN /\ caller' = [caller EXCEPT ![c] = NoCall]
            /\ UNCHANGED <<windows, dropped>>
       ELSE /\ windows' = [windows EXCEPT ![caller[c].window] = Tail(@)]
            /\ caller' = [caller EXCEPT ![c].pc = "look"]
            /\ dropped' = (dropped \/ ~ Old(Head(Deque(c)), caller[c].at))
    /\ UNCHANGED <<now, current, cleaned, key, let, keyOverwritten, revoked>>

\* Slip: a call too many is let through.
CountOneMore(c) ==
    /\ CallAt(c, "count")
    /\ caller' = [caller EXCEPT ![c] =
          IF Len(Deque(c)) > MaxAttempts THEN NoCall ELSE [@ EXCEPT !.pc = "append"]]
    /\ UNCHANGED <<now, windows, current, cleaned, key, let, dropped, keyOverwritten, revoked>>

CountCall(c) ==
    /\ CallAt(c, "count")
    /\ caller' = [caller EXCEPT ![c] =
          IF Len(Deque(c)) >= MaxAttempts THEN NoCall ELSE [@ EXCEPT !.pc = "append"]]
    /\ UNCHANGED <<now, windows, current, cleaned, key, let, dropped, keyOverwritten, revoked>>

AppendCall(c) ==
    /\ CallAt(c, "append")
    /\ windows' = [windows EXCEPT ![caller[c].window] = Append(@, caller[c].at)]
    /\ let' = Append(let, caller[c].at)
    /\ caller' = [caller EXCEPT ![c].pc =
          IF caller[c].at - cleaned > Interval THEN "sweep" ELSE "stamp"]
    /\ UNCHANGED <<now, current, cleaned, key, dropped, keyOverwritten, revoked>>

\* A check of another key, which shares nothing with this one but the cleaning.
CallOther(c) ==
    /\ CallAt(c, "idle") /\ now - cleaned > Interval
    /\ caller' = [caller EXCEPT ![c] = [NoCall EXCEPT !.pc = "otherSweep", !.at = now]]
    /\ UNCHANGED <<now, windows, current, cleaned, key, let, dropped, keyOverwritten, revoked>>

\* _cleanup lists the empty and the old windows.  A key that is added meanwhile
\* makes it fail, and the call with it.
Sweep(c) ==
    /\ CallAt(c, "sweep") \/ CallAt(c, "otherSweep")
    /\ LET stale == current # 0 /\ (windows[current] # <<>> =>
                                       Last(windows[current]) < caller[c].at - Forgotten)
       IN  \/ caller' = [caller EXCEPT
                 ![c].stale = stale,
                 ![c].pc = IF CallAt(c, "sweep") THEN "drop" ELSE "otherDrop"]
           \/ caller' = [caller EXCEPT ![c] = NoCall]
    /\ UNCHANGED <<now, windows, current, cleaned, key, let, dropped, keyOverwritten, revoked>>

\* Then it deletes them, whatever they have become, and fails if they are gone.
Drop(c) ==
    LET done == [caller EXCEPT ![c] =
                   IF CallAt(c, "drop") THEN [@ EXCEPT !.pc = "stamp"] ELSE NoCall]
    IN
    /\ CallAt(c, "drop") \/ CallAt(c, "otherDrop")
    /\ \/ /\ ~ caller[c].stale
          /\ caller' = done /\ cleaned' = caller[c].at
          /\ UNCHANGED <<current, dropped>>
       \/ /\ caller[c].stale /\ current # 0
          /\ caller' = done /\ cleaned' = caller[c].at
          /\ current' = 0
          /\ dropped' = (dropped \/ (\E d \in Callers : Checking(d))
                           \/ \E n \in DOMAIN windows[current] :
                                 ~ Old(windows[current][n], now))
       \/ /\ caller[c].stale /\ current = 0
          /\ caller' = [caller EXCEPT ![c] = NoCall]
          /\ UNCHANGED <<current, cleaned, dropped>>
    /\ UNCHANGED <<now, windows, key, let, keyOverwritten, revoked>>

\* last_used_at is saved, with the whole copy of the row.
StampKey(c) ==
    /\ CallAt(c, "stamp")
    /\ key' = TRUE
    /\ keyOverwritten' = (keyOverwritten \/ ~ key)
    /\ caller' = [caller EXCEPT ![c] = NoCall]
    /\ UNCHANGED <<now, windows, current, cleaned, let, dropped, revoked>>

\* revoke_api_key.
RevokeKey ==
    /\ key /\ key' = FALSE /\ revoked' = TRUE
    /\ UNCHANGED <<now, windows, current, cleaned, caller, let, dropped, keyOverwritten>>

ApiNext ==
    \/ Clock \/ RevokeKey
    \/ \E c \in Callers : \/ BeginCall(c) \/ Look(c) \/ PopStamp(c) \/ CountCall(c)
                          \/ AppendCall(c) \/ CallOther(c) \/ Sweep(c) \/ Drop(c)
                          \/ StampKey(c)

ApiSpec == ApiInit /\ [][ApiNext]_apiVars

-------------------------------------------------------------------------------
(* Properties. *)

LetThrough(t) == {n \in DOMAIN let : let[n] \in t .. t + Window}

\* In no window more calls are let through than are allowed, but for threads that
\* counted before others appended, and for threads that count late, after one with
\* a later clock has popped what they should have counted.  All this as long as
\* no stamp is lost that still counts: popped in another's place, or with a window
\* that _cleanup forgets while it is used.  A revoked key stays revoked, unless a
\* call fetched it before and saved its copy after.
CallsAreLimited ==
    /\ ~ dropped => \A t \in 0 .. MaxTime :
          Cardinality(LetThrough(t)) <= MaxAttempts + 2 * Cardinality(Callers) - 2
    /\ revoked /\ ~ keyOverwritten => ~ key
===============================================================================
