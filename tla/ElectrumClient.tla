----------------------------- MODULE ElectrumClient -----------------------------
(***************************************************************************)
(* The Electrum client (btpay/bitcoin/electrum.py): threads that share one  *)
(* connection ask, one at a time, and take the next line the server sends   *)
(* for the answer; nothing compares its id.  The server answers in order,   *)
(* and after a subscription it also sends lines of its own.  A connection   *)
(* breaks off or times out and is made anew.                                *)
(*                                                                         *)
(* "Slip" introduces a mistaken form that a property is tested with.        *)
(***************************************************************************)
EXTENDS Integers, Sequences

CONSTANTS
    Askers,         \* threads that share the client
    MaxSockets,     \* bound on the connections ever made
    MaxQuestions,   \* bound on the requests ever sent
    NoAsker

ASSUME ElectrumAssumption ==
    MaxSockets \in Nat /\ MaxQuestions \in Nat /\ NoAsker \notin Askers

VARIABLES
    socket,         \* the connection in use, 0 if there is none
    sockets,        \* connections made so far
    questions,      \* _request_id: every request has the next number
    toServer,       \* per connection: requests the server has not answered
    fromServer,     \* per connection: lines that nobody has read
    notifies,       \* per connection: the server has a subscription
    lock,           \* the holder of _lock
    asker,          \* each thread's place, its request and the file it reads
    answers         \* history: the answers calls returned

electrumVars == <<socket, sockets, questions, toServer, fromServer, notifies, lock, asker, answers>>
wires == <<toServer, fromServer, notifies>>

Sockets == 1 .. MaxSockets
\* A line that answers no request.
Notification == 0
AskerIdle == [pc |-> "idle", id |-> 0, file |-> 0]

ElectrumInit ==
    /\ socket = 0 /\ sockets = 0 /\ questions = 0
    /\ toServer = [k \in Sockets |-> <<>>] /\ fromServer = [k \in Sockets |-> <<>>]
    /\ notifies = [k \in Sockets |-> FALSE]
    /\ lock = NoAsker
    /\ asker = [a \in Askers |-> AskerIdle]
    /\ answers = {}

AskerAt(a, step) == asker[a].pc = step
\* The call ends, with an answer or an ElectrumError, and _lock is released.
Hang(a) == lock' = NoAsker /\ asker' = [asker EXCEPT ![a] = AskerIdle]

-------------------------------------------------------------------------------
(* connect, disconnect: by any thread, without the lock. *)

Connect ==
    /\ socket = 0 /\ sockets < MaxSockets
    /\ sockets' = sockets + 1 /\ socket' = sockets + 1
    /\ UNCHANGED <<questions, wires, lock, asker, answers>>

Disconnect ==
    /\ socket # 0 /\ socket' = 0
    /\ UNCHANGED <<sockets, questions, wires, lock, asker, answers>>

-------------------------------------------------------------------------------
(* _call. *)

\* _connected is looked at before the lock is taken.
BeginAsking(a) ==
    /\ AskerAt(a, "idle") /\ socket # 0
    /\ asker' = [asker EXCEPT ![a].pc = "lock"]
    /\ UNCHANGED <<socket, sockets, questions, wires, lock, answers>>

TakeLock(a) ==
    /\ AskerAt(a, "lock") /\ lock = NoAsker
    /\ lock' = a
    /\ asker' = [asker EXCEPT ![a].pc = "write"]
    /\ UNCHANGED <<socket, sockets, questions, wires, answers>>

\* The request is written to the connection there is now; with none it fails.
WriteRequest(a) ==
    /\ AskerAt(a, "write") /\ questions < MaxQuestions
    /\ questions' = questions + 1
    /\ IF socket = 0
       THEN Hang(a) /\ UNCHANGED toServer
       ELSE /\ toServer' = [toServer EXCEPT ![socket] = Append(@, questions + 1)]
            /\ asker' = [asker EXCEPT ![a].pc = "open", ![a].id = questions + 1]
            /\ UNCHANGED lock
    /\ UNCHANGED <<socket, sockets, fromServer, notifies, answers>>

\* readline, of the connection there is now.
OpenLine(a) ==
    /\ AskerAt(a, "open")
    /\ IF socket = 0
       THEN Hang(a)
       ELSE asker' = [asker EXCEPT ![a].pc = "read", ![a].file = socket] /\ UNCHANGED lock
    /\ UNCHANGED <<socket, sockets, questions, wires, answers>>

ReadAnswer(a) ==
    LET k == asker[a].file
    IN
    /\ AskerAt(a, "read") /\ fromServer[k] # <<>> /\ socket = k
    /\ answers' = answers \cup
          {[asked |-> asker[a].id, answered |-> Head(fromServer[k]), notifies |-> notifies[k]]}
    /\ fromServer' = [fromServer EXCEPT ![k] = Tail(@)]
    /\ Hang(a)
    /\ UNCHANGED <<socket, sockets, questions, toServer, notifies>>

\* Slip: after a time-out the connection is used again.
FailReusing(a) ==
    /\ AskerAt(a, "read")
    /\ Hang(a)
    /\ UNCHANGED <<socket, sockets, questions, wires, answers>>

\* A time-out or the end of the connection: _cleanup, whatever the connection is
\* by now.  A file that another thread has closed ends the call without it.
Fail(a) ==
    /\ AskerAt(a, "read")
    /\ socket' = 0 \/ (socket # asker[a].file /\ UNCHANGED socket)
    /\ Hang(a)
    /\ UNCHANGED <<sockets, questions, wires, answers>>

-------------------------------------------------------------------------------
(* The server. *)

\* An answer; that of headers.subscribe or scripthash.subscribe begins a
\* subscription.
ServerAnswers(k, subscribing) ==
    /\ toServer[k] # <<>>
    /\ fromServer' = [fromServer EXCEPT ![k] = Append(@, Head(toServer[k]))]
    /\ toServer' = [toServer EXCEPT ![k] = Tail(@)]
    /\ notifies' = [notifies EXCEPT ![k] = @ \/ subscribing]
    /\ UNCHANGED <<socket, sockets, questions, lock, asker, answers>>

\* A new block, or a transaction of the address.
ServerNotifies(k) ==
    /\ notifies[k] /\ fromServer[k] = <<>>
    /\ fromServer' = [fromServer EXCEPT ![k] = Append(@, Notification)]
    /\ UNCHANGED <<socket, sockets, questions, toServer, notifies, lock, asker, answers>>

ElectrumNext ==
    \/ Connect \/ Disconnect
    \/ \E a \in Askers :
          \/ BeginAsking(a) \/ TakeLock(a) \/ WriteRequest(a)
          \/ OpenLine(a)    \/ ReadAnswer(a) \/ Fail(a)
    \/ \E k \in Sockets :
          ServerNotifies(k) \/ \E subscribing \in BOOLEAN : ServerAnswers(k, subscribing)

ElectrumSpec == ElectrumInit /\ [][ElectrumNext]_electrumVars

-------------------------------------------------------------------------------
(* Properties. *)

\* What a call returns is the answer to its own request, although nobody compares
\* ids: time-outs, broken connections and threads that connect anew leave no old
\* line to be read.  It holds until the server has a subscription: a notification
\* is then read for an answer, and every later answer by the wrong call.
AnswersAreOwn ==
    \A x \in answers : x.notifies \/ x.answered = x.asked
===============================================================================
