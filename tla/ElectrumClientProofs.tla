------------------------- MODULE ElectrumClientProofs -------------------------
(***************************************************************************)
(* Proof about ElectrumClient for any threads and bounds: until the server  *)
(* has a subscription, a call returns the answer to its own request.        *)
(*                                                                         *)
(* Nobody compares ids, so the argument is about what is on the way: on the *)
(* connection in use there is at most one request or answer, and the thread *)
(* that holds the lock is waiting for it.  A call that fails gives the      *)
(* connection up with whatever is still on it.                              *)
(***************************************************************************)
EXTENDS ElectrumClient, SequenceTheorems, TLAPS

Places == [pc : {"idle", "lock", "write", "open", "read"}, id : Nat, file : Nat]

ElectrumTypeOK ==
    /\ sockets \in Nat /\ sockets <= MaxSockets
    /\ socket = 0 \/ socket = sockets
    /\ questions \in Nat
    /\ toServer \in [Sockets -> Seq(Nat)]
    /\ fromServer \in [Sockets -> Seq(Nat)]
    /\ notifies \in [Sockets -> BOOLEAN]
    /\ asker \in [Askers -> Places]
    /\ \A a \in Askers : asker[a].pc = "read" => asker[a].file \in Sockets

\* Connections that were not made yet carry nothing.
UnusedAreEmpty ==
    \A k \in Sockets : k > sockets =>
        toServer[k] = <<>> /\ fromServer[k] = <<>> /\ ~ notifies[k]

OneInside ==
    \A a \in Askers : asker[a].pc \in {"write", "open", "read"} => lock = a

\* A line of the connection in use that somebody waits for.
Awaited(line) ==
    \E a \in Askers :
        /\ asker[a].pc \in {"open", "read"} /\ asker[a].id = line
        /\ asker[a].pc = "read" => asker[a].file = socket

\* What is on a connection without a subscription.
QuietOn(k) ==
    /\ Len(toServer[k]) + Len(fromServer[k]) <= 1
    /\ toServer[k] # <<>> => Awaited(Head(toServer[k]))
    /\ fromServer[k] # <<>> => Awaited(Head(fromServer[k]))

QuietInUse == socket # 0 /\ ~ notifies[socket] => QuietOn(socket)

ElectrumIInv ==
    /\ ElectrumTypeOK /\ UnusedAreEmpty /\ OneInside
    /\ QuietInUse /\ AnswersAreOwn

LEMMA ElectrumInitially == ElectrumInit => ElectrumIInv
BY ElectrumAssumption
   DEF ElectrumInit, ElectrumIInv, ElectrumTypeOK, UnusedAreEmpty, OneInside, QuietInUse,
       AnswersAreOwn, Places, AskerIdle, Sockets

LEMMA ShortLines ==
    ASSUME NEW s \in Seq(Nat)
    PROVE  /\ Len(s) \in Nat
           /\ Len(s) = 0 <=> s = <<>>
           /\ s # <<>> => Head(s) \in Nat /\ Tail(s) \in Seq(Nat) /\ Len(Tail(s)) = Len(s) - 1
<1>1. Len(s) \in Nat
  BY LenProperties
<1>2. Len(s) = 0 <=> s = <<>>
  BY EmptySeq
<1>3. s # <<>> => Head(s) \in Nat /\ Tail(s) \in Seq(Nat) /\ Len(Tail(s)) = Len(s) - 1
  BY HeadTailProperties
<1> QED
  BY <1>1, <1>2, <1>3

LEMMA SocketInUse ==
    ASSUME ElectrumTypeOK, socket # 0
    PROVE  socket \in Sockets
BY ElectrumAssumption DEF ElectrumTypeOK, Sockets

LEMMA ElectrumTypeStep ==
    ASSUME ElectrumIInv, ElectrumNext
    PROVE  ElectrumTypeOK' /\ UnusedAreEmpty' /\ OneInside'
<1> DEFINE Goal == ElectrumTypeOK' /\ UnusedAreEmpty' /\ OneInside'
<1> USE ElectrumAssumption DEF Sockets
<1>i. ElectrumTypeOK /\ UnusedAreEmpty /\ OneInside
  BY DEF ElectrumIInv
<1>1. CASE Connect
  <2>1. /\ sockets < MaxSockets /\ sockets' = sockets + 1 /\ socket' = sockets'
        /\ UNCHANGED <<questions, toServer, fromServer, notifies, lock, asker>>
    BY <1>1 DEF Connect, wires
  <2>2. sockets' \in Nat /\ sockets' <= MaxSockets /\ sockets < sockets'
    BY <1>i, <2>1 DEF ElectrumTypeOK
  <2>3. ElectrumTypeOK'
    BY <1>i, <2>1, <2>2 DEF ElectrumTypeOK
  <2>4. \A k \in Sockets : k > sockets' => k > sockets
    BY <1>i, <2>2 DEF ElectrumTypeOK
  <2> QED
    BY <1>i, <2>1, <2>3, <2>4 DEF UnusedAreEmpty, OneInside
<1>2. CASE Disconnect
  BY <1>i, <1>2 DEF Disconnect, wires, ElectrumTypeOK, UnusedAreEmpty, OneInside
<1>3. ASSUME NEW a \in Askers, BeginAsking(a) PROVE Goal
  BY <1>i, <1>3 DEF BeginAsking, AskerAt, wires, ElectrumTypeOK, UnusedAreEmpty, OneInside, Places
<1>4. ASSUME NEW a \in Askers, TakeLock(a) PROVE Goal
  BY <1>i, <1>4 DEF TakeLock, AskerAt, wires, ElectrumTypeOK, UnusedAreEmpty, OneInside, Places
<1>h. ASSUME NEW a \in Askers, Hang(a), UNCHANGED <<sockets, notifies>>,
             socket' = socket \/ socket' = 0, questions' \in Nat,
             toServer' \in [Sockets -> Seq(Nat)], fromServer' \in [Sockets -> Seq(Nat)],
             \A k \in Sockets : k > sockets => toServer'[k] = <<>> /\ fromServer'[k] = <<>>,
             asker[a].pc \in {"write", "open", "read"}
      PROVE  Goal
  <2>1. asker' = [asker EXCEPT ![a] = AskerIdle] /\ lock' = NoAsker /\ AskerIdle \in Places
    BY <1>h DEF Hang, AskerIdle, Places
  <2>2. ElectrumTypeOK'
    BY <1>i, <1>h, <2>1 DEF ElectrumTypeOK, AskerIdle
  <2>3. UnusedAreEmpty'
    BY <1>i, <1>h DEF UnusedAreEmpty
  <2>4. OneInside'
    BY <1>i, <1>h, <2>1 DEF ElectrumTypeOK, OneInside, AskerIdle
  <2> QED
    BY <2>2, <2>3, <2>4
<1>t. /\ \A k \in Sockets : toServer[k] \in Seq(Nat) /\ fromServer[k] \in Seq(Nat)
      /\ \A k \in Sockets : k > sockets => toServer[k] = <<>> /\ fromServer[k] = <<>>
  BY <1>i DEF ElectrumTypeOK, UnusedAreEmpty
<1>5. ASSUME NEW a \in Askers, WriteRequest(a) PROVE Goal
  <2>1. /\ asker[a].pc = "write" /\ questions' = questions + 1 /\ questions' \in Nat
        /\ UNCHANGED <<socket, sockets, fromServer, notifies>>
    BY <1>5, <1>i DEF WriteRequest, AskerAt, ElectrumTypeOK
  <2>2. CASE socket = 0
    <3>1. Hang(a) /\ UNCHANGED toServer
      BY <1>5, <2>2 DEF WriteRequest
    <3> QED
      BY <1>h, <1>i, <1>t, <2>1, <3>1 DEF ElectrumTypeOK
  <2>3. CASE socket # 0
    <3>1. /\ toServer' = [toServer EXCEPT ![socket] = Append(@, questions + 1)]
          /\ asker' = [asker EXCEPT ![a].pc = "open", ![a].id = questions + 1]
          /\ UNCHANGED lock
      BY <1>5, <2>3 DEF WriteRequest
    <3>2. socket \in Sockets /\ socket = sockets
      BY <1>i, <2>3, SocketInUse DEF ElectrumTypeOK
    <3>3. Append(toServer[socket], questions + 1) \in Seq(Nat)
      BY <1>i, <1>t, <2>1, <3>2
    <3>4. toServer' \in [Sockets -> Seq(Nat)]
      BY <1>i, <3>1, <3>3 DEF ElectrumTypeOK
    <3>5. asker' \in [Askers -> Places]
      BY <1>i, <2>1, <3>1 DEF ElectrumTypeOK, Places
    <3>6. \A b \in Askers : b # a => asker'[b] = asker[b]
      BY <1>i, <3>1 DEF ElectrumTypeOK
    <3>7. asker'[a].pc = "open"
      BY <1>i, <3>1 DEF ElectrumTypeOK, Places
    <3>8. ElectrumTypeOK'
      BY <1>i, <2>1, <3>4, <3>5, <3>6, <3>7 DEF ElectrumTypeOK
    <3>9. OneInside'
      BY <1>i, <2>1, <3>1, <3>6, <3>7 DEF OneInside
    <3>10. UnusedAreEmpty'
      BY <1>i, <2>1, <3>1, <3>2 DEF UnusedAreEmpty, ElectrumTypeOK
    <3> QED
      BY <3>8, <3>9, <3>10
  <2> QED
    BY <2>2, <2>3
<1>6. ASSUME NEW a \in Askers, OpenLine(a) PROVE Goal
  <2>1. /\ asker[a].pc = "open"
        /\ UNCHANGED <<socket, sockets, questions, toServer, fromServer, notifies>>
    BY <1>6 DEF OpenLine, AskerAt, wires
  <2>2. CASE socket = 0
    <3>1. Hang(a)
      BY <1>6, <2>2 DEF OpenLine
    <3> QED
      BY <1>h, <1>i, <1>t, <2>1, <3>1 DEF ElectrumTypeOK
  <2>3. CASE socket # 0
    <3>1. asker' = [asker EXCEPT ![a].pc = "read", ![a].file = socket] /\ UNCHANGED lock
      BY <1>6, <2>3 DEF OpenLine
    <3>2. socket \in Sockets /\ socket \in Nat
      BY <1>i, <2>3, SocketInUse DEF ElectrumTypeOK
    <3>3. asker' \in [Askers -> Places]
      BY <1>i, <3>1, <3>2 DEF ElectrumTypeOK, Places
    <3>4. \A b \in Askers : b # a => asker'[b] = asker[b]
      BY <1>i, <3>1 DEF ElectrumTypeOK
    <3>5. asker'[a].file = socket
      BY <1>i, <3>1 DEF ElectrumTypeOK, Places
    <3>6. ElectrumTypeOK'
      BY <1>i, <2>1, <3>2, <3>3, <3>4, <3>5 DEF ElectrumTypeOK
    <3> QED
      BY <1>i, <2>1, <3>1, <3>4, <3>6 DEF OneInside, UnusedAreEmpty
  <2> QED
    BY <2>2, <2>3
<1>7. ASSUME NEW a \in Askers, ReadAnswer(a) PROVE Goal
  <2> DEFINE k == asker[a].file
  <2>1. /\ asker[a].pc = "read" /\ k \in Sockets /\ fromServer[k] # <<>>
        /\ fromServer' = [fromServer EXCEPT ![k] = Tail(@)] /\ Hang(a)
        /\ UNCHANGED <<socket, sockets, questions, toServer, notifies>>
    BY <1>7, <1>i DEF ReadAnswer, AskerAt, ElectrumTypeOK
  <2> HIDE DEF k
  <2>2. Tail(fromServer[k]) \in Seq(Nat)
    BY <1>t, <2>1
  <2>3. fromServer' \in [Sockets -> Seq(Nat)]
    BY <1>i, <2>1, <2>2 DEF ElectrumTypeOK
  <2>4. \A j \in Sockets : j > sockets => fromServer'[j] = <<>>
    BY <1>i, <1>t, <2>1 DEF ElectrumTypeOK
  <2> QED
    BY <1>h, <1>i, <1>t, <2>1, <2>3, <2>4 DEF ElectrumTypeOK
<1>8. ASSUME NEW a \in Askers, Fail(a) PROVE Goal
  <2>1. /\ asker[a].pc = "read" /\ Hang(a) /\ (socket' = 0 \/ socket' = socket)
        /\ UNCHANGED <<sockets, questions, toServer, fromServer, notifies>>
    BY <1>8 DEF Fail, AskerAt, wires
  <2> QED
    BY <1>h, <1>i, <1>t, <2>1 DEF ElectrumTypeOK
<1>9. ASSUME NEW k \in Sockets, ServerNotifies(k) PROVE Goal
  <2>1. /\ notifies[k]
        /\ fromServer' = [fromServer EXCEPT ![k] = Append(@, 0)]
        /\ UNCHANGED <<socket, sockets, questions, toServer, notifies, lock, asker>>
    BY <1>9 DEF ServerNotifies, Notification
  <2>2. Append(fromServer[k], 0) \in Seq(Nat)
    BY <1>t
  <2>3. fromServer' \in [Sockets -> Seq(Nat)]
    BY <1>i, <2>1, <2>2 DEF ElectrumTypeOK
  <2>4. \A j \in Sockets : j > sockets => fromServer'[j] = <<>>
    BY <1>i, <1>t, <2>1 DEF ElectrumTypeOK, UnusedAreEmpty
  <2> QED
    BY <1>i, <2>1, <2>3, <2>4 DEF ElectrumTypeOK, UnusedAreEmpty, OneInside
<1>10. ASSUME NEW k \in Sockets, NEW subscribing \in BOOLEAN, ServerAnswers(k, subscribing)
       PROVE  Goal
  <2>1. /\ toServer[k] # <<>>
        /\ fromServer' = [fromServer EXCEPT ![k] = Append(@, Head(toServer[k]))]
        /\ toServer' = [toServer EXCEPT ![k] = Tail(@)]
        /\ notifies' = [notifies EXCEPT ![k] = @ \/ subscribing]
        /\ UNCHANGED <<socket, sockets, questions, lock, asker>>
    BY <1>10 DEF ServerAnswers
  <2>2. Append(fromServer[k], Head(toServer[k])) \in Seq(Nat) /\ Tail(toServer[k]) \in Seq(Nat)
    BY <1>t, <2>1
  <2>3. fromServer' \in [Sockets -> Seq(Nat)] /\ toServer' \in [Sockets -> Seq(Nat)]
    BY <1>i, <2>1, <2>2 DEF ElectrumTypeOK
  <2>4. notifies' \in [Sockets -> BOOLEAN]
    BY <1>i, <2>1, Zenon DEF ElectrumTypeOK
  <2>5. ~ k > sockets
    BY <1>t, <2>1
  <2>6. UnusedAreEmpty'
    BY <1>i, <2>1, <2>5 DEF ElectrumTypeOK, UnusedAreEmpty
  <2> QED
    BY <1>i, <2>1, <2>3, <2>4, <2>6 DEF ElectrumTypeOK, OneInside
<1> QED
  BY <1>1, <1>2, <1>3, <1>4, <1>5, <1>6, <1>7, <1>8, <1>9, <1>10 DEF ElectrumNext

\* While nobody waits for the answer to a request, the connection is empty.
LEMMA NobodyWaits ==
    ASSUME QuietInUse, socket # 0, ~ notifies[socket],
           \A b \in Askers : asker[b].pc \in {"open", "read"} =>
                asker[b].pc = "read" /\ asker[b].file # socket
    PROVE  toServer[socket] = <<>> /\ fromServer[socket] = <<>>
BY DEF QuietInUse, QuietOn, Awaited

\* Nothing moves on the connection, and whoever waited still does or it is empty.
LEMMA QuietStutter ==
    ASSUME QuietInUse, UNCHANGED wires, socket' = socket,
           \A b \in Askers : asker[b].pc \in {"open", "read"} => asker'[b] = asker[b]
    PROVE  QuietInUse'
BY DEF QuietInUse, QuietOn, Awaited, wires

LEMMA QuietStep ==
    ASSUME ElectrumIInv, ElectrumTypeOK', ElectrumNext
    PROVE  QuietInUse'
<1> USE ElectrumAssumption
<1>i. /\ ElectrumTypeOK /\ UnusedAreEmpty /\ OneInside /\ QuietInUse
      /\ asker \in [Askers -> Places]
      /\ \A k \in Sockets : toServer[k] \in Seq(Nat) /\ fromServer[k] \in Seq(Nat)
      /\ socket # 0 => socket \in Sockets
  BY SocketInUse DEF ElectrumIInv, ElectrumTypeOK
<1>0. ASSUME socket' = 0 PROVE QuietInUse'
  BY <1>0 DEF QuietInUse
\* Whoever is inside is alone.
<1>a. ASSUME NEW a \in Askers, asker[a].pc \in {"write", "open", "read"}, NEW b \in Askers,
             b # a
      PROVE  asker[b].pc \notin {"write", "open", "read"}
  BY <1>i, <1>a DEF OneInside
<1>1. CASE Connect
  <2>1. socket' = sockets + 1 /\ UNCHANGED <<toServer, fromServer, notifies>>
    BY <1>1 DEF Connect, wires
  <2>2. socket' \in Sockets /\ socket' > sockets
    BY <1>1, <1>i, <2>1 DEF Connect, ElectrumTypeOK, Sockets
  <2>3. toServer'[socket'] = <<>> /\ fromServer'[socket'] = <<>>
    BY <1>i, <2>1, <2>2 DEF UnusedAreEmpty
  <2> QED
    BY <2>3 DEF QuietInUse, QuietOn
<1>2. CASE Disconnect
  BY <1>0, <1>2 DEF Disconnect
<1>3. ASSUME NEW a \in Askers, BeginAsking(a) PROVE QuietInUse'
  BY <1>3, <1>i, QuietStutter DEF BeginAsking, AskerAt
<1>4. ASSUME NEW a \in Askers, TakeLock(a) PROVE QuietInUse'
  BY <1>4, <1>i, QuietStutter DEF TakeLock, AskerAt
<1>5. ASSUME NEW a \in Askers, WriteRequest(a) PROVE QuietInUse'
  <2>1. asker[a].pc = "write" /\ UNCHANGED <<socket, fromServer, notifies>>
    BY <1>5 DEF WriteRequest, AskerAt
  <2>2. CASE socket # 0 /\ ~ notifies[socket]
    <3>1. /\ toServer' = [toServer EXCEPT ![socket] = Append(@, questions + 1)]
          /\ asker' = [asker EXCEPT ![a].pc = "open", ![a].id = questions + 1]
      BY <1>5, <2>2 DEF WriteRequest
    <3>2. \A b \in Askers : asker[b].pc \notin {"open", "read"}
      BY <1>a, <2>1
    <3>3. toServer[socket] = <<>> /\ fromServer[socket] = <<>>
      BY <1>i, <2>2, <3>2, NobodyWaits
    <3>4. PICK n \in Nat : n = questions + 1
      BY <1>i DEF ElectrumTypeOK
    <3>5. toServer'[socket] = <<n>> /\ fromServer'[socket] = <<>>
      BY <1>i, <2>1, <2>2, <3>1, <3>3, <3>4 DEF ElectrumTypeOK
    <3>6. asker'[a].pc = "open" /\ asker'[a].id = n
      BY <1>i, <3>1, <3>4 DEF Places
    <3>7. Awaited(n)'
      BY <3>6 DEF Awaited
    <3>8. /\ Len(toServer'[socket]) = 1 /\ Head(toServer'[socket]) = n
          /\ Len(fromServer'[socket]) = 0
      BY <3>5
    <3>9. /\ (Head(toServer[socket]))' = n
          /\ (Len(toServer[socket]) + Len(fromServer[socket]))' <= 1
          /\ (fromServer[socket])' = <<>>
      BY <2>1, <3>5, <3>8
    <3> QED
      BY <3>7, <3>9 DEF QuietInUse, QuietOn
  <2> QED
    BY <2>1, <2>2 DEF QuietInUse
<1>6. ASSUME NEW a \in Askers, OpenLine(a) PROVE QuietInUse'
  <2>1. asker[a].pc = "open" /\ UNCHANGED <<socket, toServer, fromServer, notifies>>
    BY <1>6 DEF OpenLine, AskerAt, wires
  <2>2. CASE socket # 0 /\ ~ notifies[socket]
    <3>1. asker' = [asker EXCEPT ![a].pc = "read", ![a].file = socket]
      BY <1>6, <2>2 DEF OpenLine
    <3>2. /\ \A b \in Askers \ {a} : asker'[b] = asker[b]
          /\ asker'[a].pc = "read" /\ asker'[a].file = socket /\ asker'[a].id = asker[a].id
      BY <1>i, <3>1 DEF Places
    <3>3. \A line : Awaited(line) => Awaited(line)'
      BY <2>1, <3>2 DEF Awaited
    <3> QED
      BY <1>i, <2>1, <2>2, <3>3 DEF QuietInUse, QuietOn
  <2> QED
    BY <2>1, <2>2 DEF QuietInUse
<1>7. ASSUME NEW a \in Askers, ReadAnswer(a) PROVE QuietInUse'
  <2>1. /\ asker[a].pc = "read" /\ socket = asker[a].file /\ fromServer[socket] # <<>>
        /\ fromServer' = [fromServer EXCEPT ![socket] = Tail(@)]
        /\ UNCHANGED <<socket, toServer, notifies>>
    BY <1>7 DEF ReadAnswer, AskerAt
  <2>2. CASE socket # 0 /\ ~ notifies[socket]
    <3> DEFINE f == fromServer[socket]
               t == toServer[socket]
    <3>0. socket \in Sockets /\ QuietOn(socket)
      BY <1>i, <2>2 DEF QuietInUse
    <3>1. f \in Seq(Nat) /\ t \in Seq(Nat) /\ f # <<>> /\ Len(t) + Len(f) <= 1
      BY <1>i, <2>1, <3>0 DEF QuietOn
    <3>2. fromServer'[socket] = Tail(f) /\ toServer'[socket] = t
      BY <1>i, <2>1, <2>2 DEF ElectrumTypeOK
    <3> HIDE DEF f, t
    <3>3. Len(f) = 1 /\ Len(t) = 0
      <4>1. Len(f) \in Nat /\ Len(t) \in Nat /\ Len(f) # 0
        BY <3>1, ShortLines
      <4>2. PICK m \in Nat, n \in Nat : m = Len(f) /\ n = Len(t)
        BY <4>1
      <4>3. n + m <= 1 /\ m # 0
        BY <3>1, <4>1, <4>2
      <4> QED
        BY <4>2, <4>3
    <3>4. t = <<>> /\ Tail(f) = <<>>
      <4>1. Tail(f) \in Seq(Nat) /\ Len(Tail(f)) = 0
        BY <3>1, <3>3, ShortLines
      <4> QED
        BY <3>1, <3>3, <4>1, ShortLines
    <3>5. (toServer[socket])' = <<>> /\ (fromServer[socket])' = <<>>
      BY <2>1, <3>2, <3>4
    <3>6. Len((toServer[socket])') = 0 /\ Len((fromServer[socket])') = 0
      BY <3>5
    <3> QED
      BY <3>5, <3>6 DEF QuietInUse, QuietOn
  <2> QED
    BY <2>1, <2>2 DEF QuietInUse
<1>8. ASSUME NEW a \in Askers, Fail(a) PROVE QuietInUse'
  <2>1. asker[a].pc = "read" /\ UNCHANGED <<toServer, fromServer, notifies>>
    BY <1>8 DEF Fail, AskerAt, wires
  <2>2. CASE socket # asker[a].file /\ socket' = socket /\ socket # 0 /\ ~ notifies[socket]
    <3>1. \A b \in Askers : asker[b].pc \in {"open", "read"} =>
                asker[b].pc = "read" /\ asker[b].file # socket
      BY <1>a, <2>1, <2>2
    <3>2. toServer[socket] = <<>> /\ fromServer[socket] = <<>>
      BY <1>i, <2>2, <3>1, NobodyWaits
    <3> QED
      BY <2>1, <2>2, <3>2 DEF QuietInUse, QuietOn
  <2> QED
    BY <1>0, <1>8, <2>1, <2>2 DEF Fail, QuietInUse
<1>9. ASSUME NEW k \in Sockets, ServerNotifies(k) PROVE QuietInUse'
  <2>1. /\ notifies[k]
        /\ fromServer' = [fromServer EXCEPT ![k] = Append(@, Notification)]
        /\ UNCHANGED <<socket, toServer, notifies, asker>>
    BY <1>9 DEF ServerNotifies
  <2>2. \A j \in Sockets : ~ notifies[j] => fromServer'[j] = fromServer[j]
    BY <1>i, <2>1 DEF ElectrumTypeOK
  <2> QED
    BY <1>i, <2>1, <2>2 DEF QuietInUse, QuietOn, Awaited
<1>10. ASSUME NEW k \in Sockets, NEW subscribing \in BOOLEAN, ServerAnswers(k, subscribing)
       PROVE  QuietInUse'
  <2>1. /\ toServer[k] # <<>>
        /\ fromServer' = [fromServer EXCEPT ![k] = Append(@, Head(toServer[k]))]
        /\ toServer' = [toServer EXCEPT ![k] = Tail(@)]
        /\ notifies' = [notifies EXCEPT ![k] = @ \/ subscribing]
        /\ UNCHANGED <<socket, asker>>
    BY <1>10 DEF ServerAnswers
  <2>2. CASE k # socket
    BY <1>i, <2>1, <2>2 DEF QuietInUse, QuietOn, Awaited, ElectrumTypeOK
  <2>3. CASE k = socket /\ ~ notifies'[socket]
    <3> DEFINE f == fromServer[socket]
               t == toServer[socket]
    <3>1. f \in Seq(Nat) /\ t \in Seq(Nat) /\ t # <<>>
      BY <1>i, <2>1, <2>3
    <3>2. socket # 0 /\ ~ notifies[socket]
      <4>1. k # 0
        BY DEF Sockets
      <4>2. notifies'[k] = (notifies[k] \/ subscribing)
        BY <1>i, <2>1, Zenon DEF ElectrumTypeOK
      <4> QED
        BY <2>3, <4>1, <4>2, Zenon
    <3>3. Len(t) + Len(f) <= 1 /\ Awaited(Head(t))
      BY <1>i, <3>1, <3>2 DEF QuietInUse, QuietOn
    <3>4. fromServer'[socket] = Append(f, Head(t)) /\ toServer'[socket] = Tail(t)
      BY <1>i, <2>1, <2>3 DEF ElectrumTypeOK
    <3> HIDE DEF f, t
    <3>5. Len(t) = 1 /\ Len(f) = 0
      <4>1. Len(f) \in Nat /\ Len(t) \in Nat /\ Len(t) # 0
        BY <3>1, ShortLines
      <4>2. PICK m \in Nat, n \in Nat : m = Len(f) /\ n = Len(t)
        BY <4>1
      <4>3. n + m <= 1 /\ n # 0
        BY <3>3, <4>1, <4>2
      <4> QED
        BY <4>2, <4>3
    <3>6. PICK n \in Nat : n = Head(t) /\ Awaited(n)
      BY <3>1, <3>3, ShortLines
    <3>7. Awaited(n)'
      BY <2>1, <3>6 DEF Awaited
    <3>8. /\ fromServer'[socket'] = <<n>> /\ toServer'[socket'] = <<>>
      <4>1. f = <<>> /\ Tail(t) \in Seq(Nat) /\ Len(Tail(t)) = 0
        BY <3>1, <3>5, ShortLines
      <4>2. Tail(t) = <<>>
        BY <4>1, ShortLines
      <4>3. Append(f, n) = <<n>>
        BY <4>1
      <4> QED
        BY <2>1, <3>4, <3>6, <4>2, <4>3
    <3>9. Head(fromServer'[socket']) = n /\ Len(fromServer'[socket']) = 1
          /\ Len(toServer'[socket']) = 0
      BY <3>8
    <3> QED
      BY <3>7, <3>8, <3>9 DEF QuietInUse, QuietOn
  <2> QED
    BY <2>1, <2>2, <2>3 DEF QuietInUse
<1> QED
  BY <1>1, <1>2, <1>3, <1>4, <1>5, <1>6, <1>7, <1>8, <1>9, <1>10 DEF ElectrumNext

LEMMA AnswersStep ==
    ASSUME ElectrumIInv, ElectrumNext
    PROVE  AnswersAreOwn'
<1>1. CASE UNCHANGED answers
  BY <1>1 DEF ElectrumIInv, AnswersAreOwn
<1>2. ASSUME NEW a \in Askers, ReadAnswer(a) PROVE AnswersAreOwn'
  <2>1. asker[a].pc = "read" /\ socket = asker[a].file /\ fromServer[socket] # <<>>
    BY <1>2 DEF ReadAnswer, AskerAt
  <2> DEFINE x == [asked |-> asker[a].id, answered |-> Head(fromServer[socket]),
                   notifies |-> notifies[socket]]
  <2>2. answers' = answers \cup {x}
    BY <1>2, <2>1 DEF ReadAnswer
  <2>3. x.asked = asker[a].id /\ x.answered = Head(fromServer[socket])
        /\ x.notifies = notifies[socket]
    OBVIOUS
  <2> HIDE DEF x
  <2>4. socket # 0
    BY <2>1 DEF ElectrumIInv, ElectrumTypeOK, Sockets
  <2>5. CASE notifies[socket]
    BY <2>2, <2>3, <2>5, Zenon DEF ElectrumIInv, AnswersAreOwn
  <2>6. CASE ~ notifies[socket]
    <3>1. Awaited(Head(fromServer[socket]))
      BY <2>1, <2>4, <2>6 DEF ElectrumIInv, QuietInUse, QuietOn
    <3>2. PICK b \in Askers : /\ asker[b].pc \in {"open", "read"}
                             /\ asker[b].id = Head(fromServer[socket])
      BY <3>1 DEF Awaited
    <3>3. b = a
      BY <2>1, <3>2 DEF ElectrumIInv, OneInside
    <3>4. x.answered = x.asked
      BY <2>3, <3>2, <3>3
    <3> QED
      BY <2>2, <3>4, Zenon DEF ElectrumIInv, AnswersAreOwn
  <2> QED
    BY <2>5, <2>6
<1> QED
  BY <1>1, <1>2
     DEF ElectrumNext, Connect, Disconnect, BeginAsking, TakeLock, WriteRequest, OpenLine, Fail,
         ServerNotifies, ServerAnswers

LEMMA ElectrumInvariance == ElectrumSpec => []ElectrumIInv
<1>1. ElectrumIInv /\ ElectrumNext => ElectrumIInv'
  BY ElectrumTypeStep, QuietStep, AnswersStep DEF ElectrumIInv
<1>2. ElectrumIInv /\ UNCHANGED electrumVars => ElectrumIInv'
  BY DEF electrumVars, wires, ElectrumIInv, ElectrumTypeOK, UnusedAreEmpty, OneInside, QuietInUse,
         QuietOn, Awaited, AnswersAreOwn
<1> QED
  BY <1>1, <1>2, ElectrumInitially, PTL DEF ElectrumSpec

\* However many threads share the client, and wherever a connection breaks off or
\* is given up, a call returns the answer to its own request until the server has
\* a subscription, although nobody compares ids (btpay/bitcoin/electrum.py, _call).
THEOREM OwnAnswers == ElectrumSpec => []AnswersAreOwn
BY ElectrumInvariance, PTL DEF ElectrumIInv
=============================================================================
