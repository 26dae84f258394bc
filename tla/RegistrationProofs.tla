-------------------------- MODULE RegistrationProofs --------------------------
(***************************************************************************)
(* Proofs about Registration for any people, threads and bounds: at most    *)
(* one registration makes the first owner, and while requests do not        *)
(* overlap somebody owns the organization and nobody is enrolled twice.     *)
(*                                                                         *)
(* Whoever joins as the first user has a row that no other joining request  *)
(* and no earlier first owner shares: counting one user then means that     *)
(* there is nobody else.                                                    *)
(***************************************************************************)
EXTENDS Registration, FiniteSetTheorems, TLAPS

DesksOK ==
    /\ desk \in [Desks -> [pc : {"idle", "save", "join", "invite"},
                           who : People \cup {Nobody},
                           role : {"none", "viewer", "admin"}]]
    /\ \A d \in Desks :
          /\ desk[d].pc \in {"join", "invite"} => desk[d].who \in registered
          /\ desk[d].pc = "save" /\ desk[d].role # "none" => organized

PeopleOK ==
    /\ IsFiniteSet(registered)
    /\ strays \in Nat
    /\ crowded \in BOOLEAN
    /\ \A m \in members : m.user \in registered
    /\ organized \in BOOLEAN
    /\ organized => \E m \in members : m.role = "owner"

Joining(d) == desk[d].pc = "join" /\ desk[d].role = "none"

JoiningDiffer ==
    \A d, e \in Desks : d # e /\ Joining(d) /\ Joining(e) => desk[d].who # desk[e].who

FirstsHaveJoined ==
    \A m \in members, d \in Desks : m.first /\ Joining(d) => desk[d].who # m.user

FirstsAreOne == \A m, n \in members : m.first /\ n.first => m = n

\* Without overlaps.
OneAtATime ==
    \A d, e \in Desks : desk[d].pc # "idle" /\ desk[e].pc # "idle" => d = e

RequestsHold ==
    \A d \in Desks :
        /\ desk[d].pc # "idle" => ~ IsMember(desk[d].who)
        /\ desk[d].pc = "save" => desk[d].who \notin registered
        /\ desk[d].pc = "save" /\ desk[d].role = "none" => registered = {}
        /\ Joining(d) => registered = {desk[d].who}

OwnedOrJoining ==
    \/ registered = {}
    \/ \E m \in members : m.role = "owner"
    \/ \E d \in Desks : Joining(d)

EnrolledOnce == \A m, n \in members : m.user = n.user => m = n

Uncrowded ==
    ~ crowded => /\ OneAtATime /\ RequestsHold /\ OwnedOrJoining
                 /\ EnrolledOnce /\ strays = 0

RegistrationIInv ==
    /\ DesksOK /\ PeopleOK
    /\ JoiningDiffer /\ FirstsHaveJoined /\ FirstsAreOne
    /\ Uncrowded

LEMMA RegistrationInitially == RegistrationInit => RegistrationIInv
<1> SUFFICES ASSUME RegistrationInit PROVE RegistrationIInv
  OBVIOUS
<1>1. /\ registered = {} /\ strays = 0 /\ members = {} /\ crowded = FALSE /\ organized = FALSE
      /\ desk = [d \in Desks |-> FreeDesk]
  BY DEF RegistrationInit
<1>2. \A d \in Desks : desk[d].pc = "idle"
  BY <1>1 DEF FreeDesk
<1>3. DesksOK /\ PeopleOK
  BY <1>1, <1>2, FS_EmptySet DEF DesksOK, PeopleOK, FreeDesk
<1>4. JoiningDiffer /\ FirstsHaveJoined /\ FirstsAreOne
  BY <1>1, <1>2 DEF JoiningDiffer, FirstsHaveJoined, FirstsAreOne, Joining
<1>5. Uncrowded
  BY <1>1, <1>2
     DEF Uncrowded, OneAtATime, RequestsHold, OwnedOrJoining, EnrolledOnce, Joining
<1> QED
  BY <1>3, <1>4, <1>5 DEF RegistrationIInv

\* How users are counted.
LEMMA Counting ==
    ASSUME PeopleOK
    PROVE  /\ UserCount = 0 => registered = {} /\ strays = 0
           /\ UserCount = 1 /\ registered # {} =>
                 strays = 0 /\ \E who : registered = {who}
           /\ \A who : registered = {who} /\ strays = 0 => UserCount = 1
<1>1. Cardinality(registered) \in Nat
  BY FS_CardinalityType DEF PeopleOK
<1>2. Cardinality(registered) = 0 <=> registered = {}
  BY FS_EmptySet DEF PeopleOK
<1>3. Cardinality(registered) = 1 <=> \E who : registered = {who}
  BY FS_Singleton DEF PeopleOK
<1>4. strays \in Nat /\ UserCount = Cardinality(registered) + strays
  BY DEF PeopleOK, UserCount
<1>5. UserCount = 0 => registered = {} /\ strays = 0
  BY <1>1, <1>2, <1>4
<1>6. UserCount = 1 /\ registered # {} => strays = 0 /\ \E who : registered = {who}
  <2>1. ASSUME UserCount = 1, registered # {} PROVE Cardinality(registered) = 1 /\ strays = 0
    <3>1. Cardinality(registered) # 0
      BY <1>2, <2>1
    <3> QED
      BY <1>1, <1>4, <2>1, <3>1
  <2> QED
    BY <1>3, <2>1
<1>7. ASSUME NEW who, registered = {who}, strays = 0 PROVE UserCount = 1
  <2>1. Cardinality(registered) = 1
    BY <1>3, <1>7
  <2> QED
    BY <1>4, <1>7, <2>1
<1> QED
  BY <1>5, <1>6, <1>7

\* A request is opened, of a person who is no member yet.
LEMMA Opened ==
    ASSUME RegistrationIInv, NEW d \in Desks, NEW who \in People,
           NEW pc \in {"save", "invite"}, NEW role \in {"none", "viewer", "admin"},
           OpenDesk(d, [pc |-> pc, who |-> who, role |-> role]),
           pc = "invite" => who \in registered /\ ~ IsMember(who),
           pc = "save" => who \notin registered,
           pc = "save" /\ role = "none" => registered = {},
           pc = "save" /\ role # "none" => organized
    PROVE  RegistrationIInv'
<1>1. /\ desk[d].pc = "idle"
      /\ desk' = [desk EXCEPT ![d] = [pc |-> pc, who |-> who, role |-> role]]
      /\ crowded' = (crowded \/ \E e \in Desks : desk[e].pc # "idle")
      /\ UNCHANGED <<registered, strays, organized, members>>
  BY DEF OpenDesk, people
<1>2. DesksOK' /\ PeopleOK'
  BY <1>1 DEF RegistrationIInv, DesksOK, PeopleOK
<1>3. \A e \in Desks : Joining(e)' <=> Joining(e) /\ e # d
  BY <1>1 DEF RegistrationIInv, DesksOK, Joining
<1>4. \A e \in Desks \ {d} : desk'[e] = desk[e]
  BY <1>1 DEF RegistrationIInv, DesksOK
<1>5. JoiningDiffer' /\ FirstsHaveJoined' /\ FirstsAreOne'
  BY <1>1, <1>3, <1>4 DEF RegistrationIInv, JoiningDiffer, FirstsHaveJoined, FirstsAreOne
<1>6. Uncrowded'
  <2> SUFFICES ASSUME ~ crowded' PROVE Uncrowded'
    BY DEF Uncrowded
  <2>1. ~ crowded /\ \A e \in Desks : desk[e].pc = "idle"
    BY <1>1
  <2>2. /\ OneAtATime /\ RequestsHold /\ OwnedOrJoining
        /\ EnrolledOnce /\ strays = 0
    BY <2>1 DEF RegistrationIInv, Uncrowded
  <2>3. OneAtATime'
    BY <2>1, <1>4 DEF OneAtATime
  <2>4. desk'[d] = [pc |-> pc, who |-> who, role |-> role]
    BY <1>1 DEF RegistrationIInv, DesksOK
  <2>5. ~ IsMember(who)
    BY DEF IsMember, RegistrationIInv, PeopleOK
  <2>6. RequestsHold'
    <3>1. \A e \in Desks \ {d} : desk'[e].pc = "idle"
      BY <1>4, <2>1
    <3>2. IsMember(who)' <=> IsMember(who)
      BY <1>1 DEF IsMember
    <3>3. /\ desk'[d].pc = pc /\ desk'[d].who = who /\ desk'[d].role = role
          /\ registered' = registered
      BY <1>1, <2>4
    <3>4. ~ IsMember(desk[d].who)'
      BY <2>5, <3>2, <3>3 DEF IsMember
    <3>5. pc = "save" \/ pc = "invite"
      OBVIOUS
    <3> QED
      BY <3>1, <3>3, <3>4, <3>5 DEF RequestsHold, Joining
  <2>7. OwnedOrJoining'
    BY <1>1, <1>3, <2>1, <2>2 DEF OwnedOrJoining, Joining
  <2>8. EnrolledOnce' /\ strays' = 0
    BY <1>1, <2>2 DEF EnrolledOnce
  <2> QED
    BY <2>3, <2>6, <2>7, <2>8 DEF Uncrowded
<1> QED
  BY <1>2, <1>5, <1>6 DEF RegistrationIInv

\* A request ends, with a Membership row for its person or without one.
LEMMA Closed ==
    ASSUME RegistrationIInv, NEW d \in Desks, desk[d].pc \in {"join", "invite"},
           CloseDesk(d), UNCHANGED <<registered, strays, crowded>>,
           NEW role, NEW first \in BOOLEAN,
           \/ members' = members /\ organized' = organized /\ UserCount # 1
           \/ /\ Enrol(desk[d].who, role, first)
              /\ organized' = (organized \/ Joining(d))
              /\ Joining(d) => role = "owner"
              /\ first => Joining(d) /\ UserCount = 1
    PROVE  RegistrationIInv'
<1>1. /\ desk' = [desk EXCEPT ![d] = FreeDesk]
      /\ desk[d].who \in registered
  BY DEF CloseDesk, RegistrationIInv, DesksOK
<1>2. DesksOK'
  BY <1>1 DEF RegistrationIInv, DesksOK, PeopleOK, FreeDesk
<1>3. \A e \in Desks \ {d} : desk'[e] = desk[e]
  BY <1>1 DEF RegistrationIInv, DesksOK
<1>4. desk'[d].pc = "idle" /\ \A e \in Desks : Joining(e)' <=> Joining(e) /\ e # d
  BY <1>1, <1>3 DEF RegistrationIInv, DesksOK, Joining, FreeDesk
<1>5. JoiningDiffer'
  BY <1>3, <1>4 DEF RegistrationIInv, JoiningDiffer
<1> DEFINE row == [id |-> issued, user |-> desk[d].who, role |-> role, first |-> first]
<1>6. CASE members' = members /\ organized' = organized /\ UserCount # 1
  <2>1. PeopleOK' /\ FirstsHaveJoined' /\ FirstsAreOne'
    BY <1>6, <1>3, <1>4 DEF RegistrationIInv, PeopleOK, FirstsHaveJoined, FirstsAreOne
  <2>2. Uncrowded'
    <3> SUFFICES ASSUME ~ crowded PROVE Uncrowded'
      BY DEF Uncrowded
    <3>1. OneAtATime /\ RequestsHold /\ OwnedOrJoining /\ EnrolledOnce /\ strays = 0
      BY DEF RegistrationIInv, Uncrowded
    <3>2. ~ Joining(d)
      <4>1. ASSUME Joining(d) PROVE UserCount = 1
        <5>1. PeopleOK /\ registered = {desk[d].who}
          BY <3>1, <4>1 DEF RegistrationIInv, RequestsHold
        <5> QED
          BY <3>1, <5>1, Counting
      <4> QED
        BY <1>6, <4>1
    <3>3. OneAtATime' /\ RequestsHold'
      BY <1>3, <1>4, <1>6, <3>1 DEF OneAtATime, RequestsHold, IsMember
    <3>4. OwnedOrJoining' /\ EnrolledOnce'
      BY <1>4, <1>6, <3>1, <3>2 DEF OwnedOrJoining, EnrolledOnce
    <3> QED
      BY <3>1, <3>3, <3>4 DEF Uncrowded
  <2> QED
    BY <1>2, <1>5, <2>1, <2>2 DEF RegistrationIInv
<1>7. CASE /\ Enrol(desk[d].who, role, first)
           /\ organized' = (organized \/ Joining(d))
           /\ Joining(d) => role = "owner"
           /\ first => Joining(d) /\ UserCount = 1
  <2>1. members' = members \cup {row}
    BY <1>7 DEF Enrol
  <2>2. PeopleOK'
    <3>1. row \in members' /\ row.role = role /\ row.user = desk[d].who
      BY <2>1
    <3> HIDE DEF row
    <3> QED
      BY <1>1, <1>7, <2>1, <3>1 DEF RegistrationIInv, PeopleOK
  <2>3. FirstsHaveJoined' /\ FirstsAreOne'
    <3>1. CASE ~ first
      BY <1>3, <1>4, <2>1, <3>1 DEF RegistrationIInv, FirstsHaveJoined, FirstsAreOne
    <3>2. CASE first
      <4>1. Joining(d) /\ registered = {desk[d].who}
        BY <1>1, <1>7, <3>2, Counting DEF RegistrationIInv
      <4>2. \A m \in members : ~ m.first
        BY <4>1 DEF RegistrationIInv, PeopleOK, FirstsHaveJoined
      <4>3. \A e \in Desks \ {d} : Joining(e) => desk[e].who # desk[d].who
        BY <4>1 DEF RegistrationIInv, JoiningDiffer
      <4> QED
        BY <1>3, <1>4, <2>1, <4>2, <4>3 DEF FirstsHaveJoined, FirstsAreOne
    <3> QED
      BY <3>1, <3>2
  <2>4. Uncrowded'
    <3> SUFFICES ASSUME ~ crowded PROVE Uncrowded'
      BY DEF Uncrowded
    <3>1. OneAtATime /\ RequestsHold /\ OwnedOrJoining /\ EnrolledOnce /\ strays = 0
      BY DEF RegistrationIInv, Uncrowded
    <3>2. \A e \in Desks : desk'[e].pc = "idle"
      BY <1>3, <1>4, <3>1 DEF OneAtATime
    <3>3. OneAtATime' /\ RequestsHold'
      BY <3>2 DEF OneAtATime, RequestsHold, Joining
    <3>4. OwnedOrJoining'
      <4>1. CASE Joining(d)
        <5>1. row \in members' /\ row.role = "owner"
          BY <1>7, <2>1, <4>1
        <5> QED
          BY <5>1 DEF OwnedOrJoining
      <4>2. CASE ~ Joining(d)
        BY <1>4, <2>1, <3>1, <4>2 DEF OwnedOrJoining
      <4> QED
        BY <4>1, <4>2
    <3>5. \A m \in members : m.user # desk[d].who
      BY <3>1 DEF RequestsHold, IsMember
    <3>6. EnrolledOnce'
      BY <2>1, <3>1, <3>5 DEF EnrolledOnce
    <3> QED
      BY <3>1, <3>3, <3>4, <3>6 DEF Uncrowded
  <2> QED
    BY <1>2, <1>5, <2>2, <2>3, <2>4 DEF RegistrationIInv
<1> QED
  BY <1>6, <1>7

\* The user's row is inserted: no other row is the person's.
LEMMA UserSaved ==
    ASSUME RegistrationIInv, NEW d \in Desks, SaveUser(d)
    PROVE  RegistrationIInv'
<1> DEFINE who == desk[d].who
<1>0. desk[d].pc = "save" /\ UNCHANGED <<organized, members, crowded>>
  BY DEF SaveUser
<1>1. CASE /\ who \notin registered
           /\ registered' = registered \cup {who}
           /\ desk' = [desk EXCEPT ![d].pc = "join"]
           /\ UNCHANGED strays
  <2>1. /\ \A e \in Desks \ {d} : desk'[e] = desk[e]
        /\ desk'[d].pc = "join" /\ desk'[d].who = who /\ desk'[d].role = desk[d].role
    BY <1>1 DEF RegistrationIInv, DesksOK
  <2>2. DesksOK'
    BY <1>0, <1>1, <2>1 DEF RegistrationIInv, DesksOK
  <2>3. PeopleOK'
    BY <1>0, <1>1, FS_AddElement DEF RegistrationIInv, PeopleOK
  <2>4. \A e \in Desks : Joining(e) => desk[e].who # who
    BY <1>1 DEF RegistrationIInv, DesksOK, Joining
  <2>5. JoiningDiffer'
    BY <2>1, <2>4 DEF RegistrationIInv, JoiningDiffer, Joining
  <2>6. FirstsHaveJoined' /\ FirstsAreOne'
    BY <1>0, <1>1, <2>1 DEF RegistrationIInv, FirstsHaveJoined, FirstsAreOne, PeopleOK, Joining
  <2>7. Uncrowded'
    <3> SUFFICES ASSUME ~ crowded PROVE Uncrowded'
      BY <1>0 DEF Uncrowded
    <3>1. OneAtATime /\ RequestsHold /\ OwnedOrJoining /\ EnrolledOnce /\ strays = 0
      BY DEF RegistrationIInv, Uncrowded
    <3>2. \A e \in Desks \ {d} : desk'[e].pc = "idle"
      BY <1>0, <2>1, <3>1 DEF OneAtATime
    <3>3. OneAtATime'
      BY <3>2 DEF OneAtATime
    <3>4. (\A m \in members : m.user # who) /\ (desk[d].role = "none" => registered = {})
      BY <1>0, <3>1 DEF RequestsHold, IsMember
    <3>5. RequestsHold'
      <4>1. ~ IsMember(desk[d].who)'
        BY <1>0, <2>1, <3>4 DEF IsMember
      <4>2. Joining(d)' => registered' = {desk'[d].who}
        BY <1>1, <2>1, <3>4 DEF Joining
      <4> QED
        BY <2>1, <3>2, <4>1, <4>2 DEF RequestsHold, Joining
    <3>6. OwnedOrJoining'
      <4>1. CASE desk[d].role = "none"
        BY <2>1, <4>1 DEF OwnedOrJoining, Joining
      <4>2. CASE desk[d].role # "none"
        <5>1. \E m \in members : m.role = "owner"
          BY <1>0, <4>2 DEF RegistrationIInv, DesksOK, PeopleOK
        <5> QED
          BY <1>0, <5>1 DEF OwnedOrJoining
      <4> QED
        BY <4>1, <4>2
    <3> QED
      BY <1>0, <1>1, <3>1, <3>3, <3>5, <3>6 DEF Uncrowded, EnrolledOnce
  <2> QED
    BY <2>2, <2>3, <2>5, <2>6, <2>7 DEF RegistrationIInv
<1>2. CASE who \in registered /\ strays' = strays + 1 /\ CloseDesk(d) /\ UNCHANGED registered
  <2>1. /\ \A e \in Desks \ {d} : desk'[e] = desk[e]
        /\ desk' = [desk EXCEPT ![d] = FreeDesk]
        /\ desk'[d].pc = "idle"
    BY <1>2 DEF CloseDesk, FreeDesk, RegistrationIInv, DesksOK
  <2>2. DesksOK'
    BY <1>0, <1>2, <2>1 DEF RegistrationIInv, DesksOK, FreeDesk
  <2>3. PeopleOK'
    BY <1>0, <1>2 DEF RegistrationIInv, PeopleOK
  <2>4. JoiningDiffer' /\ FirstsHaveJoined' /\ FirstsAreOne'
    BY <1>0, <2>1 DEF RegistrationIInv, JoiningDiffer, FirstsHaveJoined, FirstsAreOne, Joining
  <2>5. crowded'
    BY <1>0, <1>2 DEF RegistrationIInv, Uncrowded, RequestsHold, PeopleOK
  <2> QED
    BY <2>2, <2>3, <2>4, <2>5 DEF RegistrationIInv, Uncrowded
<1> QED
  BY <1>1, <1>2 DEF SaveUser

LEMMA Created ==
    ASSUME RegistrationIInv, NEW who \in People, UserCreate(who)
    PROVE  RegistrationIInv'
<1> DEFINE row == [id |-> issued, user |-> who, role |-> "owner", first |-> FALSE]
<1>1. /\ \A d \in Desks : desk[d].pc = "idle"
      /\ who \notin registered /\ registered' = registered \cup {who}
      /\ members' = members \cup {row}
      /\ organized' = TRUE
      /\ UNCHANGED <<strays, desk, crowded>>
  BY DEF UserCreate, Enrol
<1>2. DesksOK' /\ PeopleOK'
  <2>1. row \in members' /\ row.role = "owner" /\ row.user = who
    BY <1>1
  <2> HIDE DEF row
  <2> QED
    BY <1>1, <2>1, FS_AddElement DEF RegistrationIInv, DesksOK, PeopleOK
<1>3. \A d \in Desks : ~ Joining(d)'
  BY <1>1 DEF Joining
<1>4. JoiningDiffer' /\ FirstsHaveJoined' /\ FirstsAreOne'
  BY <1>1, <1>3 DEF RegistrationIInv, JoiningDiffer, FirstsHaveJoined, FirstsAreOne
<1>5. Uncrowded'
  <2>1. OneAtATime' /\ RequestsHold'
    BY <1>1, <1>3 DEF OneAtATime, RequestsHold
  <2>2. OwnedOrJoining'
    <3>1. row \in members' /\ row.role = "owner"
      BY <1>1
    <3> QED
      BY <3>1 DEF OwnedOrJoining
  <2>3. \A m \in members : m.user # who
    BY <1>1 DEF RegistrationIInv, PeopleOK
  <2>4. EnrolledOnce => EnrolledOnce'
    <3>1. row.user = who /\ members' = members \cup {row}
      BY <1>1
    <3> HIDE DEF row
    <3> QED
      BY <2>3, <3>1 DEF EnrolledOnce
  <2> QED
    BY <1>1, <2>1, <2>2, <2>4 DEF RegistrationIInv, Uncrowded
<1> QED
  BY <1>2, <1>4, <1>5 DEF RegistrationIInv

LEMMA Removed ==
    ASSUME RegistrationIInv, NEW m \in members, RemoveMember(m)
    PROVE  RegistrationIInv'
<1>1. /\ m.role # "owner" /\ members' = members \ {m}
      /\ UNCHANGED <<registered, strays, organized, desk, crowded>>
  BY DEF RemoveMember
<1>2. DesksOK' /\ PeopleOK'
  BY <1>1 DEF RegistrationIInv, DesksOK, PeopleOK
<1>3. JoiningDiffer' /\ FirstsHaveJoined' /\ FirstsAreOne'
  BY <1>1 DEF RegistrationIInv, JoiningDiffer, FirstsHaveJoined, FirstsAreOne, Joining
<1>4. OneAtATime => OneAtATime'
  BY <1>1 DEF OneAtATime
<1>5. RequestsHold => RequestsHold'
  BY <1>1 DEF RequestsHold, IsMember, Joining
<1>6. OwnedOrJoining => OwnedOrJoining'
  BY <1>1 DEF OwnedOrJoining, Joining
<1>7. EnrolledOnce => EnrolledOnce'
  BY <1>1 DEF EnrolledOnce
<1> QED
  BY <1>1, <1>2, <1>3, <1>4, <1>5, <1>6, <1>7 DEF RegistrationIInv, Uncrowded

LEMMA RegistrationStep ==
    ASSUME RegistrationIInv, RegistrationNext
    PROVE  RegistrationIInv'
<1>1. ASSUME NEW d \in Desks, NEW who \in People, BeginRegister(d, who)
      PROVE  RegistrationIInv'
  <2>1. who \notin registered
    BY <1>1 DEF BeginRegister
  <2>2. CASE UserCount = 0 /\ OpenDesk(d, [pc |-> "save", who |-> who, role |-> "none"])
    <3>1. registered = {}
      BY <2>2, Counting DEF RegistrationIInv
    <3> QED
      BY <2>1, <2>2, <3>1, Opened
  <2>3. ASSUME NEW role \in {"viewer", "admin"}, organized,
               OpenDesk(d, [pc |-> "save", who |-> who, role |-> role])
        PROVE  RegistrationIInv'
    BY <2>1, <2>3, Opened
  <2> QED
    BY <1>1, <2>2, <2>3 DEF BeginRegister
<1>2. ASSUME NEW d \in Desks, NEW who \in People, NEW role \in {"viewer", "admin"},
             BeginInvite(d, who, role)
      PROVE  RegistrationIInv'
  <2>1. /\ who \in registered /\ ~ IsMember(who)
        /\ OpenDesk(d, [pc |-> "invite", who |-> who, role |-> role])
    BY <1>2 DEF BeginInvite
  <2> QED
    BY <2>1, Opened
<1>3. ASSUME NEW d \in Desks, JoinInvited(d) \/ SaveInvited(d) PROVE RegistrationIInv'
  <2>1. /\ desk[d].pc \in {"join", "invite"} /\ ~ Joining(d)
        /\ Enrol(desk[d].who, desk[d].role, FALSE) /\ CloseDesk(d)
        /\ UNCHANGED <<registered, strays, organized, crowded>>
        /\ organized' = (organized \/ Joining(d))
    BY <1>3 DEF JoinInvited, SaveInvited, Joining, RegistrationIInv, PeopleOK
  <2> QED
    BY <2>1, Closed
<1>4. ASSUME NEW d \in Desks, JoinFirst(d) PROVE RegistrationIInv'
  <2>1. /\ desk[d].pc = "join" /\ Joining(d) /\ CloseDesk(d)
        /\ UNCHANGED <<registered, strays, crowded>>
    BY <1>4 DEF JoinFirst, Joining
  <2>2. CASE UserCount = 1 /\ organized' = TRUE /\ Enrol(desk[d].who, "owner", TRUE)
    BY <2>1, <2>2, Closed
  <2>3. CASE UserCount # 1 /\ members' = members /\ organized' = organized
    BY <2>1, <2>3, Closed
  <2> QED
    BY <1>4, <2>2, <2>3 DEF JoinFirst
<1> QED
  BY <1>1, <1>2, <1>3, <1>4, UserSaved, Created, Removed DEF RegistrationNext, RegisterStep

LEMMA RegistrationInvariance == RegistrationSpec => []RegistrationIInv
<1>1. RegistrationIInv /\ UNCHANGED registrationVars => RegistrationIInv'
  BY DEF registrationVars, RegistrationIInv, DesksOK, PeopleOK, JoiningDiffer, Joining,
         FirstsHaveJoined, FirstsAreOne, Uncrowded, OneAtATime, RequestsHold, IsMember,
         OwnedOrJoining, EnrolledOnce
<1> QED
  BY <1>1, RegistrationInitially, RegistrationStep, PTL DEF RegistrationSpec

\* However registrations overlap, at most one of them makes the organization and
\* becomes its owner (btpay/auth/views.py, register).
THEOREM OneOwnerFirst == RegistrationSpec => []OneFirstOwner
<1>1. FirstsAreOne => OneFirstOwner
  <2> SUFFICES ASSUME FirstsAreOne PROVE Cardinality({m \in members : m.first}) <= 1
    BY DEF OneFirstOwner
  <2> DEFINE Firsts == {m \in members : m.first}
  <2>1. CASE Firsts = {}
    BY <2>1, FS_EmptySet
  <2>2. CASE Firsts # {}
    <3>1. PICK m \in Firsts : TRUE
      BY <2>2
    <3>2. Firsts = {m}
      BY <3>1 DEF FirstsAreOne
    <3> HIDE DEF Firsts
    <3>3. Cardinality({m}) = 1
      BY FS_Singleton
    <3>4. Cardinality(Firsts) <= 1
      BY <3>2, <3>3
    <3> QED
      BY <3>4 DEF Firsts
  <2> QED
    BY <2>1, <2>2
<1> QED
  BY <1>1, RegistrationInvariance, PTL DEF RegistrationIInv

\* While requests do not overlap, the users who are registered have an owner among
\* the members: nobody can remove the last one (remove_member).
THEOREM AnOwner == RegistrationSpec => []SomebodyOwns
<1>1. RegistrationIInv => SomebodyOwns
  BY DEF RegistrationIInv, Uncrowded, OwnedOrJoining, SomebodyOwns, Joining
<1> QED
  BY <1>1, RegistrationInvariance, PTL

\* While requests do not overlap, nobody has two rows, one of which would outlive
\* the removal of the other (invite_member, remove_member).
THEOREM RemovedAreOut == RegistrationSpec => []RemovedMembersAreOut
<1>1. RegistrationIInv => RemovedMembersAreOut
  BY DEF RegistrationIInv, Uncrowded, EnrolledOnce, RemovedMembersAreOut
<1> QED
  BY <1>1, RegistrationInvariance, PTL
=============================================================================
