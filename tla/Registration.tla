------------------------------ MODULE Registration ------------------------------
(***************************************************************************)
(* How people come to belong to the organization: registration              *)
(* (btpay/auth/views.py), the command that creates an administrator         *)
(* (app.py), invitations and removals (settings_views.py).  Each request    *)
(* counts and looks up first and inserts later, and no lock covers both.    *)
(*                                                                         *)
(* "Slip" introduces a mistaken form that a property is tested with.        *)
(***************************************************************************)
EXTENDS Integers, FiniteSets

CONSTANTS
    People,         \* e-mail addresses
    Desks,          \* request threads
    MaxMemberships, \* bound on the Membership rows ever inserted
    MaxStrays,      \* bound on refused inserts
    Nobody

ASSUME RegistrationAssumption ==
    MaxMemberships \in Nat /\ MaxStrays \in Nat /\ Nobody \notin People

VARIABLES
    registered,     \* the e-mail addresses with a User row
    strays,         \* rows that refused inserts left in the User table
    organized,      \* there is an organization
    members,        \* Membership rows
    issued,         \* primary keys of Membership handed out
    desk,           \* each thread's request
    crowded         \* history: two requests that register or invite overlapped

registrationVars == <<registered, strays, organized, members, issued, desk, crowded>>
people == <<registered, strays, organized, members, issued>>

FreeDesk == [pc |-> "idle", who |-> Nobody, role |-> "none"]

RegistrationInit ==
    /\ registered = {} /\ strays = 0
    /\ organized = FALSE
    /\ members = {} /\ issued = 0
    /\ desk = [d \in Desks |-> FreeDesk]
    /\ crowded = FALSE

\* User.query.count().
UserCount == Cardinality(registered) + strays

OpenDesk(d, request) ==
    /\ desk[d].pc = "idle"
    /\ desk' = [desk EXCEPT ![d] = request]
    /\ crowded' = (crowded \/ \E e \in Desks : desk[e].pc # "idle")
    /\ UNCHANGED people

CloseDesk(d) == desk' = [desk EXCEPT ![d] = FreeDesk]

\* Membership(...).save().
Enrol(who, role, first) ==
    /\ issued < MaxMemberships
    /\ issued' = issued + 1
    /\ members' = members \cup
          {[id |-> issued, user |-> who, role |-> role, first |-> first]}

IsMember(who) == \E m \in members : m.user = who
HasRole(roles) == \E m \in members : m.role \in roles

-------------------------------------------------------------------------------
(* register. *)

\* The e-mail address is free; the first user comes without an invitation, the
\* others with a link of an administrator, that names the role.
BeginRegister(d, who) ==
    /\ who \notin registered
    /\ \/ /\ UserCount = 0
          /\ OpenDesk(d, [pc |-> "save", who |-> who, role |-> "none"])
       \/ /\ organized
          /\ \E role \in {"viewer", "admin"} :
                OpenDesk(d, [pc |-> "save", who |-> who, role |-> role])

\* The row is inserted; the index refuses an address that another request
\* inserted meanwhile, and its row stays in the table.
SaveUser(d) ==
    LET who == desk[d].who
    IN
    /\ desk[d].pc = "save"
    /\ \/ /\ who \notin registered
          /\ registered' = registered \cup {who}
          /\ desk' = [desk EXCEPT ![d].pc = "join"]
          /\ UNCHANGED strays
       \/ /\ who \in registered /\ strays < MaxStrays
          /\ strays' = strays + 1
          /\ CloseDesk(d)
          /\ UNCHANGED registered
    /\ UNCHANGED <<organized, members, issued, crowded>>

JoinInvited(d) ==
    /\ desk[d].pc = "join" /\ desk[d].role # "none"
    /\ Enrol(desk[d].who, desk[d].role, FALSE)
    /\ CloseDesk(d)
    /\ UNCHANGED <<registered, strays, organized, crowded>>

\* Slip: whoever came without an invitation owns the organization.
JoinUncounted(d) ==
    /\ desk[d].pc = "join" /\ desk[d].role = "none"
    /\ organized' = TRUE /\ Enrol(desk[d].who, "owner", TRUE)
    /\ CloseDesk(d)
    /\ UNCHANGED <<registered, strays, crowded>>

\* The users are counted again: the only one becomes owner of an organization
\* made for it, the others belong to none.
JoinFirst(d) ==
    /\ desk[d].pc = "join" /\ desk[d].role = "none"
    /\ \/ UserCount = 1 /\ organized' = TRUE /\ Enrol(desk[d].who, "owner", TRUE)
       \/ UserCount # 1 /\ UNCHANGED <<organized, members, issued>>
    /\ CloseDesk(d)
    /\ UNCHANGED <<registered, strays, crowded>>

\* user-create, a process of its own, while no server runs.
UserCreate(who) ==
    /\ \A d \in Desks : desk[d].pc = "idle"
    /\ who \notin registered
    /\ registered' = registered \cup {who}
    /\ organized' = TRUE
    /\ Enrol(who, "owner", FALSE)
    /\ UNCHANGED <<strays, desk, crowded>>

-------------------------------------------------------------------------------
(* The team. *)

\* invite_member: a registered user who is not a member.
BeginInvite(d, who, role) ==
    /\ HasRole({"owner", "admin"})
    /\ who \in registered /\ ~ IsMember(who)
    /\ OpenDesk(d, [pc |-> "invite", who |-> who, role |-> role])

SaveInvited(d) ==
    /\ desk[d].pc = "invite"
    /\ Enrol(desk[d].who, desk[d].role, FALSE)
    /\ CloseDesk(d)
    /\ UNCHANGED <<registered, strays, organized, crowded>>

\* Slip: owners can be removed like anyone.
RemoveAnyone(m) ==
    /\ HasRole({"owner"})
    /\ members' = members \ {m}
    /\ UNCHANGED <<registered, strays, organized, issued, desk, crowded>>

\* remove_member.
RemoveMember(m) ==
    /\ HasRole({"owner"})
    /\ m.role # "owner"
    /\ members' = members \ {m}
    /\ UNCHANGED <<registered, strays, organized, issued, desk, crowded>>

RegisterStep(d) ==
    \/ SaveUser(d) \/ JoinInvited(d) \/ JoinFirst(d) \/ SaveInvited(d)

RegistrationNext ==
    \/ \E d \in Desks, who \in People :
          \/ BeginRegister(d, who)
          \/ \E role \in {"viewer", "admin"} : BeginInvite(d, who, role)
    \/ \E d \in Desks : RegisterStep(d)
    \/ \E who \in People : UserCreate(who)
    \/ \E m \in members : RemoveMember(m)

RegistrationSpec == RegistrationInit /\ [][RegistrationNext]_registrationVars

-------------------------------------------------------------------------------
(* Properties. *)

\* However registrations overlap, at most one of them makes an organization and
\* its owner: the users are counted again after the row is saved.
OneFirstOwner == Cardinality({m \in members : m.first}) <= 1

\* Unless requests overlapped, users imply an owner who can invite the others
\* (overlapping first registrations count each other, and nobody becomes owner).
SomebodyOwns ==
    ~ crowded /\ registered # {} /\ (\A d \in Desks : desk[d].pc = "idle") =>
        \E m \in members : m.role = "owner"

\* Unless requests overlapped, nobody has two Membership rows: who is removed is
\* out.
RemovedMembersAreOut ==
    ~ crowded => \A m, n \in members : m.user = n.user => m = n
===============================================================================
