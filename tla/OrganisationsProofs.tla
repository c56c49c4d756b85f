------------------------ MODULE OrganisationsProofs ------------------------
(***************************************************************************)
(* What deletions, invites and removals leave behind, for any number of    *)
(* subjects, organisations, invites and calls.                             *)
(***************************************************************************)
EXTENDS Organisations, FiniteSetTheorems, TLAPS

\* A call knows by whom it is, whom it concerns, and why it takes memberships over.
Knows(v) ==
    v # Idle =>
        /\ v.at \in {"inherit", "handler", "member", "accept"} => v.by \in Ids
        /\ v.at \in {"member", "accept"} \cup DeletePlaces => v.org \in Orgs
        /\ v.at = "accept" => v.invite \in Invites
        /\ v.at = "inherit" => Namesakes(v.by) # {}

CallsKnow == \A c \in Slots : Knows(call[c])

Sound == TypeOK /\ CallsKnow

-----------------------------------------------------------------------------
(* Types.                                                                  *)

THEOREM InitSound == Init => Sound
<1> SUFFICES ASSUME Init PROVE Sound
  OBVIOUS
<1> USE OrganisationsAssumption
<1>1. TypeOK
  BY DEF Init, TypeOK, Unwritten, Roles
<1>2. CallsKnow
  BY DEF Init, CallsKnow, Knows
<1> QED BY <1>1, <1>2 DEF Sound

CallsSound == call \in [Slots -> Call \cup {Idle}] /\ CallsKnow

LEMMA OneCall ==
    ASSUME Sound, NEW c \in Slots, NEW v \in Call \cup {Idle}, Knows(v),
           call' = [call EXCEPT ![c] = v]
    PROVE  CallsSound'
BY DEF Sound, TypeOK, CallsKnow, CallsSound

LEMMA AtCall ==
    ASSUME Sound, NEW c \in Slots, NEW place, At(c, place)
    PROVE  call[c] \in Call /\ call[c] # Idle /\ Knows(call[c]) /\ call[c].at = place
BY DEF Sound, TypeOK, CallsKnow, At

LEMMA EndSound == ASSUME Sound, NEW c \in Slots, End(c) PROVE CallsSound'
<1>1. Knows(Idle) BY DEF Knows
<1> QED BY <1>1, OneCall DEF End

LEMMA RequestSound ==
    ASSUME Sound, NEW c \in Slots, NEW u \in Ids, Request(c, u) PROVE CallsSound'
<1>1. PICK prior \in {{}} \cup {OrgsOf(v) : v \in Namesakes(u)} :
        call' = [call EXCEPT ![c] =
                  [Blank EXCEPT !.by = u, !.prior = prior,
                                !.at = IF prior = {} THEN "handler" ELSE "inherit"]]
  BY DEF Request
<1>2. prior \in SUBSET (Orgs \X Roles)
  <2>1. ASSUME NEW v \in Ids PROVE OrgsOf(v) \subseteq Orgs \X Roles
    BY DEF OrgsOf, Sound, TypeOK
  <2> QED BY <1>1, <2>1 DEF Namesakes
<1>3. prior # {} => Namesakes(u) # {}
  BY <1>1
<1> DEFINE v == [Blank EXCEPT !.by = u, !.prior = prior,
                              !.at = IF prior = {} THEN "handler" ELSE "inherit"]
<1>4. v \in Call
  BY <1>2 DEF Blank, Call, Places
<1>5. Knows(v)
  BY <1>3 DEF Blank, Knows, DeletePlaces
<1> QED BY <1>1, <1>4, <1>5, OneCall

LEMMA InheritedSound ==
    ASSUME Sound, NEW c \in Slots, At(c, "inherit"), NEW m, Inherited(c, m)
    PROVE  CallsSound'
<1> DEFINE rest == call[c].prior \ {m}
           v == [call[c] EXCEPT !.prior = rest, !.at = IF rest = {} THEN "handler" ELSE "inherit"]
<1>1. call[c] \in Call /\ Knows(call[c]) /\ call[c].at = "inherit" /\ call[c] # Idle
  BY AtCall
<1>2. call' = [call EXCEPT ![c] = v]
  BY DEF Inherited, Sound, TypeOK
<1>3. v \in Call
  BY <1>1 DEF Call, Places
<1>4. Knows(v)
  BY <1>1 DEF Knows, Call, DeletePlaces
<1> QED BY <1>2, <1>3, <1>4, OneCall

LEMMA CheckSound ==
    ASSUME Sound, NEW c \in Slots, NEW o \in Orgs, CheckMembership(c, o)
    PROVE  CallsSound'
<1> DEFINE v == [call[c] EXCEPT !.at = "member", !.org = o, !.rank = role[o][call[c].by]]
<1>1. call[c] \in Call /\ Knows(call[c]) /\ call[c].at = "handler" /\ call[c] # Idle
  BY AtCall DEF CheckMembership
<1>2. call' = [call EXCEPT ![c] = v]
  BY DEF CheckMembership, Sound, TypeOK
<1>3. call[c].by \in Ids /\ role[o][call[c].by] \in Roles \cup {None}
  BY <1>1 DEF Knows, Sound, TypeOK
<1>4. v \in Call
  BY <1>1, <1>3 DEF Call, Places
<1>5. Knows(v)
  BY <1>1, <1>3 DEF Knows, Call, DeletePlaces
<1> QED BY <1>2, <1>4, <1>5, OneCall

LEMMA ReadInviteSound ==
    ASSUME Sound, NEW c \in Slots, NEW i \in Invites, ReadInvite(c, i)
    PROVE  CallsSound'
<1> DEFINE v == [call[c] EXCEPT !.at = "accept", !.invite = i, !.org = invite[i].org]
<1>1. call[c] \in Call /\ Knows(call[c]) /\ call[c].at = "handler" /\ call[c] # Idle
  BY AtCall DEF ReadInvite
<1>2. call' = [call EXCEPT ![c] = v]
  BY DEF ReadInvite, Sound, TypeOK
<1>3. invite[i].org \in Orgs
  BY DEF ReadInvite, Usable, Sound, TypeOK
<1>4. v \in Call
  BY <1>1, <1>3 DEF Call, Places
<1>5. Knows(v)
  BY <1>1, <1>3 DEF Knows, Call, DeletePlaces
<1> QED BY <1>2, <1>4, <1>5, OneCall

LEMMA DeletionSound ==
    ASSUME Sound, NEW c \in Slots, DeleteOrg(c)
    PROVE  CallsSound'
<1>1. ASSUME NEW o \in Orgs, BeginDeleteOrg(c, o) PROVE CallsSound'
  <2> DEFINE v == [Blank EXCEPT !.at = "tenants", !.org = o]
  <2>1. v \in Call /\ Knows(v)
    BY DEF Blank, Call, Places, DeletePlaces, Knows
  <2> QED BY <1>1, <2>1, OneCall DEF BeginDeleteOrg
<1>2. ASSUME NEW from \in DeletePlaces, NEW to \in DeletePlaces, At(c, from),
             call' = [call EXCEPT ![c].at = to]
      PROVE  CallsSound'
  <2> DEFINE v == [call[c] EXCEPT !.at = to]
  <2>1. call[c] \in Call /\ Knows(call[c]) /\ call[c].at = from /\ call[c] # Idle
    BY <1>2, AtCall
  <2>2. call' = [call EXCEPT ![c] = v]
    BY <1>2 DEF Sound, TypeOK
  <2>3. v \in Call /\ Knows(v)
    BY <2>1 DEF Call, Places, Knows, DeletePlaces
  <2> QED BY <2>2, <2>3, OneCall
<1>3. CASE DropTenants(c) \/ DropInvites(c) \/ DropMembers(c)
  BY <1>2, <1>3 DEF DropTenants, DropInvites, DropMembers, DeletePlaces
<1>4. CASE DropOrg(c)
  <2>1. ASSUME NEW d \in Slots PROVE call'[d] \in Call \cup {Idle} /\ Knows(call'[d])
    <3>1. CASE call[d] # Idle /\ call[d].at \notin DeletePlaces /\ d # c
      <4>1. call[d] \in Call /\ Knows(call[d])
        BY <3>1 DEF Sound, TypeOK, CallsKnow
      <4>2. call'[d] = [call[d] EXCEPT !.met = TRUE]
        BY <1>4, <3>1 DEF DropOrg
      <4> QED BY <4>1, <4>2, <3>1 DEF Call, Knows
    <3>2. CASE ~(call[d] # Idle /\ call[d].at \notin DeletePlaces /\ d # c)
      <4>1. call'[d] \in {Idle, call[d]}
        BY <1>4, <3>2 DEF DropOrg
      <4> QED BY <4>1 DEF Sound, TypeOK, CallsKnow, Knows
    <3> QED BY <3>1, <3>2
  <2>2. call' = [d \in Slots |-> call'[d]]
    BY <1>4 DEF DropOrg
  <2> QED BY <2>1, <2>2 DEF CallsSound, CallsKnow
<1> QED BY <1>1, <1>3, <1>4 DEF DeleteOrg

LEMMA OperateSound ==
    ASSUME Sound, NEW c \in Slots, Operate(c)
    PROVE  CallsSound'
BY EndSound, RequestSound, InheritedSound, CheckSound, ReadInviteSound
   DEF Operate, Member, InheritMembership, SkipMembership, CreateOrg, AddMember, ChangeMemberRole,
       RemoveMember, CreateOrgInvite, DeleteOrgInvite, CreateTenant, AcceptInvite, Stop

LEMMA NextCallsSound == ASSUME Sound, Next PROVE CallsSound'
<1>1. ASSUME UNCHANGED call PROVE CallsSound'
  BY <1>1 DEF CallsSound, CallsKnow, Sound, TypeOK
<1> QED BY <1>1, OperateSound, DeletionSound DEF Next, Expire, DeleteUser

RowsOK ==
    /\ org \in [Orgs -> {"none", "live", "gone"}]
    /\ role \in [Orgs -> [Ids -> Roles \cup {None}]]
    /\ invite \in [Invites -> [org: Orgs \cup {None}, uses: Nat, expired: BOOLEAN]]
    /\ owning \subseteq Orgs
    /\ strayed \subseteq Orgs
    /\ removed \subseteq Orgs \X Ids

LEMMA TypeParts == TypeOK <=> RowsOK /\ call \in [Slots -> Call \cup {Idle}]
BY DEF TypeOK, RowsOK

LEMMA JoinTypes ==
    ASSUME RowsOK, NEW c \in Slots, NEW o \in Orgs, NEW u \in Ids, NEW r \in Roles, Join(c, o, u, r)
    PROVE  /\ role' \in [Orgs -> [Ids -> Roles \cup {None}]]
           /\ removed' \subseteq Orgs \X Ids
           /\ strayed' \subseteq Orgs
<1>1. role' \in [Orgs -> [Ids -> Roles \cup {None}]]
  <2>1. [role[o] EXCEPT ![u] = r] \in [Ids -> Roles \cup {None}]
    BY DEF RowsOK
  <2> QED BY <2>1 DEF RowsOK, Join
<1> QED BY <1>1 DEF RowsOK, Join, Insert

LEMMA LeaveTypes ==
    ASSUME RowsOK, NEW memberships \in SUBSET (Orgs \X Ids), Leave(memberships)
    PROVE  /\ role' \in [Orgs -> [Ids -> Roles \cup {None}]]
           /\ removed' \subseteq Orgs \X Ids
<1>1. role' \in [Orgs -> [Ids -> Roles \cup {None}]]
  BY DEF RowsOK, Leave
<1> QED BY <1>1 DEF RowsOK, Leave

\* What a call at a place knows, for the steps below.
LEMMA KnownCaller ==
    ASSUME Sound, NEW c \in Slots, At(c, "inherit") \/ At(c, "handler") \/ At(c, "member") \/ At(c, "accept")
    PROVE  call[c].by \in Ids
BY DEF Sound, CallsKnow, Knows, At

LEMMA KnownOrg ==
    ASSUME Sound, NEW c \in Slots, NEW place \in {"member", "accept"} \cup DeletePlaces, At(c, place)
    PROVE  call[c].org \in Orgs
BY DEF Sound, CallsKnow, Knows, At

LEMMA KnownInvite ==
    ASSUME Sound, NEW c \in Slots, At(c, "accept")
    PROVE  call[c].invite \in Invites
BY DEF Sound, CallsKnow, Knows, At

LEMMA PriorMembership ==
    ASSUME Sound, NEW c \in Slots, At(c, "inherit"), NEW m \in call[c].prior
    PROVE  m[1] \in Orgs /\ m[2] \in Roles
<1>1. call[c] \in Call
  BY AtCall
<1> QED BY <1>1 DEF Call

LEMMA AcceptedRoleType ==
    ASSUME NEW r \in Roles \cup {None} PROVE AcceptedRole(r) \in Roles
BY DEF AcceptedRole, Roles

LEMMA MemberRows ==
    ASSUME Sound, NEW c \in Slots, Member(c) PROVE RowsOK'
<1> USE DEF RowsOK, Sound, TypeOK
<1>1. call[c].org \in Orgs /\ call[c].by \in Ids
  BY KnownOrg, KnownCaller
     DEF Member, AddMember, ChangeMemberRole, RemoveMember, CreateOrgInvite, DeleteOrgInvite,
         CreateTenant, AsOwner
<1>2. ASSUME NEW u \in Ids, NEW r \in Roles \cup {"other"}, AddMember(c, u, r) PROVE RowsOK'
  <2>1. Normalised(r) \in Roles
    BY DEF Normalised, Roles
  <2> QED BY <1>1, <1>2, <2>1, JoinTypes DEF AddMember
<1>3. ASSUME NEW u \in Ids, NEW r \in Roles, ChangeMemberRole(c, u, r) PROVE RowsOK'
  <2>1. [role[call[c].org] EXCEPT ![u] = r] \in [Ids -> Roles \cup {None}]
    BY <1>1
  <2>2. SetRole(call[c].org, u, r) \in [Orgs -> [Ids -> Roles \cup {None}]]
    BY <1>1, <2>1 DEF SetRole
  <2> QED BY <1>3, <2>2 DEF ChangeMemberRole
<1>4. ASSUME NEW u \in Ids, RemoveMember(c, u) PROVE RowsOK'
  BY <1>1, <1>4, LeaveTypes DEF RemoveMember
<1>5. ASSUME NEW i \in Invites, CreateOrgInvite(c, i) PROVE RowsOK'
  BY <1>1, <1>5 DEF CreateOrgInvite, Insert
<1>6. ASSUME NEW i \in Invites, DeleteOrgInvite(c, i) PROVE RowsOK'
  BY <1>1, <1>6 DEF DeleteOrgInvite, Dropped
<1>7. ASSUME CreateTenant(c) PROVE RowsOK'
  BY <1>1, <1>7 DEF CreateTenant, Insert
<1> HIDE DEF RowsOK, Sound, TypeOK
<1> QED BY <1>2, <1>3, <1>4, <1>5, <1>6, <1>7 DEF Member

LEMMA OperateRows ==
    ASSUME Sound, NEW c \in Slots, Operate(c) PROVE RowsOK'
<1> USE DEF RowsOK, Sound, TypeOK
<1>1. CASE InheritMembership(c)
  <2>1. PICK m \in call[c].prior : Join(c, m[1], call[c].by, m[2])
    BY <1>1 DEF InheritMembership
  <2>2. m[1] \in Orgs /\ m[2] \in Roles /\ call[c].by \in Ids
    BY <1>1, PriorMembership, KnownCaller DEF InheritMembership
  <2> QED BY <1>1, <2>1, <2>2, JoinTypes DEF InheritMembership
<1>2. ASSUME NEW o \in Orgs, CreateOrg(c, o) PROVE RowsOK'
  <2>1. call[c].by \in Ids /\ "owner" \in Roles
    BY <1>2, KnownCaller DEF CreateOrg, Roles
  <2> QED BY <1>2, <2>1, JoinTypes DEF CreateOrg
<1>3. CASE AcceptInvite(c)
  <2> DEFINE o == call[c].org
             i == call[c].invite
             u == call[c].by
  <2>1. o \in Orgs /\ i \in Invites /\ u \in Ids
    BY <1>3, KnownOrg, KnownInvite, KnownCaller DEF AcceptInvite
  <2>2. AcceptedRole(role[o][u]) \in Roles
    BY <2>1, AcceptedRoleType
  <2>3. invite' \in [Invites -> [org: Orgs \cup {None}, uses: Nat, expired: BOOLEAN]]
    BY <1>3, <2>1 DEF AcceptInvite
  <2> HIDE DEF o, i, u
  <2>4. Join(c, o, u, AcceptedRole(role[o][u])) /\ UNCHANGED <<org, owning>>
    BY <1>3 DEF AcceptInvite, o, i, u
  <2> QED BY <2>1, <2>2, <2>3, <2>4, JoinTypes
<1>4. ASSUME UNCHANGED <<org, role, invite, owning, strayed, removed>> PROVE RowsOK'
  BY <1>4
<1> HIDE DEF RowsOK, Sound, TypeOK
<1> QED BY <1>1, <1>2, <1>3, <1>4, MemberRows
        DEF Operate, Request, SkipMembership, CheckMembership, ReadInvite, Stop

LEMMA DeletionRows ==
    ASSUME Sound, NEW c \in Slots, DeleteOrg(c) PROVE RowsOK'
<1> USE DEF RowsOK, Sound, TypeOK
<1>1. CASE DropTenants(c)
  BY <1>1 DEF DropTenants
<1>2. CASE DropInvites(c)
  BY <1>2 DEF DropInvites, Dropped
<1>3. CASE DropMembers(c)
  <2>1. {call[c].org} \X Ids \subseteq Orgs \X Ids
    BY <1>3, KnownOrg DEF DropMembers, DeletePlaces
  <2> QED BY <1>3, <2>1, LeaveTypes DEF DropMembers
<1>4. CASE DropOrg(c)
  BY <1>4 DEF DropOrg
<1>5. ASSUME NEW o \in Orgs, BeginDeleteOrg(c, o) PROVE RowsOK'
  BY <1>5 DEF BeginDeleteOrg
<1> HIDE DEF RowsOK, Sound, TypeOK
<1> QED BY <1>1, <1>2, <1>3, <1>4, <1>5 DEF DeleteOrg

LEMMA NextSound == ASSUME Sound, [Next]_vars PROVE Sound'
<1> USE DEF RowsOK, Sound, TypeOK
<1>1. CASE UNCHANGED vars
  BY <1>1 DEF vars, CallsKnow, Knows
<1>2. ASSUME NEW i \in Invites, Expire(i) PROVE RowsOK'
  BY <1>2 DEF Expire
<1>3. ASSUME NEW u \in Ids, DeleteUser(u) PROVE RowsOK'
  BY <1>3, LeaveTypes DEF DeleteUser
<1> HIDE DEF RowsOK, Sound, TypeOK
<1>4. CASE Next
  <2>1. RowsOK'
    BY <1>2, <1>3, <1>4, OperateRows, DeletionRows DEF Next
  <2>2. CallsSound'
    BY <1>4, NextCallsSound
  <2> QED BY <2>1, <2>2 DEF Sound, TypeOK, RowsOK, CallsSound
<1> QED BY <1>1, <1>4

\* The tables, the calls and the history keep their types.
THEOREM SpecTypeOK == Spec => []TypeOK
<1>1. Sound => TypeOK
  BY DEF Sound
<1> QED BY <1>1, InitSound, NextSound, PTL DEF Spec

-----------------------------------------------------------------------------
(* Memberships.                                                            *)

\* A call that names o, and one that may give it rows: on behalf of somebody, or to create it.
Concerns(v, o) == v # Idle /\ (v.org = o \/ \E r \in Roles : <<o, r>> \in v.prior)

Entitled(c, o) ==
    \/ Concerns(call[c], o) /\ call[c].at \notin DeletePlaces
    \/ org[o] = "none" /\ org'[o] = "live"

\* What a step does to memberships: one is given, with a reason; some are taken; a role is
\* set by an owner's call; or they stay.
Given(c, o, u, r) ==
    /\ Join(c, o, u, r)
    /\ Entitled(c, o)
    /\ \/ Namesakes(u) # {}
       \/ org[o] = "none"
       \/ AsOwner(c) /\ call[c].org = o /\ End(c)
       \/ r = AcceptedRole(role[o][u])

Taken == \E memberships \in SUBSET (Orgs \X Ids) : Leave(memberships)

SetByOwner ==
    \E c \in Slots, u \in Ids, r \in Roles :
        /\ AsOwner(c) /\ End(c)
        /\ role' = SetRole(call[c].org, u, r)
        /\ removed' = removed

LEMMA MembershipStep ==
    ASSUME Sound, [Next]_vars
    PROVE  \/ \E c \in Slots, o \in Orgs, u \in Ids, r \in Roles : Given(c, o, u, r)
           \/ Taken
           \/ SetByOwner
           \/ role' = role /\ removed' = removed
<1> DEFINE Goal == \/ \E c \in Slots, o \in Orgs, u \in Ids, r \in Roles : Given(c, o, u, r)
                   \/ Taken
                   \/ SetByOwner
                   \/ role' = role /\ removed' = removed
<1>1. ASSUME NEW c \in Slots, InheritMembership(c) PROVE Goal
  <2>1. PICK m \in call[c].prior : Join(c, m[1], call[c].by, m[2])
    BY <1>1 DEF InheritMembership
  <2>2. m[1] \in Orgs /\ m[2] \in Roles /\ call[c].by \in Ids
    BY <1>1, PriorMembership, KnownCaller DEF InheritMembership
  <2>3. Namesakes(call[c].by) # {}
    BY <1>1 DEF InheritMembership, Sound, CallsKnow, Knows, At
  <2>4. Entitled(c, m[1])
    <3>1. call[c] \in Call /\ call[c] # Idle /\ call[c].at = "inherit"
      BY <1>1, AtCall DEF InheritMembership
    <3>2. m = <<m[1], m[2]>>
      BY <3>1 DEF Call
    <3> QED BY <2>2, <3>1, <3>2 DEF Entitled, Concerns, DeletePlaces
  <2>5. Given(c, m[1], call[c].by, m[2])
    BY <2>1, <2>3, <2>4 DEF Given
  <2> QED BY <2>2, <2>5
<1>2. ASSUME NEW c \in Slots, NEW o \in Orgs, CreateOrg(c, o) PROVE Goal
  <2>1. call[c].by \in Ids /\ "owner" \in Roles
    BY <1>2, KnownCaller DEF CreateOrg, Roles
  <2>2. Given(c, o, call[c].by, "owner")
    BY <1>2 DEF CreateOrg, Given, Entitled, Sound, TypeOK
  <2> QED BY <2>1, <2>2
<1>3. ASSUME NEW c \in Slots, NEW u \in Ids, NEW r \in Roles \cup {"other"}, AddMember(c, u, r)
      PROVE  Goal
  <2>1. Normalised(r) \in Roles
    BY DEF Normalised, Roles
  <2>2. call[c].org \in Orgs
    BY <1>3, KnownOrg DEF AddMember, AsOwner
  <2>3. Given(c, call[c].org, u, Normalised(r))
    BY <1>3 DEF AddMember, Given, Entitled, Concerns, AsOwner, At, DeletePlaces
  <2> QED BY <2>1, <2>2, <2>3
<1>4. ASSUME NEW c \in Slots, AcceptInvite(c) PROVE Goal
  <2> DEFINE o == call[c].org
             u == call[c].by
  <2>1. o \in Orgs /\ u \in Ids
    BY <1>4, KnownOrg, KnownCaller DEF AcceptInvite
  <2>2. AcceptedRole(role[o][u]) \in Roles
    BY <2>1, AcceptedRoleType DEF Sound, TypeOK
  <2>3. Given(c, o, u, AcceptedRole(role[o][u]))
    BY <1>4 DEF AcceptInvite, Given, Entitled, Concerns, At, DeletePlaces
  <2> HIDE DEF o, u
  <2> QED BY <2>1, <2>2, <2>3
<1>5. ASSUME NEW c \in Slots, NEW u \in Ids, NEW r \in Roles, ChangeMemberRole(c, u, r) PROVE Goal
  <2>1. SetByOwner
    BY <1>5 DEF ChangeMemberRole, SetByOwner
  <2> QED BY <2>1
<1>6. ASSUME NEW c \in Slots, NEW u \in Ids, RemoveMember(c, u) PROVE Goal
  <2>1. call[c].org \in Orgs
    BY <1>6, KnownOrg DEF RemoveMember
  <2>2. {<<call[c].org, u>>} \in SUBSET (Orgs \X Ids)
    BY <2>1
  <2>3. Taken
    BY <1>6, <2>2 DEF RemoveMember, Taken
  <2> QED BY <2>3
<1>7. ASSUME NEW u \in Ids, DeleteUser(u) PROVE Goal
  <2>1. Orgs \X {u} \in SUBSET (Orgs \X Ids)
    OBVIOUS
  <2>2. Taken
    BY <1>7, <2>1 DEF DeleteUser, Taken
  <2> QED BY <2>2
<1>8. ASSUME NEW c \in Slots, DropMembers(c) PROVE Goal
  <2>1. call[c].org \in Orgs
    BY <1>8, KnownOrg DEF DropMembers, DeletePlaces
  <2>2. {call[c].org} \X Ids \in SUBSET (Orgs \X Ids)
    BY <2>1
  <2>3. Taken
    BY <1>8, <2>2 DEF DropMembers, Taken
  <2> QED BY <2>3
<1>9. ASSUME role' = role, removed' = removed PROVE Goal
  BY <1>9
<1> HIDE DEF Goal
<1>10. ASSUME NEW c \in Slots, Operate(c) PROVE Goal
  BY <1>10, <1>1, <1>2, <1>3, <1>4, <1>5, <1>6, <1>9
     DEF Operate, Member, Request, SkipMembership, CheckMembership, CreateOrgInvite,
         DeleteOrgInvite, CreateTenant, ReadInvite, Stop
<1>11. ASSUME NEW c \in Slots, DeleteOrg(c) PROVE Goal
  BY <1>11, <1>8, <1>9 DEF DeleteOrg, BeginDeleteOrg, DropTenants, DropInvites, DropOrg
<1>12. Goal
  BY <1>7, <1>9, <1>10, <1>11 DEF Next, Expire, vars
<1> QED BY <1>12 DEF Goal

LEMMA RemovedStep == ASSUME Sound, RemovedStaysOut, [Next]_vars PROVE RemovedStaysOut'
<1> USE DEF RemovedStaysOut
<1>0. /\ role \in [Orgs -> [Ids -> Roles \cup {None}]]
      /\ removed \subseteq Orgs \X Ids
  BY DEF Sound, TypeOK
<1>1. ASSUME NEW c \in Slots, NEW o \in Orgs, NEW u \in Ids, NEW r \in Roles, Given(c, o, u, r)
      PROVE  RemovedStaysOut'
  <2>1. ASSUME NEW m \in removed' PROVE role'[m[1]][m[2]] = None
    <3>1. m \in removed /\ m # <<o, u>> /\ m[1] \in Orgs /\ m[2] \in Ids /\ m = <<m[1], m[2]>>
      BY <1>0, <1>1, <2>1 DEF Given, Join
    <3>2. role'[m[1]][m[2]] = role[m[1]][m[2]]
      BY <1>0, <1>1, <3>1 DEF Given, Join
    <3> QED BY <3>1, <3>2
  <2> QED BY <2>1
<1>2. CASE Taken
  <2>1. PICK memberships \in SUBSET (Orgs \X Ids) : Leave(memberships)
    BY <1>2 DEF Taken
  <2>2. ASSUME NEW m \in removed' PROVE role'[m[1]][m[2]] = None
    <3>1. m[1] \in Orgs /\ m[2] \in Ids /\ m = <<m[1], m[2]>>
      BY <1>0, <2>1, <2>2 DEF Leave
    <3>2. role'[m[1]][m[2]] = IF m \in memberships THEN None ELSE role[m[1]][m[2]]
      BY <2>1, <3>1 DEF Leave
    <3> QED BY <2>1, <2>2, <3>2 DEF Leave
  <2> QED BY <2>2
<1>3. CASE SetByOwner
  <2>1. PICK c \in Slots, u \in Ids, r \in Roles :
          AsOwner(c) /\ role' = SetRole(call[c].org, u, r) /\ removed' = removed
    BY <1>3 DEF SetByOwner
  <2>2. call[c].org \in Orgs
    BY <2>1, KnownOrg DEF AsOwner
  <2>3. ASSUME NEW m \in removed PROVE role'[m[1]][m[2]] = None
    <3>1. m[1] \in Orgs /\ m[2] \in Ids /\ role[m[1]][m[2]] = None
      BY <1>0, <2>3
    <3>2. role'[m[1]][m[2]] = role[m[1]][m[2]]
      BY <1>0, <2>1, <2>2, <3>1 DEF SetRole
    <3> QED BY <3>1, <3>2
  <2> QED BY <2>1, <2>3
<1>4. CASE role' = role /\ removed' = removed
  BY <1>4
<1> QED BY <1>1, <1>2, <1>3, <1>4, MembershipStep

\* A membership that was taken away is not back by itself.
THEOREM SpecRemovedStaysOut == Spec => []RemovedStaysOut
<1>1. Init => RemovedStaysOut
  BY DEF Init, RemovedStaysOut
<1> QED BY <1>1, InitSound, NextSound, RemovedStep, PTL DEF Spec

-----------------------------------------------------------------------------
(* Invites.                                                                *)

Pending(i) == {c \in Slots : At(c, "accept") /\ call[c].invite = i}

\* The uses of an invite and the calls that may still add to them.
OverrunCovered ==
    \A i \in Invites :
        invite[i].uses + Cardinality(Pending(i)) < MaxUses + Cardinality(Slots)

LEMMA PendingFinite ==
    ASSUME NEW i PROVE IsFiniteSet(Pending(i)) /\ Cardinality(Pending(i)) \in Nat
<1>1. Pending(i) \subseteq Slots
  BY DEF Pending
<1> QED BY <1>1, OrganisationsAssumption, FS_Subset, FS_CardinalityType

LEMMA PendingFiniteNext ==
    ASSUME NEW i
    PROVE  /\ IsFiniteSet(Pending(i)') /\ Cardinality(Pending(i)') \in Nat
           /\ Cardinality(Pending(i)') <= Cardinality(Slots)
<1>1. Pending(i)' \subseteq Slots
  BY DEF Pending
<1> QED BY <1>1, OrganisationsAssumption, FS_Subset, FS_CardinalityType

\* Only the calls that read an invite come to be pending, and only those that were count.
InviteQuiet(i) == invite'[i].uses = invite[i].uses /\ Pending(i)' \subseteq Pending(i)

LEMMA QuietCall ==
    ASSUME Sound, NEW i \in Invites,
           \A d \in Slots : \/ call'[d] = call[d]
                            \/ call'[d] = Idle
                            \/ call'[d].at # "accept"
                            \/ call[d] # Idle /\ call[d].at = "accept"
                                 /\ call'[d].invite = call[d].invite
    PROVE  Pending(i)' \subseteq Pending(i)
BY DEF Pending, At

LEMMA QuietSlot ==
    ASSUME Sound, NEW i \in Invites, NEW c \in Slots, NEW v, call' = [call EXCEPT ![c] = v],
           v = Idle \/ v.at # "accept"
    PROVE  Pending(i)' \subseteq Pending(i)
<1>1. \A d \in Slots : call'[d] = IF d = c THEN v ELSE call[d]
  BY DEF Sound, TypeOK
<1> QED BY <1>1, QuietCall

LEMMA InviteStep ==
    ASSUME Sound, [Next]_vars, NEW i \in Invites
    PROVE  \/ InviteQuiet(i)
           \/ invite[i].uses < MaxUses /\ invite'[i].uses = invite[i].uses
           \/ \E c \in Pending(i) :
                /\ Pending(i)' \subseteq Pending(i) \ {c}
                /\ invite'[i].uses \in {invite[i].uses, invite[i].uses + 1}
<1> DEFINE Goal == \/ InviteQuiet(i)
                   \/ invite[i].uses < MaxUses /\ invite'[i].uses = invite[i].uses
                   \/ \E c \in Pending(i) :
                        /\ Pending(i)' \subseteq Pending(i) \ {c}
                        /\ invite'[i].uses \in {invite[i].uses, invite[i].uses + 1}
<1>0. call \in [Slots -> Call \cup {Idle}]
      /\ invite \in [Invites -> [org: Orgs \cup {None}, uses: Nat, expired: BOOLEAN]]
  BY DEF Sound, TypeOK
<1>1. ASSUME NEW c \in Slots, End(c), invite'[i].uses = invite[i].uses PROVE Goal
  BY <1>1, QuietSlot DEF End, InviteQuiet
<1>2. ASSUME UNCHANGED call, invite'[i].uses = invite[i].uses PROVE Goal
  BY <1>2 DEF InviteQuiet, Pending, At
<1>3. ASSUME NEW c \in Slots, NEW u \in Ids, Request(c, u) PROVE Goal
  <2>1. PICK prior \in {{}} \cup {OrgsOf(w) : w \in Namesakes(u)} :
          call' = [call EXCEPT ![c] =
                    [Blank EXCEPT !.by = u, !.prior = prior,
                                  !.at = IF prior = {} THEN "handler" ELSE "inherit"]]
    BY <1>3 DEF Request
  <2> DEFINE v == [Blank EXCEPT !.by = u, !.prior = prior,
                                !.at = IF prior = {} THEN "handler" ELSE "inherit"]
  <2>2. v.at # "accept"
    BY DEF Blank
  <2> QED BY <1>3, <2>1, <2>2, QuietSlot DEF Request, InviteQuiet
<1>4. ASSUME NEW c \in Slots, At(c, "inherit"), NEW m, Inherited(c, m), invite' = invite PROVE Goal
  <2> DEFINE rest == call[c].prior \ {m}
             v == [call[c] EXCEPT !.prior = rest, !.at = IF rest = {} THEN "handler" ELSE "inherit"]
  <2>1. call[c] \in Call /\ call' = [call EXCEPT ![c] = v]
    BY <1>0, <1>4, AtCall DEF Inherited
  <2>2. v.at # "accept"
    BY <2>1 DEF Call
  <2> QED BY <1>4, <2>1, <2>2, QuietSlot DEF InviteQuiet
<1>5. ASSUME NEW c \in Slots, NEW o \in Orgs, CheckMembership(c, o) PROVE Goal
  <2> DEFINE v == [call[c] EXCEPT !.at = "member", !.org = o, !.rank = role[o][call[c].by]]
  <2>1. call[c] \in Call /\ call' = [call EXCEPT ![c] = v] /\ invite' = invite
    BY <1>0, <1>5, AtCall DEF CheckMembership
  <2>2. v.at # "accept"
    BY <2>1 DEF Call
  <2> QED BY <2>1, <2>2, QuietSlot DEF InviteQuiet
<1>6. ASSUME NEW c \in Slots, NEW j \in Invites, ReadInvite(c, j) PROVE Goal
  <2> DEFINE v == [call[c] EXCEPT !.at = "accept", !.invite = j, !.org = invite[j].org]
  <2>1. call[c] \in Call /\ call' = [call EXCEPT ![c] = v] /\ invite' = invite
    BY <1>0, <1>6, AtCall DEF ReadInvite
  <2>2. CASE j = i
    BY <1>6, <2>1, <2>2 DEF ReadInvite, Usable
  <2>3. CASE j # i
    <3>1. v.invite = j
      BY <2>1 DEF Call
    <3>2. \A d \in Slots : call'[d] = IF d = c THEN v ELSE call[d]
      BY <1>0, <2>1
    <3> HIDE DEF v
    <3> QED BY <2>1, <2>3, <3>1, <3>2 DEF Pending, At, InviteQuiet
  <2> QED BY <2>2, <2>3
<1>7. ASSUME NEW c \in Slots, AcceptInvite(c) PROVE Goal
  <2>1. call[c].invite \in Invites
    BY <1>7, KnownInvite DEF AcceptInvite
  <2>2. \A d \in Slots : call'[d] = IF d = c THEN Idle ELSE call[d]
    BY <1>0, <1>7 DEF AcceptInvite, End
  <2>3. CASE call[c].invite = i
    <3>1. c \in Pending(i) /\ Pending(i)' \subseteq Pending(i) \ {c}
      BY <1>7, <2>2, <2>3 DEF AcceptInvite, Pending, At
    <3>2. invite'[i].uses \in {invite[i].uses, invite[i].uses + 1}
      BY <1>0, <1>7, <2>3 DEF AcceptInvite
    <3> QED BY <3>1, <3>2
  <2>4. CASE call[c].invite # i
    <3>1. invite'[i] = invite[i]
      BY <1>0, <1>7, <2>1, <2>4 DEF AcceptInvite
    <3> QED BY <1>1, <1>7, <3>1 DEF AcceptInvite
  <2> QED BY <2>3, <2>4
<1>8. ASSUME NEW c \in Slots, NEW to \in DeletePlaces, NEW v, call' = [call EXCEPT ![c] = v],
             v.at = to, invite'[i].uses = invite[i].uses
      PROVE  Goal
  BY <1>8, QuietSlot DEF DeletePlaces, InviteQuiet
<1>9. ASSUME NEW j \in Invites, Dropped(j).uses # invite[j].uses PROVE FALSE
  BY <1>0, <1>9 DEF Dropped
<1>10. ASSUME NEW c \in Slots, Member(c) PROVE Goal
  <2>1. End(c)
    BY <1>10 DEF Member, AddMember, ChangeMemberRole, RemoveMember, CreateOrgInvite,
                 DeleteOrgInvite, CreateTenant
  <2>2. invite'[i].uses = invite[i].uses
    <3>1. ASSUME NEW j \in Invites, CreateOrgInvite(c, j) PROVE invite'[i].uses = invite[i].uses
      BY <1>0, <3>1 DEF CreateOrgInvite
    <3>2. ASSUME NEW j \in Invites, DeleteOrgInvite(c, j) PROVE invite'[i].uses = invite[i].uses
      BY <1>0, <1>9, <3>2 DEF DeleteOrgInvite
    <3> QED BY <1>10, <3>1, <3>2
            DEF Member, AddMember, ChangeMemberRole, RemoveMember, CreateTenant
  <2> QED BY <1>1, <2>1, <2>2
<1>11. ASSUME NEW c \in Slots, DropTenants(c) \/ DropInvites(c) \/ DropMembers(c) PROVE Goal
  <2>1. \E to \in DeletePlaces : call' = [call EXCEPT ![c] = [call[c] EXCEPT !.at = to]]
    BY <1>0, <1>11 DEF DropTenants, DropInvites, DropMembers, DeletePlaces
  <2>2. call[c] \in Call
    BY <1>11, AtCall DEF DropTenants, DropInvites, DropMembers
  <2>3. invite'[i].uses = invite[i].uses
    <3>1. CASE DropInvites(c)
      BY <1>9, <3>1 DEF DropInvites
    <3> QED BY <1>11, <3>1 DEF DropTenants, DropMembers
  <2>4. \A to \in DeletePlaces : [call[c] EXCEPT !.at = to].at = to
    BY <2>2 DEF Call
  <2> QED BY <1>8, <2>1, <2>3, <2>4
<1>12. ASSUME NEW c \in Slots, DropOrg(c) PROVE Goal
  <2>1. ASSUME NEW d \in Slots
        PROVE  \/ call'[d] = call[d] \/ call'[d] = Idle
               \/ call[d] # Idle /\ call[d] \in Call /\ call'[d] = [call[d] EXCEPT !.met = TRUE]
    BY <1>0, <1>12 DEF DropOrg
  <2>2. \A d \in Slots : call[d] \in Call /\ call'[d] = [call[d] EXCEPT !.met = TRUE]
          => call'[d].at = call[d].at /\ call'[d].invite = call[d].invite
    BY DEF Call
  <2>3. Pending(i)' \subseteq Pending(i)
    BY <2>1, <2>2, QuietCall
  <2> QED BY <1>12, <2>3 DEF DropOrg, InviteQuiet
<1>13. ASSUME NEW c \in Slots, NEW o \in Orgs, BeginDeleteOrg(c, o) PROVE Goal
  <2>1. [Blank EXCEPT !.at = "tenants", !.org = o].at = "tenants"
    BY DEF Blank
  <2> QED BY <1>8, <1>13, <2>1 DEF BeginDeleteOrg, DeletePlaces
<1>14. ASSUME NEW j \in Invites, Expire(j) PROVE Goal
  BY <1>0, <1>2, <1>14 DEF Expire
<1> HIDE DEF Goal
<1>15. ASSUME NEW c \in Slots, Operate(c) PROVE Goal
  BY <1>1, <1>3, <1>4, <1>5, <1>6, <1>7, <1>10, <1>15
     DEF Operate, InheritMembership, SkipMembership, CreateOrg, Stop
<1>16. ASSUME NEW c \in Slots, DeleteOrg(c) PROVE Goal
  BY <1>11, <1>12, <1>13, <1>16 DEF DeleteOrg
<1>17. Goal
  BY <1>2, <1>14, <1>15, <1>16 DEF Next, DeleteUser, vars
<1> QED BY <1>17 DEF Goal

LEMMA OverrunStep == ASSUME Sound, OverrunCovered, [Next]_vars PROVE OverrunCovered'
<1> SUFFICES ASSUME NEW i \in Invites
             PROVE  invite'[i].uses + Cardinality(Pending(i)') < MaxUses + Cardinality(Slots)
  BY DEF OverrunCovered
<1> DEFINE P == Pending(i)
           Q == Pending(i)'
           limit == MaxUses + Cardinality(Slots)
<1>1. IsFiniteSet(P) /\ Cardinality(P) \in Nat
  BY PendingFinite
<1>2. IsFiniteSet(Q) /\ Cardinality(Q) \in Nat /\ Cardinality(Q) <= Cardinality(Slots)
  BY PendingFiniteNext
<1>3. Cardinality(Slots) \in Nat /\ MaxUses \in Nat
  BY OrganisationsAssumption, FS_CardinalityType
<1>4. invite[i].uses \in Nat /\ invite[i].uses + Cardinality(P) < limit
  BY DEF Sound, TypeOK, OverrunCovered
<1>5. CASE InviteQuiet(i)
  <2>1. Cardinality(Q) <= Cardinality(P)
    BY <1>1, <1>5, FS_Subset DEF InviteQuiet
  <2>2. invite'[i].uses = invite[i].uses
    BY <1>5 DEF InviteQuiet
  <2> HIDE DEF P, Q
  <2> QED BY <1>1, <1>2, <1>3, <1>4, <2>1, <2>2 DEF P, Q
<1>6. CASE invite[i].uses < MaxUses /\ invite'[i].uses = invite[i].uses
  BY <1>2, <1>3, <1>4, <1>6
<1>7. ASSUME NEW c \in P, Q \subseteq P \ {c},
             invite'[i].uses \in {invite[i].uses, invite[i].uses + 1}
      PROVE  invite'[i].uses + Cardinality(Q) < limit
  <2>1. IsFiniteSet(P \ {c}) /\ Cardinality(P \ {c}) = Cardinality(P) - 1
    BY <1>1, <1>7, FS_RemoveElement
  <2>2. Cardinality(Q) <= Cardinality(P) - 1
    BY <1>7, <2>1, FS_Subset
  <2> HIDE DEF P, Q
  <2> QED BY <1>1, <1>2, <1>3, <1>4, <1>7, <2>2
<1> QED BY <1>5, <1>6, <1>7, InviteStep

LEMMA InitOverrun == Init => OverrunCovered
<1> SUFFICES ASSUME Init, NEW i \in Invites
             PROVE  invite[i].uses + Cardinality(Pending(i)) < MaxUses + Cardinality(Slots)
  BY DEF OverrunCovered
<1>1. Pending(i) = {} /\ invite[i].uses = 0
  BY DEF Init, Pending, At, Unwritten
<1>2. Cardinality(Pending(i)) = 0
  BY <1>1, FS_EmptySet
<1>3. Cardinality(Slots) \in Nat /\ MaxUses \in Nat \ {0}
  BY OrganisationsAssumption, FS_CardinalityType
<1> QED BY <1>1, <1>2, <1>3

\* The overrun of an invite is below the number of concurrent calls.
THEOREM SpecInviteOverrunBounded == Spec => []InviteOverrunBounded
<1>1. Sound /\ OverrunCovered => InviteOverrunBounded
  <2> SUFFICES ASSUME Sound, OverrunCovered, NEW i \in Invites
               PROVE  invite[i].uses < MaxUses + Cardinality(Slots)
    BY DEF InviteOverrunBounded
  <2>1. invite[i].uses \in Nat /\ Cardinality(Pending(i)) \in Nat
    BY PendingFinite DEF Sound, TypeOK
  <2>2. Cardinality(Slots) \in Nat /\ MaxUses \in Nat
    BY OrganisationsAssumption, FS_CardinalityType
  <2> QED BY <2>1, <2>2 DEF OverrunCovered
<1> QED BY <1>1, InitSound, InitOverrun, NextSound, OverrunStep, PTL DEF Spec

-----------------------------------------------------------------------------
(* Deletions.                                                              *)

HasTenants(o) == o \in owning
HasInvites(o) == \E i \in Invites : invite[i].org = o
HasMembers(o) == \E u \in Ids : role[o][u] # None

\* What was never created has no rows, and no call names it.
UnbornIsUnknown ==
    \A o \in Orgs : org[o] = "none" =>
        /\ ~HasInvites(o) /\ ~HasMembers(o)
        /\ \A c \in Slots : ~Concerns(call[c], o)

\* A call that names an organisation which is gone has met the deletion.
CallsMetDeletion ==
    \A c \in Slots, o \in Orgs :
        /\ Concerns(call[c], o) /\ call[c].at \notin DeletePlaces
        /\ org[o] = "gone" /\ o \notin strayed
        => call[c].met

\* A deletion has cleared the tables it has been through.
DeletionClears ==
    \A c \in Slots, o \in Orgs :
        call[c] # Idle /\ call[c].org = o /\ o \notin strayed =>
            /\ call[c].at \in {"invites", "members", "org"} => ~HasTenants(o)
            /\ call[c].at \in {"members", "org"} => ~HasInvites(o)
            /\ call[c].at = "org" => ~HasMembers(o)

GoneIsEmpty ==
    \A o \in Orgs : org[o] = "gone" /\ o \notin strayed =>
        ~HasTenants(o) /\ ~HasInvites(o) /\ ~HasMembers(o)

IInv ==
    /\ Sound
    /\ UnbornIsUnknown
    /\ CallsMetDeletion
    /\ DeletionClears
    /\ GoneIsEmpty

LEMMA StrayedGrows == ASSUME [Next]_vars PROVE strayed \subseteq strayed'
<1>1. ASSUME NEW c, Member(c) PROVE strayed \subseteq strayed'
  BY <1>1 DEF Member, AddMember, ChangeMemberRole, RemoveMember, CreateOrgInvite, DeleteOrgInvite,
              CreateTenant, Join, Insert
<1>2. ASSUME NEW c, Operate(c) PROVE strayed \subseteq strayed'
  BY <1>1, <1>2 DEF Operate, Request, InheritMembership, SkipMembership, CheckMembership, CreateOrg,
                    ReadInvite, AcceptInvite, Stop, Join, Insert
<1>3. ASSUME NEW c, DeleteOrg(c) PROVE strayed \subseteq strayed'
  BY <1>3 DEF DeleteOrg, BeginDeleteOrg, DropTenants, DropInvites, DropMembers, DropOrg
<1> QED BY <1>2, <1>3 DEF Next, Expire, DeleteUser, vars

\* Where new rows come from.
Wrote(o) == \E c \in Slots : Insert(c, o) /\ Entitled(c, o)

LEMMA MembersGrow ==
    ASSUME Sound, [Next]_vars, NEW o \in Orgs, HasMembers(o)'
    PROVE  HasMembers(o) \/ Wrote(o)
<1>0. role \in [Orgs -> [Ids -> Roles \cup {None}]]
  BY DEF Sound, TypeOK
<1>1. ASSUME NEW c \in Slots, NEW p \in Orgs, NEW u \in Ids, NEW r \in Roles, Given(c, p, u, r)
      PROVE  HasMembers(o) \/ Wrote(o)
  <2>1. CASE p = o
    BY <1>1, <2>1 DEF Given, Join, Wrote
  <2>2. CASE p # o
    <3>1. role'[o] = role[o]
      BY <1>0, <1>1, <2>2 DEF Given, Join
    <3> QED BY <3>1 DEF HasMembers
  <2> QED BY <2>1, <2>2
<1>2. CASE Taken
  <2>1. PICK memberships \in SUBSET (Orgs \X Ids) : Leave(memberships)
    BY <1>2 DEF Taken
  <2> QED BY <2>1 DEF Leave, HasMembers
<1>3. CASE SetByOwner
  <2>1. PICK c \in Slots, u \in Ids, r \in Roles : AsOwner(c) /\ role' = SetRole(call[c].org, u, r)
    BY <1>3 DEF SetByOwner
  <2>2. call[c].org \in Orgs
    BY <2>1, KnownOrg DEF AsOwner
  <2>3. \A v \in Ids : role'[o][v] # None => role[o][v] # None
    BY <1>0, <2>1, <2>2 DEF SetRole
  <2> QED BY <2>3 DEF HasMembers
<1>4. CASE role' = role
  BY <1>4 DEF HasMembers
<1> QED BY <1>1, <1>2, <1>3, <1>4, MembershipStep

LEMMA OthersGrow ==
    ASSUME Sound, [Next]_vars, NEW o \in Orgs
    PROVE  /\ HasTenants(o)' => HasTenants(o) \/ Wrote(o)
           /\ HasInvites(o)' => HasInvites(o) \/ Wrote(o)
<1> DEFINE Goal == /\ HasTenants(o)' => HasTenants(o) \/ Wrote(o)
                   /\ HasInvites(o)' => HasInvites(o) \/ Wrote(o)
<1>0. invite \in [Invites -> [org: Orgs \cup {None}, uses: Nat, expired: BOOLEAN]] /\ None \notin Orgs
  BY OrganisationsAssumption DEF Sound, TypeOK
<1>1. ASSUME owning' \subseteq owning,
             \A i \in Invites : invite'[i].org \in {invite[i].org, None}
      PROVE  Goal
  BY <1>0, <1>1 DEF HasTenants, HasInvites
<1>2. ASSUME NEW c \in Slots, NEW i \in Invites, CreateOrgInvite(c, i) PROVE Goal
  <2>1. \A j \in Invites : invite'[j].org = IF j = i THEN call[c].org ELSE invite[j].org
    BY <1>0, <1>2 DEF CreateOrgInvite
  <2>2. Insert(c, call[c].org) /\ Entitled(c, call[c].org) /\ owning' = owning
    BY <1>2 DEF CreateOrgInvite, Entitled, Concerns, AsOwner, At, DeletePlaces
  <2> QED BY <2>1, <2>2 DEF HasTenants, HasInvites, Wrote
<1>3. ASSUME NEW c \in Slots, CreateTenant(c) PROVE Goal
  <2>1. Insert(c, call[c].org) /\ Entitled(c, call[c].org)
    BY <1>3 DEF CreateTenant, Entitled, Concerns, At, DeletePlaces
  <2> QED BY <1>3, <2>1 DEF CreateTenant, HasTenants, HasInvites, Wrote
<1>4. \A i \in Invites : Dropped(i).org = None
  BY <1>0 DEF Dropped
<1>5. ASSUME NEW c \in Slots, NEW i \in Invites, DeleteOrgInvite(c, i) PROVE Goal
  <2>1. \A j \in Invites : invite'[j].org \in {invite[j].org, None}
    BY <1>0, <1>4, <1>5 DEF DeleteOrgInvite
  <2> QED BY <1>1, <1>5, <2>1 DEF DeleteOrgInvite
<1>6. ASSUME NEW c \in Slots, AcceptInvite(c) PROVE Goal
  <2>1. \A j \in Invites : invite'[j].org = invite[j].org
    BY <1>0, <1>6 DEF AcceptInvite
  <2> QED BY <1>1, <1>6, <2>1 DEF AcceptInvite
<1>7. ASSUME NEW c \in Slots, DropTenants(c) PROVE Goal
  BY <1>1, <1>7 DEF DropTenants
<1>8. ASSUME NEW c \in Slots, DropInvites(c) PROVE Goal
  <2>1. \A j \in Invites : invite'[j].org \in {invite[j].org, None}
    BY <1>4, <1>8 DEF DropInvites
  <2> QED BY <1>1, <1>8, <2>1 DEF DropInvites
<1>9. ASSUME NEW i \in Invites, Expire(i) PROVE Goal
  <2>1. \A j \in Invites : invite'[j].org = invite[j].org
    BY <1>0, <1>9 DEF Expire
  <2> QED BY <1>1, <1>9, <2>1 DEF Expire
<1>10. ASSUME owning' = owning, invite' = invite PROVE Goal
  BY <1>10 DEF HasTenants, HasInvites
<1> HIDE DEF Goal
<1>11. ASSUME NEW c \in Slots, Member(c) PROVE Goal
  BY <1>2, <1>3, <1>5, <1>10, <1>11 DEF Member, AddMember, ChangeMemberRole, RemoveMember
<1>12. ASSUME NEW c \in Slots, Operate(c) PROVE Goal
  BY <1>6, <1>10, <1>11, <1>12
     DEF Operate, Request, InheritMembership, SkipMembership, CheckMembership, CreateOrg, ReadInvite, Stop
<1>13. ASSUME NEW c \in Slots, DeleteOrg(c) PROVE Goal
  BY <1>7, <1>8, <1>10, <1>13 DEF DeleteOrg, BeginDeleteOrg, DropMembers, DropOrg
<1>14. Goal
  BY <1>9, <1>10, <1>12, <1>13 DEF Next, DeleteUser, vars
<1> QED BY <1>14 DEF Goal

\* How a call comes to name an organisation: it did before, a row told it, or it deletes it.
Source(o) == org[o] = "live" \/ HasMembers(o) \/ HasInvites(o)

Moves(w, v, o) ==
    Concerns(v, o) =>
        \/ /\ Concerns(w, o)
           /\ w.met => v.met
           /\ w.at \in DeletePlaces <=> v.at \in DeletePlaces
        \/ Source(o)
        \/ v.at \in DeletePlaces /\ org[o] # "none"

LEMMA MovesOne ==
    ASSUME Sound, NEW c \in Slots, NEW v, NEW o, call' = [call EXCEPT ![c] = v], Moves(call[c], v, o),
           NEW d \in Slots
    PROVE  Moves(call[d], call'[d], o)
<1>1. call'[d] = IF d = c THEN v ELSE call[d]
  BY DEF Sound, TypeOK
<1>2. Moves(call[d], call[d], o)
  BY DEF Moves
<1> QED BY <1>1, <1>2

LEMMA CallStep ==
    ASSUME Sound, [Next]_vars, NEW d \in Slots, NEW o \in Orgs
    PROVE  Moves(call[d], call'[d], o)
<1> DEFINE Goal == Moves(call[d], call'[d], o)
<1>0. call \in [Slots -> Call \cup {Idle}] /\ None \notin Orgs
  BY OrganisationsAssumption DEF Sound, TypeOK
<1>1. ASSUME NEW c \in Slots, End(c) PROVE Goal
  <2>1. Moves(call[c], Idle, o)
    BY DEF Moves, Concerns
  <2> QED BY <1>1, <2>1, MovesOne DEF End
<1>2. ASSUME call' = call PROVE Goal
  BY <1>2 DEF Moves
<1>3. ASSUME NEW c \in Slots, NEW u \in Ids, Request(c, u) PROVE Goal
  <2>1. PICK prior \in {{}} \cup {OrgsOf(w) : w \in Namesakes(u)} :
          call' = [call EXCEPT ![c] =
                    [Blank EXCEPT !.by = u, !.prior = prior,
                                  !.at = IF prior = {} THEN "handler" ELSE "inherit"]]
    BY <1>3 DEF Request
  <2> DEFINE v == [Blank EXCEPT !.by = u, !.prior = prior,
                                !.at = IF prior = {} THEN "handler" ELSE "inherit"]
  <2>2. v.org = None /\ v.prior = prior
    BY DEF Blank
  <2>3. \A r : <<o, r>> \in prior => org[o] = "live"
    BY <2>1 DEF OrgsOf
  <2>4. Moves(call[c], v, o)
    BY <1>0, <2>2, <2>3 DEF Moves, Concerns, Source
  <2> QED BY <2>1, <2>4, MovesOne
<1>4. ASSUME NEW c \in Slots, At(c, "inherit"), NEW m, Inherited(c, m) PROVE Goal
  <2> DEFINE rest == call[c].prior \ {m}
             v == [call[c] EXCEPT !.prior = rest, !.at = IF rest = {} THEN "handler" ELSE "inherit"]
  <2>1. call[c] \in Call /\ call[c] # Idle /\ call[c].at = "inherit" /\ call' = [call EXCEPT ![c] = v]
    BY <1>0, <1>4, AtCall DEF Inherited
  <2>2. v.org = call[c].org /\ v.prior \subseteq call[c].prior /\ v.met = call[c].met
        /\ v.at \in {"handler", "inherit"}
    BY <2>1 DEF Call
  <2>3. Moves(call[c], v, o)
    BY <2>1, <2>2 DEF Moves, Concerns, DeletePlaces
  <2> QED BY <2>1, <2>3, MovesOne
<1>5. ASSUME NEW c \in Slots, NEW p \in Orgs, CheckMembership(c, p) PROVE Goal
  <2> DEFINE v == [call[c] EXCEPT !.at = "member", !.org = p, !.rank = role[p][call[c].by]]
  <2>1. call[c] \in Call /\ call[c] # Idle /\ call[c].at = "handler" /\ call' = [call EXCEPT ![c] = v]
    BY <1>0, <1>5, AtCall DEF CheckMembership
  <2>2. v.org = p /\ v.prior = call[c].prior /\ v.met = call[c].met /\ v.at = "member"
    BY <2>1 DEF Call
  <2>3. HasMembers(p)
    BY <1>5, KnownCaller DEF CheckMembership, HasMembers
  <2>4. Moves(call[c], v, o)
    BY <2>1, <2>2, <2>3 DEF Moves, Concerns, DeletePlaces, Source
  <2> QED BY <2>1, <2>4, MovesOne
<1>6. ASSUME NEW c \in Slots, NEW i \in Invites, ReadInvite(c, i) PROVE Goal
  <2> DEFINE v == [call[c] EXCEPT !.at = "accept", !.invite = i, !.org = invite[i].org]
  <2>1. call[c] \in Call /\ call[c] # Idle /\ call[c].at = "handler" /\ call' = [call EXCEPT ![c] = v]
    BY <1>0, <1>6, AtCall DEF ReadInvite
  <2>2. v.org = invite[i].org /\ v.prior = call[c].prior /\ v.met = call[c].met /\ v.at = "accept"
    BY <2>1 DEF Call
  <2>3. Moves(call[c], v, o)
    BY <2>1, <2>2 DEF Moves, Concerns, DeletePlaces, Source, HasInvites
  <2> QED BY <2>1, <2>3, MovesOne
<1>7. ASSUME NEW c \in Slots, NEW p \in Orgs, BeginDeleteOrg(c, p) PROVE Goal
  <2> DEFINE v == [Blank EXCEPT !.at = "tenants", !.org = p]
  <2>1. v.org = p /\ v.prior = {} /\ v.at = "tenants"
    BY DEF Blank
  <2>2. Moves(call[c], v, o)
    BY <1>7, <2>1 DEF BeginDeleteOrg, Moves, Concerns, DeletePlaces
  <2> QED BY <1>7, <2>2, MovesOne DEF BeginDeleteOrg
<1>8. ASSUME NEW c \in Slots, NEW from \in DeletePlaces, NEW to \in DeletePlaces, At(c, from),
             call' = [call EXCEPT ![c].at = to]
      PROVE  Goal
  <2> DEFINE v == [call[c] EXCEPT !.at = to]
  <2>1. call[c] \in Call /\ call[c] # Idle /\ call[c].at = from /\ call' = [call EXCEPT ![c] = v]
    BY <1>0, <1>8, AtCall
  <2>2. v.org = call[c].org /\ v.prior = call[c].prior /\ v.met = call[c].met /\ v.at = to
    BY <2>1 DEF Call
  <2>3. Moves(call[c], v, o)
    BY <2>1, <2>2 DEF Moves, Concerns
  <2> QED BY <2>1, <2>3, MovesOne
<1>9. ASSUME NEW c \in Slots, DropTenants(c) \/ DropInvites(c) \/ DropMembers(c) PROVE Goal
  BY <1>8, <1>9 DEF DropTenants, DropInvites, DropMembers, DeletePlaces
<1>10. ASSUME NEW c \in Slots, DropOrg(c) PROVE Goal
  <2>1. CASE call'[d] = Idle
    BY <2>1 DEF Moves, Concerns
  <2>2. CASE call'[d] = call[d]
    BY <2>2 DEF Moves
  <2>3. CASE call[d] # Idle /\ call'[d] = [call[d] EXCEPT !.met = TRUE]
    <3>1. call[d] \in Call
      BY <1>0, <2>3
    <3> DEFINE v == [call[d] EXCEPT !.met = TRUE]
    <3>2. v.org = call[d].org /\ v.prior = call[d].prior /\ v.met = TRUE /\ v.at = call[d].at
      BY <3>1 DEF Call
    <3>3. Moves(call[d], v, o)
      BY <2>3, <3>2 DEF Moves, Concerns
    <3> QED BY <2>3, <3>3
  <2> QED BY <1>10, <2>1, <2>2, <2>3 DEF DropOrg
<1> HIDE DEF Goal
<1>11. ASSUME NEW c \in Slots, Operate(c) PROVE Goal
  BY <1>1, <1>3, <1>4, <1>5, <1>6, <1>11
     DEF Operate, Member, InheritMembership, SkipMembership, CreateOrg, AddMember, ChangeMemberRole,
         RemoveMember, CreateOrgInvite, DeleteOrgInvite, CreateTenant, AcceptInvite, Stop
<1>12. ASSUME NEW c \in Slots, DeleteOrg(c) PROVE Goal
  BY <1>7, <1>9, <1>10, <1>12 DEF DeleteOrg
<1>13. Goal
  BY <1>2, <1>11, <1>12 DEF Next, Expire, DeleteUser, vars
<1> QED BY <1>13 DEF Goal

\* What becomes of an organisation's row.
LEMMA OrgStep ==
    ASSUME Sound, [Next]_vars, NEW o \in Orgs
    PROVE  \/ org'[o] = org[o]
           \/ org[o] = "none" /\ org'[o] = "live"
           \/ \E c \in Slots : DropOrg(c) /\ call[c].org = o /\ org'[o] = "gone"
<1> DEFINE Goal == \/ org'[o] = org[o]
                   \/ org[o] = "none" /\ org'[o] = "live"
                   \/ \E c \in Slots : DropOrg(c) /\ call[c].org = o /\ org'[o] = "gone"
<1>0. org \in [Orgs -> {"none", "live", "gone"}]
  BY DEF Sound, TypeOK
<1>1. ASSUME NEW c \in Slots, NEW p \in Orgs, CreateOrg(c, p) PROVE Goal
  BY <1>0, <1>1 DEF CreateOrg
<1>2. ASSUME NEW c \in Slots, DropOrg(c) PROVE Goal
  BY <1>0, <1>2 DEF DropOrg
<1>3. ASSUME org' = org PROVE Goal
  BY <1>3
<1> HIDE DEF Goal
<1>4. ASSUME NEW c \in Slots, Operate(c) PROVE Goal
  BY <1>1, <1>3, <1>4
     DEF Operate, Member, Request, InheritMembership, SkipMembership, CheckMembership, AddMember,
         ChangeMemberRole, RemoveMember, CreateOrgInvite, DeleteOrgInvite, CreateTenant, ReadInvite,
         AcceptInvite, Stop
<1>5. ASSUME NEW c \in Slots, DeleteOrg(c) PROVE Goal
  BY <1>2, <1>3, <1>5 DEF DeleteOrg, BeginDeleteOrg, DropTenants, DropInvites, DropMembers
<1>6. Goal
  BY <1>3, <1>4, <1>5 DEF Next, Expire, DeleteUser, vars
<1> QED BY <1>6 DEF Goal

\* How far a deletion has come, and what it has just cleared.
Advances(w, v, o) ==
    \/ v.at = "tenants"
    \/ /\ w # Idle /\ w.org = o
       /\ \/ w.at = v.at
          \/ w.at = "tenants" /\ v.at = "invites" /\ ~HasTenants(o)'
          \/ w.at = "invites" /\ v.at = "members" /\ ~HasInvites(o)'
          \/ w.at = "members" /\ v.at = "org" /\ ~HasMembers(o)'

LEMMA AdvanceOne ==
    ASSUME Sound, NEW o \in Orgs, NEW c \in Slots, NEW v, call' = [call EXCEPT ![c] = v],
           NEW d \in Slots, call'[d] # Idle, call'[d].org = o, call'[d].at \in DeletePlaces,
           v = Idle \/ v.at \notin DeletePlaces \/ (v.org = o => Advances(call[c], v, o))
    PROVE  Advances(call[d], call'[d], o)
<1>1. call'[d] = IF d = c THEN v ELSE call[d]
  BY DEF Sound, TypeOK
<1>2. CASE d = c
  BY <1>1, <1>2
<1>3. CASE d # c
  BY <1>1, <1>3 DEF Advances
<1> QED BY <1>2, <1>3

LEMMA AdvanceStep ==
    ASSUME Sound, [Next]_vars, NEW d \in Slots, NEW o \in Orgs,
           call'[d] # Idle, call'[d].org = o, call'[d].at \in DeletePlaces
    PROVE  Advances(call[d], call'[d], o)
<1> DEFINE Goal == Advances(call[d], call'[d], o)
<1>0. call \in [Slots -> Call \cup {Idle}] /\ None \notin Orgs
  BY OrganisationsAssumption DEF Sound, TypeOK
<1>1. ASSUME NEW c \in Slots, NEW v, v = Idle \/ v.at \notin DeletePlaces,
             call' = [call EXCEPT ![c] = v]
      PROVE  Goal
  BY <1>1, AdvanceOne
<1>2. ASSUME call' = call PROVE Goal
  BY <1>2 DEF Advances
<1>3. ASSUME NEW c \in Slots, NEW u \in Ids, Request(c, u) PROVE Goal
  <2>1. PICK prior : call' = [call EXCEPT ![c] =
                    [Blank EXCEPT !.by = u, !.prior = prior,
                                  !.at = IF prior = {} THEN "handler" ELSE "inherit"]]
    BY <1>3 DEF Request
  <2> DEFINE v == [Blank EXCEPT !.by = u, !.prior = prior,
                                !.at = IF prior = {} THEN "handler" ELSE "inherit"]
  <2>2. v.at \notin DeletePlaces
    BY DEF Blank, DeletePlaces
  <2> QED BY <1>1, <2>1, <2>2
<1>4. ASSUME NEW c \in Slots, At(c, "inherit"), NEW m, Inherited(c, m) PROVE Goal
  <2> DEFINE rest == call[c].prior \ {m}
             v == [call[c] EXCEPT !.prior = rest, !.at = IF rest = {} THEN "handler" ELSE "inherit"]
  <2>1. call[c] \in Call /\ call' = [call EXCEPT ![c] = v]
    BY <1>0, <1>4, AtCall DEF Inherited
  <2>2. v.at \notin DeletePlaces
    BY <2>1 DEF Call, DeletePlaces
  <2> QED BY <1>1, <2>1, <2>2
<1>5. ASSUME NEW c \in Slots, NEW p \in Orgs, CheckMembership(c, p) PROVE Goal
  <2> DEFINE v == [call[c] EXCEPT !.at = "member", !.org = p, !.rank = role[p][call[c].by]]
  <2>1. call[c] \in Call /\ call' = [call EXCEPT ![c] = v]
    BY <1>0, <1>5, AtCall DEF CheckMembership
  <2>2. v.at \notin DeletePlaces
    BY <2>1 DEF Call, DeletePlaces
  <2> QED BY <1>1, <2>1, <2>2
<1>6. ASSUME NEW c \in Slots, NEW i \in Invites, ReadInvite(c, i) PROVE Goal
  <2> DEFINE v == [call[c] EXCEPT !.at = "accept", !.invite = i, !.org = invite[i].org]
  <2>1. call[c] \in Call /\ call' = [call EXCEPT ![c] = v]
    BY <1>0, <1>6, AtCall DEF ReadInvite
  <2>2. v.at \notin DeletePlaces
    BY <2>1 DEF Call, DeletePlaces
  <2> QED BY <1>1, <2>1, <2>2
<1>7. ASSUME NEW c \in Slots, NEW p \in Orgs, BeginDeleteOrg(c, p) PROVE Goal
  <2> DEFINE v == [Blank EXCEPT !.at = "tenants", !.org = p]
  <2>1. v.at = "tenants"
    BY DEF Blank
  <2> QED BY <1>7, <2>1, AdvanceOne DEF BeginDeleteOrg, Advances
<1>8. ASSUME NEW c \in Slots, NEW from, NEW to, At(c, from), call' = [call EXCEPT ![c].at = to],
             \/ from = "tenants" /\ to = "invites" /\ (call[c].org = o => ~HasTenants(o)')
             \/ from = "invites" /\ to = "members" /\ (call[c].org = o => ~HasInvites(o)')
             \/ from = "members" /\ to = "org" /\ (call[c].org = o => ~HasMembers(o)')
      PROVE  Goal
  <2> DEFINE v == [call[c] EXCEPT !.at = to]
  <2>1. call[c] \in Call /\ call[c] # Idle /\ call[c].at = from /\ call' = [call EXCEPT ![c] = v]
    BY <1>0, <1>8, AtCall
  <2>2. v.org = call[c].org /\ v.at = to
    BY <2>1 DEF Call
  <2>3. v.org = o => Advances(call[c], v, o)
    BY <1>8, <2>1, <2>2 DEF Advances
  <2> HIDE DEF v
  <2> QED BY <2>1, <2>3, AdvanceOne
<1>9. ASSUME NEW c \in Slots, DropTenants(c) PROVE Goal
  <2>1. call[c].org = o => ~HasTenants(o)'
    BY <1>9 DEF DropTenants, HasTenants
  <2> QED BY <1>8, <1>9, <2>1 DEF DropTenants
<1>10. ASSUME NEW c \in Slots, DropInvites(c) PROVE Goal
  <2>1. call[c].org = o => ~HasInvites(o)'
    <3>1. \A i \in Invites : Dropped(i).org = None
      BY DEF Dropped, Sound, TypeOK
    <3> QED BY <1>0, <1>10, <3>1 DEF DropInvites, HasInvites
  <2> QED BY <1>8, <1>10, <2>1 DEF DropInvites
<1>11. ASSUME NEW c \in Slots, DropMembers(c) PROVE Goal
  <2>1. call[c].org = o => ~HasMembers(o)'
    <3>1. \A u \in Ids : <<o, u>> \in {call[c].org} \X Ids => role'[o][u] = None
      BY <1>11 DEF DropMembers, Leave
    <3> QED BY <3>1 DEF HasMembers
  <2> QED BY <1>8, <1>11, <2>1 DEF DropMembers
<1>12. ASSUME NEW c \in Slots, DropOrg(c) PROVE Goal
  <2>1. CASE call'[d] = call[d]
    BY <2>1 DEF Advances
  <2>2. CASE call[d] # Idle /\ call[d].at \notin DeletePlaces /\ call'[d] = [call[d] EXCEPT !.met = TRUE]
    <3>1. call'[d].at = call[d].at
      BY <1>0, <2>2 DEF Call
    <3> QED BY <2>2, <3>1
  <2> QED BY <1>12, <2>1, <2>2 DEF DropOrg
<1>13. ASSUME NEW c \in Slots, End(c) PROVE Goal
  BY <1>1, <1>13 DEF End
<1> HIDE DEF Goal
<1>14. ASSUME NEW c \in Slots, Operate(c) PROVE Goal
  BY <1>3, <1>4, <1>5, <1>6, <1>13, <1>14
     DEF Operate, Member, InheritMembership, SkipMembership, CreateOrg, AddMember, ChangeMemberRole,
         RemoveMember, CreateOrgInvite, DeleteOrgInvite, CreateTenant, AcceptInvite, Stop
<1>15. ASSUME NEW c \in Slots, DeleteOrg(c) PROVE Goal
  BY <1>7, <1>9, <1>10, <1>11, <1>12, <1>15 DEF DeleteOrg
<1>16. Goal
  BY <1>2, <1>14, <1>15 DEF Next, Expire, DeleteUser, vars
<1> QED BY <1>16 DEF Goal

\* A row written during a deletion, or by a call that one overlapped, makes its organisation stray.
LEMMA WroteStrays ==
    ASSUME NEW o \in Orgs, Wrote(o), o \notin strayed'
    PROVE  /\ ~DeletingOrg(o)
           /\ \E c \in Slots : Entitled(c, o) /\ ~call[c].met
BY DEF Wrote, Insert

LEMMA InitIInv == Init => IInv
<1> SUFFICES ASSUME Init PROVE IInv
  OBVIOUS
<1>1. Sound
  BY InitSound
<1>2. UnbornIsUnknown /\ CallsMetDeletion /\ DeletionClears /\ GoneIsEmpty
  BY OrganisationsAssumption
     DEF Init, UnbornIsUnknown, CallsMetDeletion, DeletionClears, GoneIsEmpty, Concerns, HasInvites,
         HasMembers, HasTenants, Unwritten
<1> QED BY <1>1, <1>2 DEF IInv

LEMMA UnbornStep == ASSUME IInv, [Next]_vars PROVE UnbornIsUnknown'
<1> SUFFICES ASSUME NEW o \in Orgs, org'[o] = "none"
             PROVE  /\ ~HasInvites(o)' /\ ~HasMembers(o)'
                    /\ \A c \in Slots : ~Concerns(call'[c], o)
  BY DEF UnbornIsUnknown, Concerns
<1>0. Sound
  BY DEF IInv
<1>1. org[o] = "none"
  BY <1>0, OrgStep
<1>2. /\ ~HasInvites(o) /\ ~HasMembers(o)
      /\ \A c \in Slots : ~Concerns(call[c], o)
  BY <1>1 DEF IInv, UnbornIsUnknown
<1>3. ~Wrote(o)
  BY <1>2 DEF Wrote, Entitled
<1>4. ~HasInvites(o)' /\ ~HasMembers(o)'
  BY <1>0, <1>2, <1>3, MembersGrow, OthersGrow
<1>5. ASSUME NEW c \in Slots PROVE ~Concerns(call'[c], o)
  BY <1>0, <1>1, <1>2, CallStep DEF Moves, Source
<1> QED BY <1>4, <1>5

LEMMA MetStep == ASSUME IInv, [Next]_vars PROVE CallsMetDeletion'
<1> SUFFICES ASSUME NEW d \in Slots, NEW o \in Orgs, Concerns(call'[d], o),
                    call'[d].at \notin DeletePlaces, org'[o] = "gone", o \notin strayed'
             PROVE  call'[d].met
  BY DEF CallsMetDeletion, Concerns
<1>0. Sound /\ o \notin strayed
  BY StrayedGrows DEF IInv
<1>1. CASE org[o] = "gone"
  <2>1. ~HasInvites(o) /\ ~HasMembers(o)
    BY <1>0, <1>1 DEF IInv, GoneIsEmpty
  <2>2. /\ Concerns(call[d], o)
        /\ call[d].met => call'[d].met
        /\ call[d].at \notin DeletePlaces
    BY <1>0, <1>1, <2>1, CallStep DEF Moves, Source
  <2>3. call[d].met
    BY <1>0, <1>1, <2>2 DEF IInv, CallsMetDeletion
  <2> QED BY <2>2, <2>3
<1>2. CASE \E c \in Slots : DropOrg(c)
  <2>1. PICK c \in Slots : DropOrg(c)
    BY <1>2
  <2>2. call'[d] # Idle
    BY DEF Concerns
  <2>3. call[d] # Idle /\ call[d].at \notin DeletePlaces /\ call'[d] = [call[d] EXCEPT !.met = TRUE]
    BY <2>1, <2>2 DEF DropOrg
  <2>4. call[d] \in Call
    BY <1>0, <2>3 DEF Sound, TypeOK
  <2> QED BY <2>3, <2>4 DEF Call
<1> QED BY <1>0, <1>1, <1>2, OrgStep

LEMMA ClearsStep == ASSUME IInv, [Next]_vars PROVE DeletionClears'
<1> SUFFICES ASSUME NEW d \in Slots, NEW o \in Orgs,
                    call'[d] # Idle, call'[d].org = o, o \notin strayed'
             PROVE  /\ call'[d].at \in {"invites", "members", "org"} => ~HasTenants(o)'
                    /\ call'[d].at \in {"members", "org"} => ~HasInvites(o)'
                    /\ call'[d].at = "org" => ~HasMembers(o)'
  BY DEF DeletionClears, HasTenants, HasInvites, HasMembers
<1>0. Sound /\ o \notin strayed
  BY StrayedGrows DEF IInv
<1> SUFFICES ASSUME call'[d].at \in {"invites", "members", "org"}
             PROVE  /\ ~HasTenants(o)'
                    /\ call'[d].at \in {"members", "org"} => ~HasInvites(o)'
                    /\ call'[d].at = "org" => ~HasMembers(o)'
  OBVIOUS
<1>1. Advances(call[d], call'[d], o)
  BY <1>0, AdvanceStep DEF DeletePlaces
<1>2. call[d] # Idle /\ call[d].org = o /\ call[d].at \in DeletePlaces
  BY <1>1 DEF Advances, DeletePlaces
<1>3. ~Wrote(o)
  BY <1>2, WroteStrays DEF DeletingOrg
<1>4. /\ call[d].at \in {"invites", "members", "org"} => ~HasTenants(o)
      /\ call[d].at \in {"members", "org"} => ~HasInvites(o)
      /\ call[d].at = "org" => ~HasMembers(o)
  BY <1>0, <1>2 DEF IInv, DeletionClears
<1>5. /\ ~HasTenants(o) => ~HasTenants(o)'
      /\ ~HasInvites(o) => ~HasInvites(o)'
      /\ ~HasMembers(o) => ~HasMembers(o)'
  BY <1>0, <1>3, MembersGrow, OthersGrow
<1> QED BY <1>1, <1>4, <1>5 DEF Advances

LEMMA GoneStep == ASSUME IInv, [Next]_vars PROVE GoneIsEmpty'
<1> SUFFICES ASSUME NEW o \in Orgs, org'[o] = "gone", o \notin strayed'
             PROVE  ~HasTenants(o)' /\ ~HasInvites(o)' /\ ~HasMembers(o)'
  BY DEF GoneIsEmpty, HasTenants, HasInvites, HasMembers
<1>0. Sound /\ o \notin strayed
  BY StrayedGrows DEF IInv
<1>1. CASE org[o] = "gone"
  <2>1. ~HasTenants(o) /\ ~HasInvites(o) /\ ~HasMembers(o)
    BY <1>0, <1>1 DEF IInv, GoneIsEmpty
  <2>2. ~Wrote(o)
    <3>1. \A c \in Slots : Entitled(c, o) => call[c].met
      BY <1>0, <1>1 DEF IInv, CallsMetDeletion, Entitled
    <3> QED BY <3>1, WroteStrays
  <2> QED BY <1>0, <2>1, <2>2, MembersGrow, OthersGrow
<1>2. ASSUME NEW c \in Slots, DropOrg(c), call[c].org = o
      PROVE  ~HasTenants(o)' /\ ~HasInvites(o)' /\ ~HasMembers(o)'
  <2>1. ~HasTenants(o) /\ ~HasInvites(o) /\ ~HasMembers(o)
    BY <1>0, <1>2 DEF IInv, DeletionClears, DropOrg, At
  <2> QED BY <1>2, <2>1 DEF DropOrg, HasTenants, HasInvites, HasMembers
<1> QED BY <1>0, <1>1, <1>2, OrgStep

LEMMA IInvStep == ASSUME IInv, [Next]_vars PROVE IInv'
<1>1. Sound'
  BY NextSound DEF IInv
<1> QED BY <1>1, UnbornStep, MetStep, ClearsStep, GoneStep DEF IInv

\* DeleteOrg leaves no row behind, but those of calls it overlapped, for any number of them.
THEOREM SpecGoneOrgIsEmpty == Spec => []GoneOrgIsEmpty
<1>1. IInv => GoneOrgIsEmpty
  BY DEF IInv, GoneIsEmpty, GoneOrgIsEmpty, HasTenants, HasInvites, HasMembers
<1> QED BY <1>1, InitIInv, IInvStep, PTL DEF Spec

-----------------------------------------------------------------------------
(* Roles.                                                                  *)

\* What RolesMoveByOwners says of one membership.
MovesByOwner(o, u) ==
    /\ role[o][u] # None /\ role'[o][u] # None /\ role'[o][u] # role[o][u]
    /\ Namesakes(u) = {}
    => \E c \in Slots : AsOwner(c) /\ call[c].org = o /\ call'[c] = Idle

LEMMA RoleStep ==
    ASSUME IInv, [Next]_vars, NEW o \in Orgs, NEW u \in Ids
    PROVE  MovesByOwner(o, u)
<1> SUFFICES ASSUME role[o][u] # None, role'[o][u] # None, role'[o][u] # role[o][u], Namesakes(u) = {}
             PROVE  \E c \in Slots : AsOwner(c) /\ call[c].org = o /\ call'[c] = Idle
  BY DEF MovesByOwner
<1>0. Sound /\ role \in [Orgs -> [Ids -> Roles \cup {None}]] /\ call \in [Slots -> Call \cup {Idle}]
  BY DEF IInv, Sound, TypeOK
<1>1. ASSUME NEW c \in Slots, End(c) PROVE call'[c] = Idle
  BY <1>0, <1>1 DEF End
<1>2. ASSUME NEW c \in Slots, NEW p \in Orgs, NEW v \in Ids, NEW r \in Roles, Given(c, p, v, r)
      PROVE  AsOwner(c) /\ call[c].org = o /\ call'[c] = Idle
  <2>1. p = o /\ v = u /\ role'[o][u] = r
    BY <1>0, <1>2 DEF Given, Join
  <2>2. org[o] # "none"
    BY DEF IInv, UnbornIsUnknown, HasMembers
  <2>3. r # AcceptedRole(role[o][u])
    BY <2>1 DEF AcceptedRole
  <2> QED BY <1>1, <1>2, <2>1, <2>2, <2>3 DEF Given
<1>3. ~Taken
  <2>1. ASSUME NEW memberships \in SUBSET (Orgs \X Ids), Leave(memberships)
        PROVE  role'[o][u] \in {None, role[o][u]}
    BY <2>1 DEF Leave
  <2> QED BY <2>1 DEF Taken
<1>4. CASE SetByOwner
  <2>1. PICK c \in Slots, v \in Ids, r \in Roles :
          AsOwner(c) /\ End(c) /\ role' = SetRole(call[c].org, v, r)
    BY <1>4 DEF SetByOwner
  <2>2. call[c].org \in Orgs
    BY <1>0, <2>1, KnownOrg DEF AsOwner
  <2>3. call[c].org = o
    BY <1>0, <2>1, <2>2 DEF SetRole
  <2> QED BY <1>1, <2>1, <2>3
<1> QED BY <1>0, <1>2, <1>3, <1>4, MembershipStep

\* Only a call that read its caller to be an owner moves a role.
THEOREM SpecRolesMoveByOwners == Spec => RolesMoveByOwners
<1>1. IInv /\ [Next]_vars =>
        [\A o \in Orgs, u \in Ids :
           /\ role[o][u] # None /\ role'[o][u] # None /\ role'[o][u] # role[o][u]
           /\ Namesakes(u) = {}
           => \E c \in Slots : AsOwner(c) /\ call[c].org = o /\ call'[c] = Idle]_vars
  BY RoleStep DEF MovesByOwner
<1> QED BY <1>1, InitIInv, IInvStep, PTL DEF Spec, RolesMoveByOwners
=============================================================================
