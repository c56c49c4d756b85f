------------------------- MODULE PlatformAdminsProofs -------------------------
(***************************************************************************)
(* Who administers the platform, for any number of users, calls and        *)
(* replicas.  The invariant says of every call under way what it has       *)
(* checked and still stands on: whose role it is about to inherit or       *)
(* grant, that a removal leaves somebody unless another removal has come   *)
(* between, and that a wizard past its account has left a way in.          *)
(***************************************************************************)
EXTENDS PlatformAdmins, FiniteSetTheorems, TLAPS

Places == AuthPlaces \cup AdminPlaces \cup SetupPlaces \cup {"seed"}
SharesEmail(u) == \E v \in Ids \ {u} : Email[v] = Email[u]
Exempt(u) == Email[u] = SeedEmail \/ u \in GroupIds \/ SharesEmail(u)

\* Of a call r under way: what holds at its place whatever others do, ...
Checked(r) ==
    /\ r.at \in AuthPlaces \cup AdminPlaces \cup {"user", "admin", "seed"} => r.by \in Ids
    /\ r.at \in {"flag", "accounts", "account"} => r.by = None
    /\ r.at \in {"priorAdmin", "grant", "countAdmins", "revoke", "delete", "purge"} => r.subject \in Ids
    /\ r.at = "priorAdmin" => r.subject # r.by /\ Email[r.subject] = Email[r.by]
    /\ r.at = "inherit" => SharesEmail(r.by)
    /\ r.at = "joinGroup" => r.by \in GroupIds
    /\ r.at = "seed" => Email[r.by] = SeedEmail

\* ... and what its checks have found, and nobody but a removal undoes.
Backed(r) ==
    /\ r.at = "provider" => r.by = None \/ wayIn \/ mishap
    /\ r.at = "mark" => wayIn \/ mishap
    /\ r.at \in {"revoke", "delete", "purge"} /\ ~r.overtaken => \E v \in admins : v # r.subject

TablesOK ==
    /\ accounts \subseteq LocalIds
    /\ users \subseteq Ids /\ \A u, v \in users : Email[u] = Email[v] => u = v
    /\ admins \subseteq Ids
    /\ adminGroup \in BOOLEAN /\ complete \in BOOLEAN
    /\ mishap \in BOOLEAN /\ wayIn \in BOOLEAN
    /\ revoked \subseteq Ids

Calls == call \in [Slots -> Call \cup {Idle}]
CallsSound == \A c \in Slots : call[c] # Idle => Checked(call[c]) /\ Backed(call[c])

\* The wizard of slot c has made its account and not yet stored its administrator.
Pending(c) == At(c, "user") \/ At(c, "admin")
WayIn == accounts # {} \/ complete => wayIn \/ mishap \/ \E c \in Slots : Pending(c)

Inv == TablesOK /\ Calls /\ CallsSound /\ WayIn /\ RevokedStaysOut

LEMMA InitInv == Init => Inv
  BY DEF Init, Inv, TablesOK, Calls, CallsSound, WayIn, RevokedStaysOut

(***************************************************************************)
(* A step of one call: where it goes, and what that asks of it.            *)
(***************************************************************************)
With(r, place, u) == [at |-> place, by |-> r.by, subject |-> u, overtaken |-> r.overtaken]
Moves(c, x) == call' = [call EXCEPT ![c] = x]

LEMMA UnderWay ==
  ASSUME Calls, NEW c \in Slots, call[c] # Idle
  PROVE  call[c] \in Call
BY DEF Calls

LEMMA GotoMoves ==
  ASSUME Calls, NEW c \in Slots, NEW r \in Call, call[c] = r, NEW place \in Places, Goto(c, place)
  PROVE  With(r, place, r.subject) \in Call /\ Moves(c, With(r, place, r.subject))
<1>1. [r EXCEPT !.at = place] = With(r, place, r.subject)
  BY DEF Call, With
<1>2. With(r, place, r.subject) \in Call
  BY DEF Call, With, Places
<1> QED BY <1>1, <1>2 DEF Goto, Moves

LEMMA GotoWithMoves ==
  ASSUME Calls, NEW c \in Slots, NEW r \in Call, call[c] = r, NEW place \in Places, NEW u \in Ids \cup {None},
         GotoWith(c, place, u)
  PROVE  With(r, place, u) \in Call /\ Moves(c, With(r, place, u))
<1>1. [[r EXCEPT !.at = place] EXCEPT !.subject = u] = With(r, place, u)
  <2>1. [r EXCEPT !.at = place] = With(r, place, r.subject)
    BY DEF Call, With
  <2>2. [With(r, place, r.subject) EXCEPT !.subject = u] = With(r, place, u)
    BY DEF With
  <2> QED BY <2>1, <2>2
<1>2. With(r, place, u) \in Call
  BY DEF Call, With, Places
<1>3. call' = [call EXCEPT ![c] = [[r EXCEPT !.at = place] EXCEPT !.subject = u]]
  BY DEF GotoWith, Calls
<1> QED BY <1>1, <1>2, <1>3 DEF Moves

LEMMA OvertakenFields ==
  ASSUME NEW q \in Call
  PROVE  [q EXCEPT !.overtaken = TRUE] = [at |-> q.at, by |-> q.by, subject |-> q.subject, overtaken |-> TRUE]
<1>1. \A b : [q EXCEPT !.overtaken = b] = [at |-> q.at, by |-> q.by, subject |-> q.subject, overtaken |-> b]
  BY DEF Call
<1> QED BY <1>1, Zenon

LEMMA CallMoves ==
  ASSUME Calls, CallsSound, NEW c \in Slots, NEW x \in Call \cup {Idle}, Moves(c, x),
         x # Idle => Checked(x) /\ Backed(x)',
         wayIn => wayIn', mishap => mishap', admins \subseteq admins'
  PROVE  Calls' /\ CallsSound'
<1>1. Calls'
  BY DEF Calls, Moves
<1>2. ASSUME NEW d \in Slots, NEW r, r = call'[d], r # Idle PROVE Checked(r) /\ Backed(r)'
  <2>1. CASE d = c
    BY <1>2, <2>1 DEF Calls, Moves
  <2>2. CASE d # c
    <3>1. r = call[d]
      BY <1>2, <2>2 DEF Calls, Moves
    <3>2. Checked(r) /\ Backed(r)
      BY <1>2, <3>1 DEF CallsSound
    <3> QED BY <3>2 DEF Backed
  <2> QED BY <2>1, <2>2
<1>3. CallsSound'
  BY <1>2 DEF CallsSound, Checked, Backed
<1> QED BY <1>1, <1>3

LEMMA WayInKept ==
  ASSUME Calls, WayIn, NEW c \in Slots, NEW x \in Call \cup {Idle}, Moves(c, x),
         wayIn => wayIn', mishap => mishap',
         \/ wayIn' \/ mishap'
         \/ x # Idle /\ x.at \in {"user", "admin"}
         \/ accounts' = accounts /\ complete' = complete /\ ~Pending(c)
  PROVE  WayIn'
<1>1. CASE wayIn' \/ mishap'
  BY <1>1 DEF WayIn
<1>2. CASE x # Idle /\ x.at \in {"user", "admin"}
  <2>1. call'[c] = x
    BY DEF Calls, Moves
  <2>2. Pending(c)'
    BY <1>2, <2>1 DEF Pending, At
  <2> QED BY <2>2 DEF WayIn
<1>3. CASE accounts' = accounts /\ complete' = complete /\ ~Pending(c)
  <2>1. \A d \in Slots : Pending(d) => Pending(d)'
    BY <1>3 DEF Calls, Moves, Pending, At
  <2> QED BY <1>3, <2>1 DEF WayIn
<1> QED BY <1>1, <1>2, <1>3

\* A call that writes nothing.
LEMMA QuietStep ==
  ASSUME Inv, NEW c \in Slots, NEW x \in Call \cup {Idle}, Moves(c, x),
         x # Idle => Checked(x) /\ Backed(x), ~Pending(c), UNCHANGED <<tables, history>>
  PROVE  Inv'
<1>1. x # Idle => Backed(x)'
  BY DEF Backed, tables, history
<1>2. Calls' /\ CallsSound'
  BY <1>1, CallMoves DEF Inv, tables, history
<1>3. WayIn'
  BY WayInKept DEF Inv, tables, history
<1>4. TablesOK' /\ RevokedStaysOut'
  BY DEF Inv, tables, history, TablesOK, RevokedStaysOut
<1> QED BY <1>2, <1>3, <1>4 DEF Inv

(***************************************************************************)
(* withAdminAuth and withSuperAdminAuth.                                   *)
(***************************************************************************)
LEMMA RequestStep ==
  ASSUME Inv, NEW c \in Slots, NEW u \in Ids, Request(c, u)
  PROVE  Inv'
<1> DEFINE x == [at |-> "upsert", by |-> u, subject |-> None, overtaken |-> FALSE]
<1>1. x \in Call /\ Checked(x) /\ Backed(x)
  BY DEF Call, AuthPlaces, AdminPlaces, SetupPlaces, Checked, Backed
<1>2. Moves(c, x) /\ ~Pending(c) /\ UNCHANGED <<tables, history>>
  BY DEF Request, Begin, Moves, Pending, At
<1> HIDE DEF x
<1> QED BY <1>1, <1>2, QuietStep

LEMMA UpsertStep ==
  ASSUME Inv, NEW c \in Slots, NEW fails \in BOOLEAN, UpsertUser(c, fails)
  PROVE  Inv'
<1>1. PICK r \in Call : r = call[c]
  BY UnderWay DEF Inv, UpsertUser, At
<1>2. r.at = "upsert" /\ Checked(r) /\ call[c] # Idle
  BY <1>1 DEF UpsertUser, At, Inv, CallsSound
<1>3. r.by \in Ids
  BY <1>2 DEF Checked, AuthPlaces
<1> DEFINE x == With(r, "prior", r.subject)
<1>4. x \in Call /\ Moves(c, x)
  BY <1>1, GotoMoves DEF UpsertUser, Inv, Places, AuthPlaces
<1>5. Checked(x) /\ Backed(x)'
  BY <1>3 DEF Checked, Backed, With
<1>6. UNCHANGED <<accounts, admins, adminGroup, complete, history>> /\ ~Pending(c)
  BY DEF UpsertUser, Pending, At
<1> HIDE DEF x
<1>7. Calls' /\ CallsSound' /\ WayIn'
  BY <1>4, <1>5, <1>6, CallMoves, WayInKept DEF Inv, history
<1>8. users' \subseteq Ids /\ \A u, v \in users' : Email[u] = Email[v] => u = v
  BY <1>1, <1>3 DEF UpsertUser, Upserted, Named, Inv, TablesOK
<1>9. TablesOK' /\ RevokedStaysOut'
  BY <1>6, <1>8 DEF Inv, TablesOK, RevokedStaysOut, history
<1> QED BY <1>7, <1>9 DEF Inv

LEMMA FindPriorStep ==
  ASSUME Inv, NEW c \in Slots, FindPrior(c)
  PROVE  Inv'
<1>1. PICK r \in Call : r = call[c]
  BY UnderWay DEF Inv, FindPrior, At
<1>2. r.at = "prior" /\ Checked(r) /\ call[c] # Idle
  BY <1>1 DEF FindPrior, At, Inv, CallsSound
<1>3. r.by \in Ids
  BY <1>2 DEF Checked, AuthPlaces
<1>4. UNCHANGED <<tables, history>> /\ ~Pending(c)
  BY DEF FindPrior, Pending, At
<1>5. CASE Goto(c, "group")
  <2> DEFINE x == With(r, "group", r.subject)
  <2>1. x \in Call /\ Moves(c, x)
    BY <1>1, <1>5, GotoMoves DEF Inv, Places, AuthPlaces
  <2>2. Checked(x) /\ Backed(x)
    BY <1>3 DEF Checked, Backed, With
  <2> HIDE DEF x
  <2> QED BY <1>4, <2>1, <2>2, QuietStep
<1>6. ASSUME NEW u \in Named(Email[call[c].by]) \ {call[c].by}, GotoWith(c, "priorAdmin", u) PROVE Inv'
  <2> DEFINE x == With(r, "priorAdmin", u)
  <2>1. u \in Ids /\ u # r.by /\ Email[u] = Email[r.by]
    BY <1>1, <1>6 DEF Named, Inv, TablesOK
  <2>2. x \in Call /\ Moves(c, x)
    BY <1>1, <1>6, <2>1, GotoWithMoves DEF Inv, Places, AuthPlaces
  <2>3. Checked(x) /\ Backed(x)
    BY <1>3, <2>1 DEF Checked, Backed, With
  <2> HIDE DEF x
  <2> QED BY <1>4, <2>2, <2>3, QuietStep
<1> QED BY <1>5, <1>6 DEF FindPrior

LEMMA ReadPriorStep ==
  ASSUME Inv, NEW c \in Slots, ReadPriorAdmin(c)
  PROVE  Inv'
<1>1. PICK r \in Call : r = call[c]
  BY UnderWay DEF Inv, ReadPriorAdmin, At
<1>2. r.at = "priorAdmin" /\ Checked(r) /\ call[c] # Idle
  BY <1>1 DEF ReadPriorAdmin, At, Inv, CallsSound
<1>3. r.by \in Ids /\ SharesEmail(r.by)
  BY <1>2 DEF Checked, AuthPlaces, SharesEmail
<1>4. UNCHANGED <<tables, history>> /\ ~Pending(c)
  BY DEF ReadPriorAdmin, Pending, At
<1>5. ASSUME NEW place \in {"inherit", "group"}, GotoWith(c, place, None) PROVE Inv'
  <2> DEFINE x == With(r, place, None)
  <2>1. x \in Call /\ Moves(c, x)
    BY <1>1, <1>5, GotoWithMoves DEF Inv, Places, AuthPlaces
  <2>2. Checked(x) /\ Backed(x)
    BY <1>3 DEF Checked, Backed, With
  <2> HIDE DEF x
  <2> QED BY <1>4, <2>1, <2>2, QuietStep
<1> QED BY <1>5 DEF ReadPriorAdmin

LEMMA SkipStep ==
  ASSUME Inv, NEW c \in Slots, SkipMerge(c) \/ CheckGroup(c)
  PROVE  Inv'
<1>1. PICK r \in Call : r = call[c]
  BY UnderWay DEF Inv, SkipMerge, CheckGroup, At
<1>2. r.at \in AuthPlaces /\ Checked(r) /\ call[c] # Idle
  BY <1>1 DEF SkipMerge, CheckGroup, At, Inv, CallsSound, AuthPlaces
<1>3. r.by \in Ids
  BY <1>2 DEF Checked
<1>4. UNCHANGED <<tables, history>> /\ ~Pending(c)
  BY DEF SkipMerge, CheckGroup, Pending, At
<1>5. ASSUME NEW place \in {"group", "handler", "joinGroup"}, NEW u \in {r.subject, None},
             place = "joinGroup" => r.by \in GroupIds, Moves(c, With(r, place, u)), With(r, place, u) \in Call
      PROVE  Inv'
  <2> DEFINE x == With(r, place, u)
  <2>1. Checked(x) /\ Backed(x)
    BY <1>3, <1>5 DEF Checked, Backed, With
  <2> HIDE DEF x
  <2> QED BY <1>4, <1>5, <2>1, QuietStep DEF x
<1>6. ASSUME NEW place \in {"group", "handler", "joinGroup"}, place = "joinGroup" => r.by \in GroupIds, Goto(c, place)
      PROVE  Inv'
  BY <1>1, <1>5, <1>6, GotoMoves DEF Inv, Places, AuthPlaces
<1>7. CASE GotoWith(c, "group", None)
  BY <1>1, <1>5, <1>7, GotoWithMoves DEF Inv, Places, AuthPlaces
<1> QED BY <1>1, <1>6, <1>7 DEF SkipMerge, CheckGroup, InAdminGroup

LEMMA CheckSuperStep ==
  ASSUME Inv, NEW c \in Slots, CheckSuper(c)
  PROVE  Inv'
<1>1. PICK r \in Call : r = call[c]
  BY UnderWay DEF Inv, CheckSuper, At
<1>2. r.at = "handler" /\ Checked(r) /\ call[c] # Idle
  BY <1>1 DEF CheckSuper, At, Inv, CallsSound
<1>3. r.by \in Ids /\ r.by \in admins
  BY <1>1, <1>2 DEF Checked, AuthPlaces, CheckSuper
<1>4. UNCHANGED <<tables, history>> /\ ~Pending(c)
  BY DEF CheckSuper, Pending, At
<1>5. CASE Goto(c, "grantee")
  <2> DEFINE x == With(r, "grantee", r.subject)
  <2>1. x \in Call /\ Moves(c, x)
    BY <1>1, <1>5, GotoMoves DEF Inv, Places, AdminPlaces
  <2>2. Checked(x) /\ Backed(x)
    BY <1>3 DEF Checked, Backed, With
  <2> HIDE DEF x
  <2> QED BY <1>4, <2>1, <2>2, QuietStep
<1>6. ASSUME NEW place \in {"countAdmins", "revoke", "delete"}, NEW u \in Ids, place # "countAdmins" => u # r.by,
             GotoWith(c, place, u)
      PROVE  Inv'
  <2> DEFINE x == With(r, place, u)
  <2>1. x \in Call /\ Moves(c, x)
    BY <1>1, <1>6, GotoWithMoves DEF Inv, Places, AdminPlaces
  <2>2. Checked(x) /\ Backed(x)
    BY <1>3, <1>6 DEF Checked, Backed, With
  <2> HIDE DEF x
  <2> QED BY <1>4, <2>1, <2>2, QuietStep
<1> QED BY <1>1, <1>3, <1>5, <1>6 DEF CheckSuper

\* The grants: of the merge, the group, an administrator, the wizard and a replica's start.
\* Who was revoked is not granted the role without one of an administrator or the wizard,
\* unless exempt.
LEMMA GrantStep ==
  ASSUME Inv, NEW c \in Slots, NEW u \in Ids, Grant(u), NEW x \in Call \cup {Idle}, Moves(c, x),
         x # Idle => Checked(x) /\ Backed(x)',
         \/ revoked' = revoked \ {u}
         \/ revoked' = revoked /\ Exempt(u)
  PROVE  Inv'
<1>1. Calls' /\ CallsSound'
  BY CallMoves DEF Inv, Grant
<1>2. WayIn'
  BY DEF WayIn, Grant
<1>3. TablesOK'
  BY DEF Grant, Inv, TablesOK
<1>4. RevokedStaysOut'
  BY DEF Grant, Inv, RevokedStaysOut, Exempt, SharesEmail
<1> QED BY <1>1, <1>2, <1>3, <1>4 DEF Inv

LEMMA GrantSteps ==
  ASSUME Inv, NEW c \in Slots, InheritAdmin(c) \/ GrantByGroup(c) \/ GrantAdmin(c) \/ SetupAdmin(c) \/ SeedGrants(c)
  PROVE  Inv'
<1>1. PICK r \in Call : r = call[c]
  BY UnderWay DEF Inv, InheritAdmin, GrantByGroup, GrantAdmin, SetupAdmin, SeedGrants, At
<1>2. Checked(r) /\ call[c] # Idle
  BY <1>1 DEF InheritAdmin, GrantByGroup, GrantAdmin, SetupAdmin, SeedGrants, At, Inv, CallsSound
<1>3. CASE InheritAdmin(c) \/ GrantByGroup(c)
  <2>1. r.by \in Ids /\ Exempt(r.by)
    BY <1>1, <1>2, <1>3 DEF InheritAdmin, GrantByGroup, At, Checked, AuthPlaces, Exempt
  <2>2. ASSUME NEW place \in {"group", "handler"}, Goto(c, place), Grant(r.by), revoked' = revoked PROVE Inv'
    <3> DEFINE x == With(r, place, r.subject)
    <3>1. x \in Call /\ Moves(c, x)
      BY <1>1, <2>2, GotoMoves DEF Inv, Places, AuthPlaces
    <3>2. Checked(x) /\ Backed(x)'
      BY <2>1 DEF Checked, Backed, With
    <3> HIDE DEF x
    <3> QED BY <2>1, <2>2, <3>1, <3>2, GrantStep
  <2> QED BY <1>1, <1>3, <2>2 DEF InheritAdmin, GrantByGroup
<1>4. CASE GrantAdmin(c)
  <2>1. r.subject \in Ids /\ Grant(r.subject) /\ revoked' = revoked \ {r.subject} /\ Moves(c, Idle)
    BY <1>1, <1>2, <1>4 DEF GrantAdmin, At, Checked, End, Moves
  <2> QED BY <2>1, GrantStep
<1>5. CASE SetupAdmin(c)
  <2> DEFINE x == With(r, "provider", r.subject)
  <2>1. r.by \in Ids /\ Grant(r.by) /\ revoked' = revoked \ {r.by}
    BY <1>1, <1>2, <1>5 DEF SetupAdmin, At, Checked
  <2>2. x \in Call /\ Moves(c, x)
    BY <1>1, <1>5, GotoMoves DEF SetupAdmin, Inv, Places, SetupPlaces
  <2>3. Checked(x) /\ Backed(x)'
    BY <2>1 DEF Checked, Backed, With, Grant, AuthPlaces, AdminPlaces
  <2> HIDE DEF x
  <2> QED BY <2>1, <2>2, <2>3, GrantStep
<1>6. CASE SeedGrants(c)
  <2>1. r.by \in Ids /\ Exempt(r.by) /\ Grant(r.by) /\ revoked' = revoked /\ Moves(c, Idle)
    BY <1>1, <1>2, <1>6 DEF SeedGrants, At, Checked, End, Moves, Exempt
  <2> QED BY <2>1, GrantStep
<1> QED BY <1>3, <1>4, <1>5, <1>6

(***************************************************************************)
(* The handlers.                                                           *)
(***************************************************************************)
LEMMA FindGranteeStep ==
  ASSUME Inv, NEW c \in Slots, FindGrantee(c)
  PROVE  Inv'
<1>1. PICK r \in Call : r = call[c]
  BY UnderWay DEF Inv, FindGrantee, At
<1>2. r.at = "grantee" /\ Checked(r) /\ call[c] # Idle
  BY <1>1 DEF FindGrantee, At, Inv, CallsSound
<1>3. r.by \in Ids
  BY <1>2 DEF Checked, AdminPlaces
<1>4. PICK u \in users : GotoWith(c, "grant", u)
  BY DEF FindGrantee
<1> DEFINE x == With(r, "grant", u)
<1>5. u \in Ids
  BY DEF Inv, TablesOK
<1>6. x \in Call /\ Moves(c, x)
  BY <1>1, <1>4, <1>5, GotoWithMoves DEF Inv, Places, AdminPlaces
<1>7. Checked(x) /\ Backed(x)
  BY <1>3, <1>5 DEF Checked, Backed, With
<1>8. UNCHANGED <<tables, history>> /\ ~Pending(c)
  BY DEF FindGrantee, Pending, At
<1> HIDE DEF x
<1> QED BY <1>6, <1>7, <1>8, QuietStep

\* More than one administrator: one is another.
LEMMA OtherAdmin ==
  ASSUME TablesOK, MayLeave, NEW u
  PROVE  \E v \in admins : v # u
<1> SUFFICES ASSUME admins \subseteq {u} PROVE FALSE
  OBVIOUS
<1>1. IsFiniteSet({u}) /\ Cardinality({u}) = 1
  BY FS_Singleton
<1>2. Cardinality(admins) <= 1 /\ Cardinality(admins) \in Nat
  BY <1>1, FS_Subset, FS_CardinalityType
<1> QED BY <1>2 DEF MayLeave

LEMMA EndStep ==
  ASSUME Inv, NEW c \in Slots, ~Pending(c), End(c), UNCHANGED <<tables, history>>
  PROVE  Inv'
BY QuietStep DEF End, Moves

LEMMA CountStep ==
  ASSUME Inv, NEW c \in Slots, CountAdmins(c)
  PROVE  Inv'
<1>1. PICK r \in Call : r = call[c]
  BY UnderWay DEF Inv, CountAdmins, At
<1>2. r.at = "countAdmins" /\ Checked(r) /\ call[c] # Idle
  BY <1>1 DEF CountAdmins, At, Inv, CallsSound
<1>3. r.by \in Ids /\ r.subject \in Ids
  BY <1>2 DEF Checked, AdminPlaces
<1>4. UNCHANGED <<tables, history>> /\ ~Pending(c)
  BY DEF CountAdmins, Pending, At
<1>5. CASE MayLeave
  <2> DEFINE x == With(r, "revoke", r.subject)
  <2>1. x \in Call /\ Moves(c, x)
    BY <1>1, <1>5, GotoMoves DEF CountAdmins, Inv, Places, AdminPlaces
  <2>2. \E v \in admins : v # r.subject
    BY <1>5, OtherAdmin DEF Inv
  <2>3. Checked(x) /\ Backed(x)
    BY <1>3, <2>2 DEF Checked, Backed, With
  <2> HIDE DEF x
  <2> QED BY <1>4, <2>1, <2>3, QuietStep
<1>6. CASE ~MayLeave
  BY <1>4, <1>6, EndStep DEF CountAdmins
<1> QED BY <1>5, <1>6

\* A removal: of all other calls that have checked something, none stands on it any more.
LEMMA RevokeStep ==
  ASSUME Inv, NEW c \in Slots, RevokeAdmin(c) \/ PurgeAdmin(c)
  PROVE  /\ Inv'
         /\ admins # {} /\ admins' = {} =>
               \E d \in Slots : call[d] # Idle /\ call[d].overtaken /\ call'[d] = Idle
<1>1. PICK r \in Call : r = call[c]
  BY UnderWay DEF Inv, RevokeAdmin, PurgeAdmin, At
<1>2. r.at \in {"revoke", "purge"} /\ Checked(r) /\ Backed(r) /\ call[c] # Idle
  BY <1>1 DEF RevokeAdmin, PurgeAdmin, At, Inv, CallsSound
<1>3. PICK u \in Ids : u = r.subject /\ Revoke(c, u)
  BY <1>1, <1>2 DEF RevokeAdmin, PurgeAdmin, Checked
<1>4. /\ admins' = admins \ {u} /\ UNCHANGED <<accounts, users, adminGroup, complete, mishap, wayIn>>
      /\ revoked' = IF u \in admins THEN revoked \cup {u} ELSE revoked
  BY <1>3 DEF Revoke
<1>5. call'[c] = Idle
  BY <1>3 DEF Revoke
<1> DEFINE Late(d) == u \in admins /\ call[d] # Idle /\ call[d].at \in AdminPlaces
           Overtaken(q) == [at |-> q.at, by |-> q.by, subject |-> q.subject, overtaken |-> TRUE]
<1>6. ASSUME NEW d \in Slots, d # c
      PROVE  call'[d] = IF Late(d) THEN Overtaken(call[d]) ELSE call[d]
  <2>1. call'[d] = IF Late(d) THEN [call[d] EXCEPT !.overtaken = TRUE] ELSE call[d]
    BY <1>3, <1>6 DEF Revoke
  <2>2. ASSUME Late(d) PROVE [call[d] EXCEPT !.overtaken = TRUE] = Overtaken(call[d])
    <3>1. PICK q \in Call : q = call[d]
      BY <2>2, UnderWay DEF Inv
    <3> QED BY <3>1, OvertakenFields
  <2> HIDE DEF Late, Overtaken
  <2> QED BY <2>1, <2>2
<1>7. Calls'
  <2>1. \A d \in Slots : call'[d] \in Call \cup {Idle}
    <3> SUFFICES ASSUME NEW d \in Slots, d # c PROVE call'[d] \in Call \cup {Idle}
      BY <1>5
    <3>1. CASE Late(d)
      <4>1. call[d] \in Call
        BY <3>1, UnderWay DEF Inv
      <4>2. Overtaken(call[d]) \in Call
        BY <4>1 DEF Call
      <4> QED BY <1>6, <3>1, <4>2
    <3>2. CASE ~Late(d)
      BY <1>6, <3>2 DEF Inv, Calls
    <3> QED BY <3>1, <3>2
  <2>2. call' = [d \in Slots |-> call'[d]]
    BY <1>3 DEF Revoke
  <2> HIDE DEF Late, Overtaken
  <2> QED BY <2>1, <2>2 DEF Calls
<1>8. ASSUME NEW d \in Slots, NEW q, q = call'[d], q # Idle PROVE Checked(q) /\ Backed(q)'
  <2>0. d # c
    BY <1>5, <1>8
  <2>1. CASE Late(d)
    <3>1. call[d] \in Call /\ Checked(call[d]) /\ Backed(call[d])
      BY <2>1, UnderWay DEF Inv, CallsSound
    <3>2. /\ q.at = call[d].at /\ q.by = call[d].by /\ q.subject = call[d].subject /\ q.overtaken
      <4> HIDE DEF Late
      <4>1. q = Overtaken(call[d])
        BY <1>6, <1>8, <2>0, <2>1
      <4> QED BY <4>1
    <3> QED BY <1>4, <3>1, <3>2 DEF Checked, Backed
  <2>2. CASE ~Late(d)
    <3>1. q = call[d] /\ Checked(q) /\ Backed(q)
      BY <1>6, <1>8, <2>0, <2>2 DEF Inv, CallsSound
    <3>2. u \notin admins \/ q.at \notin AdminPlaces
      BY <1>8, <2>2, <3>1
    <3>3. CASE u \notin admins
      <4>1. admins' = admins
        BY <1>4, <3>3
      <4> QED BY <1>4, <3>1, <4>1 DEF Backed
    <3>4. CASE q.at \notin AdminPlaces
      BY <1>4, <3>1, <3>4 DEF Backed, AdminPlaces
    <3> QED BY <3>1, <3>2, <3>3, <3>4
  <2> QED BY <2>1, <2>2
<1>9. CallsSound'
  BY <1>8 DEF CallsSound, Checked, Backed
<1>10. WayIn'
  <2>1. ~Pending(c)
    BY <1>1, <1>2 DEF Pending, At
  <2>2. ASSUME NEW d \in Slots, Pending(d) PROVE Pending(d)'
    <3>1. d # c /\ ~Late(d)
      BY <2>1, <2>2 DEF Pending, At, AdminPlaces
    <3>2. call'[d] = call[d]
      BY <1>6, <3>1
    <3> QED BY <2>2, <3>2 DEF Pending, At
  <2> QED BY <1>4, <2>2 DEF Inv, WayIn
<1>11. TablesOK' /\ RevokedStaysOut'
  BY <1>4 DEF Inv, TablesOK, RevokedStaysOut
<1>12. ASSUME admins' = {}, ~call[c].overtaken PROVE FALSE
  BY <1>1, <1>2, <1>3, <1>4, <1>12 DEF Backed
<1> QED BY <1>2, <1>5, <1>7, <1>9, <1>10, <1>11, <1>12 DEF Inv

LEMMA DeleteStep ==
  ASSUME Inv, NEW c \in Slots, DeleteUser(c)
  PROVE  Inv'
<1>1. PICK r \in Call : r = call[c]
  BY UnderWay DEF Inv, DeleteUser, At
<1>2. r.at = "delete" /\ Checked(r) /\ Backed(r) /\ call[c] # Idle
  BY <1>1 DEF DeleteUser, At, Inv, CallsSound
<1>3. UNCHANGED <<accounts, admins, adminGroup, complete, history>> /\ users' \subseteq users /\ ~Pending(c)
  BY DEF DeleteUser, Pending, At
<1>4. Calls' /\ CallsSound' /\ WayIn'
  <2>1. CASE Goto(c, "purge")
    <3> DEFINE x == With(r, "purge", r.subject)
    <3>1. x \in Call /\ Moves(c, x)
      BY <1>1, <2>1, GotoMoves DEF Inv, Places, AdminPlaces
    <3>2. Checked(x) /\ Backed(x)'
      BY <1>2, <1>3 DEF Checked, Backed, With, AdminPlaces
    <3> HIDE DEF x
    <3> QED BY <1>3, <3>1, <3>2, CallMoves, WayInKept DEF Inv, history
  <2>2. CASE End(c)
    <3>1. Moves(c, Idle)
      BY <2>2 DEF End, Moves
    <3> QED BY <1>3, <3>1, CallMoves, WayInKept DEF Inv, history
  <2> QED BY <2>1, <2>2 DEF DeleteUser
<1>5. TablesOK' /\ RevokedStaysOut'
  BY <1>3 DEF Inv, TablesOK, RevokedStaysOut, history
<1> QED BY <1>4, <1>5 DEF Inv

LEMMA ConfigureStep ==
  ASSUME Inv, NEW c \in Slots, NEW group \in BOOLEAN, ConfigureGroup(c, group)
  PROVE  Inv'
<1>1. Moves(c, Idle) /\ ~Pending(c) /\ UNCHANGED <<accounts, users, admins, complete, mishap, revoked>>
  BY DEF ConfigureGroup, End, Moves, Pending, At
<1>2. (wayIn => wayIn') /\ wayIn' \in BOOLEAN /\ adminGroup' \in BOOLEAN
  BY Zenon DEF ConfigureGroup, Inv, TablesOK
<1>3. Calls' /\ CallsSound' /\ WayIn'
  BY <1>1, <1>2, CallMoves, WayInKept DEF Inv
<1>4. TablesOK' /\ RevokedStaysOut'
  BY <1>1, <1>2 DEF Inv, TablesOK, RevokedStaysOut
<1> QED BY <1>3, <1>4 DEF Inv

(***************************************************************************)
(* The wizard, registration, and the start of a replica.                   *)
(***************************************************************************)
LEMMA SetupReads ==
  ASSUME Inv, NEW c \in Slots, BeginSetup(c) \/ ReadFlag(c) \/ CountAccounts(c)
  PROVE  Inv'
<1>0. UNCHANGED <<tables, history>> /\ ~Pending(c)
  BY DEF BeginSetup, Begin, ReadFlag, CountAccounts, Pending, At
<1>1. CASE BeginSetup(c)
  <2> DEFINE x == [at |-> "flag", by |-> None, subject |-> None, overtaken |-> FALSE]
  <2>1. x \in Call /\ Checked(x) /\ Backed(x)
    BY DEF Call, AuthPlaces, AdminPlaces, SetupPlaces, Checked, Backed
  <2>2. Moves(c, x)
    BY <1>1 DEF BeginSetup, Begin, Moves
  <2> HIDE DEF x
  <2> QED BY <1>0, <2>1, <2>2, QuietStep
<1>2. CASE ReadFlag(c) \/ CountAccounts(c)
  <2>1. PICK r \in Call : r = call[c]
    BY <1>2, UnderWay DEF Inv, ReadFlag, CountAccounts, At
  <2>2. r.by = None
    BY <1>2, <2>1 DEF ReadFlag, CountAccounts, At, Inv, CallsSound, Checked
  <2>3. ASSUME NEW place \in {"accounts", "account", "provider"}, Goto(c, place) PROVE Inv'
    <3> DEFINE x == With(r, place, r.subject)
    <3>1. x \in Call /\ Moves(c, x)
      BY <2>1, <2>3, GotoMoves DEF Inv, Places, SetupPlaces
    <3>2. Checked(x) /\ Backed(x)
      BY <2>2 DEF Checked, Backed, With, AuthPlaces, AdminPlaces
    <3> HIDE DEF x
    <3> QED BY <1>0, <3>1, <3>2, QuietStep
  <2>4. CASE End(c)
    BY <1>0, <2>4, EndStep
  <2> QED BY <1>2, <2>3, <2>4 DEF ReadFlag, CountAccounts
<1> QED BY <1>1, <1>2

LEMMA CreateAccountStep ==
  ASSUME Inv, NEW c \in Slots, NEW u \in Ids, CreateAccount(c, u)
  PROVE  Inv'
<1>1. PICK r \in Call : r = call[c]
  BY UnderWay DEF Inv, CreateAccount, At
<1> DEFINE x == [at |-> "user", by |-> u, subject |-> r.subject, overtaken |-> r.overtaken]
<1>2. [[r EXCEPT !.at = "user"] EXCEPT !.by = u] = x
  <2>1. [r EXCEPT !.at = "user"] = With(r, "user", r.subject)
    BY DEF Call, With
  <2>2. [With(r, "user", r.subject) EXCEPT !.by = u] = x
    BY DEF With
  <2> QED BY <2>1, <2>2
<1>3. call' = [call EXCEPT ![c] = [[r EXCEPT !.at = "user"] EXCEPT !.by = u]]
  BY <1>1 DEF CreateAccount, Inv, Calls
<1>4. x \in Call /\ Moves(c, x)
  BY <1>2, <1>3 DEF Call, SetupPlaces, Moves
<1>5. Checked(x) /\ Backed(x)' /\ x # Idle /\ x.at \in {"user", "admin"}
  BY <1>4, PlatformAssumption DEF Checked, Backed
<1>6. /\ UNCHANGED <<users, admins, adminGroup, complete, mishap, wayIn, revoked>>
      /\ accounts' = accounts \cup {u} /\ u \in LocalIds
  BY DEF CreateAccount, Registrable
<1> HIDE DEF x
<1>7. Calls' /\ CallsSound' /\ WayIn'
  BY <1>4, <1>5, <1>6, CallMoves, WayInKept DEF Inv
<1>8. TablesOK' /\ RevokedStaysOut'
  BY <1>6 DEF Inv, TablesOK, RevokedStaysOut
<1> QED BY <1>7, <1>8 DEF Inv

LEMMA SetupUserStep ==
  ASSUME Inv, NEW c \in Slots, SetupUser(c)
  PROVE  Inv'
<1>1. PICK r \in Call : r = call[c]
  BY UnderWay DEF Inv, SetupUser, At
<1>2. r.by \in Ids
  BY <1>1 DEF SetupUser, At, Inv, CallsSound, Checked
<1> DEFINE x == With(r, "admin", r.subject)
<1>3. x \in Call /\ Moves(c, x)
  BY <1>1, GotoMoves DEF SetupUser, Inv, Places, SetupPlaces, At
<1>4. Checked(x) /\ Backed(x)' /\ x # Idle /\ x.at \in {"user", "admin"}
  BY <1>2, <1>3, PlatformAssumption DEF Checked, Backed, With
<1>5. UNCHANGED <<accounts, admins, adminGroup, complete, history>>
  BY DEF SetupUser
<1> HIDE DEF x
<1>6. Calls' /\ CallsSound' /\ WayIn'
  BY <1>3, <1>4, <1>5, CallMoves, WayInKept DEF Inv, history
<1>7. users' \subseteq Ids /\ \A u, v \in users' : Email[u] = Email[v] => u = v
  BY <1>1, <1>2 DEF SetupUser, Upserted, Named, Inv, TablesOK
<1>8. TablesOK' /\ RevokedStaysOut'
  BY <1>5, <1>7 DEF Inv, TablesOK, RevokedStaysOut, history
<1> QED BY <1>6, <1>8 DEF Inv

LEMMA ProviderStep ==
  ASSUME Inv, NEW c \in Slots, SetupNoProvider(c) \/ \E group \in BOOLEAN : SetupProvider(c, group)
  PROVE  Inv'
<1>1. PICK r \in Call : r = call[c]
  BY UnderWay DEF Inv, SetupNoProvider, SetupProvider, At
<1>2. Goto(c, "mark") /\ ~Pending(c) /\ UNCHANGED <<accounts, users, admins, complete, mishap, revoked>>
  BY DEF SetupNoProvider, SetupProvider, Pending, At, tables, history
<1>3. r.by = None \/ wayIn \/ mishap
  BY <1>1 DEF SetupNoProvider, SetupProvider, At, Inv, CallsSound, Backed
<1>4. (wayIn => wayIn') /\ wayIn' \in BOOLEAN /\ adminGroup' \in BOOLEAN
  BY Zenon DEF SetupNoProvider, SetupProvider, tables, history, Inv, TablesOK
<1>5. wayIn' \/ mishap'
  <2>1. SetupNoProvider(c) => r.by # None
    BY <1>1 DEF SetupNoProvider
  <2>2. ASSUME NEW group \in BOOLEAN, SetupProvider(c, group), r.by = None PROVE wayIn'
    BY <1>1, <2>2, Zenon DEF SetupProvider
  <2> QED BY <1>2, <1>3, <1>4, <2>1, <2>2
<1> DEFINE x == With(r, "mark", r.subject)
<1>6. x \in Call /\ Moves(c, x)
  BY <1>1, <1>2, GotoMoves DEF Inv, Places, SetupPlaces
<1>7. Checked(x) /\ Backed(x)'
  BY <1>5 DEF Checked, Backed, With, AuthPlaces, AdminPlaces
<1> HIDE DEF x
<1>8. Calls' /\ CallsSound' /\ WayIn'
  BY <1>2, <1>4, <1>6, <1>7, CallMoves, WayInKept DEF Inv
<1>9. TablesOK' /\ RevokedStaysOut'
  BY <1>2, <1>4 DEF Inv, TablesOK, RevokedStaysOut
<1> QED BY <1>8, <1>9 DEF Inv

LEMMA MarkStep ==
  ASSUME Inv, NEW c \in Slots, MarkComplete(c)
  PROVE  Inv'
<1>1. Moves(c, Idle) /\ UNCHANGED <<accounts, users, admins, adminGroup, history>> /\ complete'
  BY DEF MarkComplete, End, Moves
<1>2. wayIn \/ mishap
  BY DEF MarkComplete, At, Inv, CallsSound, Backed
<1>3. Calls' /\ CallsSound' /\ WayIn'
  BY <1>1, <1>2, CallMoves, WayInKept DEF Inv, history
<1>4. TablesOK' /\ RevokedStaysOut'
  BY <1>1 DEF MarkComplete, Inv, TablesOK, RevokedStaysOut, history
<1> QED BY <1>3, <1>4 DEF Inv

LEMMA MishapStep ==
  ASSUME Inv, NEW c \in Slots, SetupGoesOn(c)
  PROVE  Inv'
<1>1. PICK r \in Call : r = call[c]
  BY UnderWay DEF Inv, SetupGoesOn, At
<1>2. mishap' = TRUE /\ UNCHANGED <<tables, wayIn, revoked>>
  BY DEF SetupGoesOn
<1>3. Calls' /\ CallsSound'
  <2>1. CASE At(c, "user") /\ Goto(c, "admin")
    <3> DEFINE x == With(r, "admin", r.subject)
    <3>1. x \in Call /\ Moves(c, x)
      BY <1>1, <2>1, GotoMoves DEF Inv, Places, SetupPlaces
    <3>2. r.by \in Ids
      BY <1>1, <2>1 DEF At, Inv, CallsSound, Checked
    <3>3. Checked(x) /\ Backed(x)'
      BY <3>2 DEF Checked, Backed, With
    <3> HIDE DEF x
    <3> QED BY <1>2, <3>1, <3>3, CallMoves DEF Inv, tables
  <2>2. ASSUME NEW place \in {"provider", "mark"}, Goto(c, place) PROVE Calls' /\ CallsSound'
    <3> DEFINE x == With(r, place, r.subject)
    <3>1. x \in Call /\ Moves(c, x)
      BY <1>1, <2>2, GotoMoves DEF Inv, Places, SetupPlaces
    <3>2. Checked(x) /\ Backed(x)'
      BY <1>2 DEF Checked, Backed, With, AuthPlaces, AdminPlaces
    <3> HIDE DEF x
    <3> QED BY <1>2, <3>1, <3>2, CallMoves DEF Inv, tables
  <2>3. CASE End(c)
    BY <1>2, <2>3, CallMoves DEF Inv, tables, End, Moves
  <2> QED BY <2>1, <2>2, <2>3 DEF SetupGoesOn
<1>4. TablesOK' /\ RevokedStaysOut' /\ WayIn'
  BY <1>2 DEF Inv, TablesOK, RevokedStaysOut, WayIn, tables
<1> QED BY <1>3, <1>4 DEF Inv

LEMMA StopStep ==
  ASSUME Inv, NEW c \in Slots, Stop(c)
  PROVE  Inv'
<1>1. Moves(c, Idle) /\ UNCHANGED <<tables, wayIn, revoked>>
  BY DEF Stop, End, Moves
<1>2. (mishap => mishap') /\ (Pending(c) => mishap') /\ mishap' \in BOOLEAN
  BY Zenon DEF Stop, SetupCalls, Pending, At, SetupPlaces, Inv, TablesOK
<1>3. Calls' /\ CallsSound' /\ WayIn'
  BY <1>1, <1>2, CallMoves, WayInKept DEF Inv, tables
<1>4. TablesOK' /\ RevokedStaysOut'
  BY <1>1, <1>2 DEF Inv, TablesOK, RevokedStaysOut, tables
<1> QED BY <1>3, <1>4 DEF Inv

LEMMA SeedLooksStep ==
  ASSUME Inv, NEW c \in Slots, SeedLooks(c)
  PROVE  Inv'
<1>1. PICK u \in Named(SeedEmail) : Begin(c, u, "seed")
  BY DEF SeedLooks
<1> DEFINE x == [at |-> "seed", by |-> u, subject |-> None, overtaken |-> FALSE]
<1>2. u \in Ids /\ Email[u] = SeedEmail
  BY DEF Named, Inv, TablesOK
<1>3. x \in Call /\ Checked(x) /\ Backed(x)
  BY <1>2 DEF Call, Checked, Backed
<1>4. Moves(c, x) /\ ~Pending(c) /\ UNCHANGED <<tables, history>>
  BY <1>1 DEF SeedLooks, Begin, Moves, Pending, At
<1> HIDE DEF x
<1> QED BY <1>3, <1>4, QuietStep

LEMMA OutsideSteps ==
  ASSUME Inv, AutoComplete \/ (\E u \in Ids : Register(u)) \/ UNCHANGED vars
  PROVE  Inv'
<1>1. UNCHANGED <<users, admins, adminGroup, call, wayIn, revoked>>
  BY DEF AutoComplete, Register, vars, tables, history
<1>2. mishap => mishap'
  BY DEF AutoComplete, Register, vars, history
<1>3. Calls' /\ CallsSound'
  BY <1>1, <1>2 DEF Inv, Calls, CallsSound, Checked, Backed
<1>4. WayIn'
  <2>1. mishap' \/ accounts # {} \/ complete \/ (accounts' = {} /\ ~complete')
    BY DEF AutoComplete, Register, vars, tables
  <2> QED BY <1>1, <1>2, <2>1 DEF Inv, WayIn, Pending, At
<1>5. TablesOK' /\ RevokedStaysOut'
  BY <1>1 DEF AutoComplete, Register, Registrable, vars, tables, history, Inv, TablesOK, RevokedStaysOut
<1> QED BY <1>3, <1>4, <1>5 DEF Inv

LEMMA NextInv == Inv /\ [Next]_vars => Inv'
<1> SUFFICES ASSUME Inv, [Next]_vars PROVE Inv'
  OBVIOUS
<1>1. ASSUME NEW c \in Slots, Authenticate(c) PROVE Inv'
  BY <1>1, RequestStep, UpsertStep, FindPriorStep, ReadPriorStep, SkipStep, CheckSuperStep, GrantSteps
  DEF Authenticate
<1>2. ASSUME NEW c \in Slots, Handle(c) PROVE Inv'
  BY <1>2, ConfigureStep, FindGranteeStep, GrantSteps, CountStep, RevokeStep, DeleteStep DEF Handle
<1>3. ASSUME NEW c \in Slots, Setup(c) PROVE Inv'
  BY <1>3, SetupReads, CreateAccountStep, SetupUserStep, GrantSteps, ProviderStep, MarkStep, MishapStep DEF Setup
<1>4. ASSUME NEW c \in Slots, Stop(c) \/ SeedLooks(c) \/ SeedGrants(c) PROVE Inv'
  BY <1>4, StopStep, SeedLooksStep, GrantSteps
<1> QED BY <1>1, <1>2, <1>3, <1>4, OutsideSteps DEF Next

LEMMA Invariant == Spec => []Inv
BY InitInv, NextInv, PTL DEF Spec

(***************************************************************************)
(* The theorems.                                                           *)
(***************************************************************************)

(* The tables and the calls stay in their types; in particular no two users  *)
(* have one email, whatever upserts and deletions interleave.                *)
THEOREM PlatformTyped == Spec => []TypeOK
<1>1. Inv => TypeOK
  BY DEF Inv, TablesOK, Calls, TypeOK
<1> QED BY Invariant, <1>1, PTL

(* Setup never closes behind nobody (setup.go, service.go:                   *)
(* autoCompleteSetupForExistingDeployments), but for a wizard cut short or   *)
(* an account registered before it.                                          *)
THEOREM SetupLeavesAWayIn == Spec => []SetupLeavesWayIn
<1>1. Inv => SetupLeavesWayIn
  BY DEF Inv, WayIn, SetupLeavesWayIn, Pending
<1> QED BY Invariant, <1>1, PTL

(* A revoked administrator is not one again without a grant, but for the     *)
(* seed, the group and a second subject of the same email.                   *)
THEOREM RevokedStayOut == Spec => []RevokedStaysOut
<1>1. Inv => RevokedStaysOut
  BY DEF Inv
<1> QED BY Invariant, <1>1, PTL

(* The last administrator goes only by a removal that another overtook after *)
(* its checks (platform.go:168).                                             *)
THEOREM LastAdminLeaves == Spec => LastAdminLeavesByRace
<1> DEFINE A == admins # {} /\ admins' = {} =>
                   \E c \in Slots : call[c] # Idle /\ call[c].overtaken /\ call'[c] = Idle
<1>1. Inv /\ [Next]_vars => [A]_vars
  <2> SUFFICES ASSUME Inv, [Next]_vars, admins # {}, admins' = {}
               PROVE  \E c \in Slots : call[c] # Idle /\ call[c].overtaken /\ call'[c] = Idle
    OBVIOUS
  <2>1. \E c \in Slots : RevokeAdmin(c) \/ PurgeAdmin(c)
    <3>1. ASSUME NEW c \in Slots, Authenticate(c) PROVE FALSE
      BY <3>1 DEF Authenticate, Request, UpsertUser, FindPrior, ReadPriorAdmin, InheritAdmin, CheckGroup,
         GrantByGroup, SkipMerge, CheckSuper, Grant, tables
    <3>2. ASSUME NEW c \in Slots, Handle(c) PROVE RevokeAdmin(c) \/ PurgeAdmin(c)
      BY <3>2 DEF Handle, ConfigureGroup, FindGrantee, GrantAdmin, CountAdmins, DeleteUser, Grant, tables
    <3>3. ASSUME NEW c \in Slots, Setup(c) PROVE FALSE
      BY <3>3 DEF Setup, BeginSetup, ReadFlag, CountAccounts, CreateAccount, SetupUser, SetupAdmin, SetupProvider,
         SetupNoProvider, MarkComplete, SetupGoesOn, Grant, tables
    <3>4. ASSUME NEW c \in Slots, Stop(c) \/ SeedLooks(c) \/ SeedGrants(c) PROVE FALSE
      BY <3>4 DEF Stop, SeedLooks, SeedGrants, Grant, tables
    <3>5. ~(AutoComplete \/ (\E u \in Ids : Register(u)) \/ UNCHANGED vars)
      BY DEF AutoComplete, Register, vars, tables
    <3> QED BY <3>1, <3>2, <3>3, <3>4, <3>5 DEF Next
  <2> QED BY <2>1, RevokeStep
<1> QED BY Invariant, <1>1, PTL DEF Spec, LastAdminLeavesByRace

=============================================================================
