----------------------------- MODULE TokensProofs -----------------------------
(***************************************************************************)
(* The tables of tokens: the grants that tokens are provisioned from, and  *)
(* the tenants that routes and tokens name.                                *)
(***************************************************************************)
EXTENDS Provisioning, Tenancy, FiniteSetTheorems, TLAPS

(***************************************************************************)
(* Provisioning keeps its ledger, for any number of grants, calls and      *)
(* uses, and implements GrantQuota.                                        *)
(***************************************************************************)

\* A call keeps the quota of the grant it read, for as long as that row exists.
CallsKnowGrant ==
    \A c \in Agents : call[c] # NoCall =>
        /\ grant[call[c].grant] # NoGrant
        /\ Exists(call[c].grant) => call[c].maxUses = grant[call[c].grant].maxUses

\* Nothing was issued, or is about to be, on a grant that is not created yet.
UnbornIsEmpty ==
    \A g \in Grants : grant[g] = NoGrant => issued[g] + Pending(g) = 0

IInv ==
    /\ TypeOK
    /\ CallsKnowGrant
    /\ UnbornIsEmpty
    /\ UsesCoverTokens
    /\ TrailFollowsTokens

Num(g, place) == Cardinality(Place(g, place))

-----------------------------------------------------------------------------
(* How the number of calls at a place changes with one call.               *)

LEMMA PlaceFinite ==
    ASSUME NEW g, NEW place
    PROVE  IsFiniteSet(Place(g, place)) /\ Num(g, place) \in Nat
<1>1. Place(g, place) \subseteq Agents
  BY DEF Place
<1>2. IsFiniteSet(Place(g, place))
  BY <1>1, FS_Subset, ProvisioningAssumption
<1> QED BY <1>2, FS_CardinalityType DEF Num

\* A call with value v that replaces the call of slot c is counted where v is.
Holds(v, g, place) == v # NoCall /\ v.at = place /\ v.grant = g

LEMMA NumChange ==
    ASSUME TypeOK, NEW c \in Agents, NEW v \in Call \cup {NoCall},
           call' = [call EXCEPT ![c] = v], NEW g \in Grants, NEW place
    PROVE  /\ Num(g, place) \in Nat /\ Num(g, place)' \in Nat
           /\ (Holds(call[c], g, place) <=> Holds(v, g, place))
                => Num(g, place)' = Num(g, place)
           /\ Holds(call[c], g, place) /\ ~Holds(v, g, place)
                => Num(g, place)' = Num(g, place) - 1 /\ Num(g, place) > 0
           /\ ~Holds(call[c], g, place) /\ Holds(v, g, place)
                => Num(g, place)' = Num(g, place) + 1
<1> DEFINE S == Place(g, place)
           T == Place(g, place)'
<1>1. S = {d \in Agents : Holds(call[d], g, place)}
  BY DEF Place, At, Holds
<1>2. T = {d \in Agents : Holds(call'[d], g, place)}
  BY DEF Place, At, Holds
<1>3. call'[c] = v /\ \A d \in Agents \ {c} : call'[d] = call[d]
  BY DEF TypeOK
<1>4. IsFiniteSet(S) /\ Cardinality(S) \in Nat /\ Num(g, place) = Cardinality(S)
  BY PlaceFinite DEF Num
<1>5. Num(g, place)' = Cardinality(T)
  BY DEF Num
<1> HIDE DEF S, T
<1>6. CASE Holds(call[c], g, place) <=> Holds(v, g, place)
  <2>1. T = S BY <1>1, <1>2, <1>3, <1>6
  <2> QED BY <1>4, <1>5, <1>6, <2>1
<1>7. CASE Holds(call[c], g, place) /\ ~Holds(v, g, place)
  <2>1. T = S \ {c} /\ c \in S BY <1>1, <1>2, <1>3, <1>7
  <2>2. Cardinality(T) = Cardinality(S) - 1
    BY <2>1, <1>4, FS_RemoveElement
  <2>3. IsFiniteSet(T) /\ Cardinality(T) \in Nat
    BY <2>1, <1>4, FS_RemoveElement, FS_CardinalityType
  <2> QED BY <1>4, <1>5, <1>7, <2>2, <2>3
<1>8. CASE ~Holds(call[c], g, place) /\ Holds(v, g, place)
  <2>1. T = S \cup {c} /\ c \notin S BY <1>1, <1>2, <1>3, <1>8
  <2>2. Cardinality(T) = Cardinality(S) + 1
    BY <2>1, <1>4, FS_AddElement
  <2> QED BY <1>4, <1>5, <1>8, <2>2
<1> QED BY <1>6, <1>7, <1>8

LEMMA NumSame ==
    ASSUME UNCHANGED call, NEW g, NEW place
    PROVE  Num(g, place)' = Num(g, place)
BY DEF Num, Place, At

\* The ledger, grant by grant, in these terms.
Ledger(g) ==
    /\ grant[g] = NoGrant => issued[g] + Num(g, "counted") = 0
    /\ Exists(g) => /\ issued[g] + Num(g, "counted") <= grant[g].useCount
                    /\ grant[g].useCount <= grant[g].maxUses
    /\ trail[g] + Num(g, "issued") <= issued[g]

LEMMA LedgerIs ==
    UnbornIsEmpty /\ UsesCoverTokens /\ TrailFollowsTokens <=> \A g \in Grants : Ledger(g)
BY DEF UnbornIsEmpty, UsesCoverTokens, TrailFollowsTokens, Ledger, Pending, Num

LEMMA LedgerIsNext ==
    (UnbornIsEmpty /\ UsesCoverTokens /\ TrailFollowsTokens)' <=> \A g \in Grants : Ledger(g)'
BY DEF UnbornIsEmpty, UsesCoverTokens, TrailFollowsTokens, Ledger, Pending, Num

-----------------------------------------------------------------------------
(* The invariant, action by action.                                        *)

LEMMA InitIInv == Init => IInv
<1> SUFFICES ASSUME Init PROVE IInv
  OBVIOUS
<1>1. TypeOK /\ CallsKnowGrant
  BY DEF Init, TypeOK, CallsKnowGrant
<1>2. ASSUME NEW g \in Grants PROVE Ledger(g)
  <2>1. ASSUME NEW place PROVE Num(g, place) = 0
    <3>1. Place(g, place) = {} BY DEF Init, Place, At
    <3> QED BY <3>1, FS_EmptySet DEF Num
  <2> QED BY <2>1 DEF Init, Ledger, Exists
<1> QED BY <1>1, <1>2, LedgerIs DEF IInv

\* Steps that move no call: the operator's and the clock's.
LEMMA CreateGrantIInv ==
    ASSUME IInv, NEW g \in Grants, NEW n \in Quotas, CreateGrant(g, n) PROVE IInv'
<1> DEFINE new == [maxUses |-> n, useCount |-> 0, expired |-> FALSE]
<1>1. new \in Grant BY ProvisioningAssumption DEF Grant
<1>2. new \notin {NoGrant, Deleted} BY <1>1, ProvisioningAssumption
<1>3. grant' = [grant EXCEPT ![g] = new] /\ UNCHANGED <<call, issued, trail>> /\ grant[g] = NoGrant
  BY DEF CreateGrant
<1>4. TypeOK' BY <1>1, <1>3 DEF IInv, TypeOK
<1>5. CallsKnowGrant'
  BY <1>2, <1>3 DEF IInv, TypeOK, CallsKnowGrant, Exists, Call
<1>6. ASSUME NEW h \in Grants PROVE Ledger(h)'
  <2>1. Ledger(h) BY LedgerIs DEF IInv
  <2>2. Num(h, "counted")' = Num(h, "counted") /\ Num(h, "issued")' = Num(h, "issued")
    BY <1>3, NumSame
  <2>3. CASE h = g
    <3>1. grant'[g] = new BY <1>3 DEF IInv, TypeOK
    <3>2. n \in Nat /\ 0 <= n BY ProvisioningAssumption
    <3> QED BY <1>2, <1>3, <2>1, <2>2, <2>3, <3>1, <3>2 DEF Ledger, Exists
  <2>4. CASE h # g
    BY <1>3, <2>1, <2>2, <2>4 DEF Ledger, Exists, IInv, TypeOK
  <2> QED BY <2>3, <2>4
<1> QED BY <1>4, <1>5, <1>6, LedgerIsNext DEF IInv

LEMMA DeleteGrantIInv ==
    ASSUME IInv, NEW g \in Grants, DeleteGrant(g) PROVE IInv'
<1>1. grant' = [grant EXCEPT ![g] = Deleted] /\ UNCHANGED <<call, issued, trail>> /\ Exists(g)
  BY DEF DeleteGrant
<1>2. TypeOK' BY <1>1 DEF IInv, TypeOK
<1>3. CallsKnowGrant'
  BY <1>1, ProvisioningAssumption DEF IInv, TypeOK, CallsKnowGrant, Exists, Call
<1>4. ASSUME NEW h \in Grants PROVE Ledger(h)'
  <2>1. Ledger(h) BY LedgerIs DEF IInv
  <2>2. Num(h, "counted")' = Num(h, "counted") /\ Num(h, "issued")' = Num(h, "issued")
    BY <1>1, NumSame
  <2> QED BY <1>1, <2>1, <2>2, ProvisioningAssumption DEF Ledger, Exists, IInv, TypeOK
<1> QED BY <1>2, <1>3, <1>4, LedgerIsNext DEF IInv

LEMMA ExpireIInv ==
    ASSUME IInv, NEW g \in Grants, Expire(g) PROVE IInv'
<1> DEFINE late == [grant[g] EXCEPT !.expired = TRUE]
<1>1. grant' = [grant EXCEPT ![g] = late] /\ UNCHANGED <<call, issued, trail>> /\ Exists(g)
  BY DEF Expire, Live
<1>2. grant[g] \in Grant BY <1>1 DEF IInv, TypeOK, Exists
<1>3. /\ late \in Grant /\ late.maxUses = grant[g].maxUses
      /\ late.useCount = grant[g].useCount
  BY <1>2 DEF Grant
<1>4. late \notin {NoGrant, Deleted} BY <1>3, ProvisioningAssumption
<1>5. TypeOK' BY <1>1, <1>3 DEF IInv, TypeOK
<1>6. CallsKnowGrant'
  BY <1>1, <1>3, <1>4 DEF IInv, TypeOK, CallsKnowGrant, Exists, Call
<1>7. ASSUME NEW h \in Grants PROVE Ledger(h)'
  <2>1. Ledger(h) BY LedgerIs DEF IInv
  <2>2. Num(h, "counted")' = Num(h, "counted") /\ Num(h, "issued")' = Num(h, "issued")
    BY <1>1, NumSame
  <2> QED BY <1>1, <1>3, <1>4, <2>1, <2>2 DEF Ledger, Exists, IInv, TypeOK
<1> QED BY <1>5, <1>6, <1>7, LedgerIsNext DEF IInv

\* A call that holds neither before nor after is not counted.
LEMMA NumSteady ==
    ASSUME TypeOK, NEW c \in Agents, NEW v \in Call \cup {NoCall},
           call' = [call EXCEPT ![c] = v], NEW g \in Grants, NEW place,
           ~Holds(call[c], g, place), ~Holds(v, g, place)
    PROVE  Num(g, place)' = Num(g, place)
BY NumChange

\* Steps of a call.
LEMMA ReadGrantIInv ==
    ASSUME IInv, NEW c \in Agents, NEW g \in Grants, ReadGrant(c, g) PROVE IInv'
<1> DEFINE v == [grant |-> g, maxUses |-> grant[g].maxUses, at |-> "read"]
<1>1. call' = [call EXCEPT ![c] = v] /\ UNCHANGED <<grant, issued, trail>>
      /\ call[c] = NoCall /\ Exists(g)
  BY DEF ReadGrant, Live
<1>2. grant[g] \in Grant /\ grant[g] # NoGrant BY <1>1 DEF IInv, TypeOK, Exists
<1>3. v \in Call BY <1>2 DEF Grant, Call
<1>4. TypeOK' BY <1>1, <1>3 DEF IInv, TypeOK
<1>5. CallsKnowGrant'
  BY <1>1, <1>2, <1>3 DEF IInv, TypeOK, CallsKnowGrant, Exists
<1>6. ASSUME NEW h \in Grants PROVE Ledger(h)'
  <2>1. Ledger(h) BY LedgerIs DEF IInv
  <2>2. ASSUME NEW place \in {"counted", "issued"} PROVE Num(h, place)' = Num(h, place)
    <3>1. ~Holds(call[c], h, place) /\ ~Holds(v, h, place)
      BY <1>1 DEF Holds
    <3>2. TypeOK /\ v \in Call \cup {NoCall} BY <1>3 DEF IInv
    <3>3. call' = [call EXCEPT ![c] = v] BY <1>1
    <3> HIDE DEF v
    <3> QED BY <3>1, <3>2, <3>3, NumSteady
  <2> QED BY <1>1, <2>1, <2>2 DEF Ledger, Exists
<1> QED BY <1>4, <1>5, <1>6, LedgerIsNext DEF IInv

LEMMA CountUseIInv ==
    ASSUME IInv, NEW c \in Agents, CountUse(c) PROVE IInv'
<1> DEFINE v == [call[c] EXCEPT !.at = "counted"]
           g == call[c].grant
           row == [grant[g] EXCEPT !.useCount = grant[g].useCount + 1]
<1>1. /\ call' = [call EXCEPT ![c] = v] /\ grant' = [grant EXCEPT ![g] = row]
      /\ UNCHANGED <<issued, trail>>
      /\ call[c] # NoCall /\ call[c].at = "read" /\ Exists(g)
      /\ grant[g].useCount < call[c].maxUses
  BY DEF CountUse, At, MayCount, Live
<1>2. call[c] \in Call /\ g \in Grants BY <1>1 DEF IInv, TypeOK, Call
<1>3. /\ v \in Call /\ v.grant = g /\ v.maxUses = call[c].maxUses /\ v.at = "counted"
      /\ v # NoCall
  BY <1>2, ProvisioningAssumption DEF Call
<1>4. grant[g] \in Grant BY <1>1, <1>2 DEF IInv, TypeOK, Exists
<1>5. /\ row \in Grant /\ row.useCount = grant[g].useCount + 1
      /\ row.maxUses = grant[g].maxUses /\ row \notin {NoGrant, Deleted}
  BY <1>4, ProvisioningAssumption DEF Grant
<1>6. call[c].maxUses = grant[g].maxUses
  BY <1>1, <1>2 DEF IInv, CallsKnowGrant
<1>a. TypeOK /\ v \in Call \cup {NoCall} /\ call' = [call EXCEPT ![c] = v]
  BY <1>1, <1>3 DEF IInv
<1> HIDE DEF row, v
<1>7. TypeOK' BY <1>1, <1>2, <1>3, <1>5 DEF IInv, TypeOK
<1>8. CallsKnowGrant'
  BY <1>1, <1>2, <1>3, <1>5, <1>6 DEF IInv, TypeOK, CallsKnowGrant, Exists
<1>9. ASSUME NEW h \in Grants PROVE Ledger(h)'
  <2>1. Ledger(h) BY LedgerIs DEF IInv
  <2>2. Num(h, "issued")' = Num(h, "issued")
    <3>1. ~Holds(call[c], h, "issued") /\ ~Holds(v, h, "issued") BY <1>1, <1>3 DEF Holds
    <3> QED BY <1>a, <3>1, NumChange
  <2>3. CASE h = g
    <3>1. Num(h, "counted")' = Num(h, "counted") + 1 /\ Num(h, "counted") \in Nat
      <4>1. ~Holds(call[c], h, "counted") /\ Holds(v, h, "counted")
        BY <1>1, <1>3, <2>3 DEF Holds
      <4> QED BY <1>a, <4>1, NumChange
    <3>2. grant'[h] = row /\ grant[h] # NoGrant
      BY <1>1, <1>2, <2>3 DEF IInv, TypeOK, Exists
    <3>3. issued[h] \in Nat /\ grant[g].useCount \in Nat /\ grant[g].maxUses \in Nat
      BY <1>4 DEF IInv, TypeOK, Grant
    <3> QED BY <1>1, <1>5, <1>6, <2>1, <2>2, <2>3, <3>1, <3>2, <3>3 DEF Ledger, Exists
  <2>4. CASE h # g
    <3>1. Num(h, "counted")' = Num(h, "counted")
      <4>1. ~Holds(call[c], h, "counted") /\ ~Holds(v, h, "counted")
        BY <1>3, <2>4 DEF Holds
      <4> QED BY <1>a, <4>1, NumChange
    <3> QED BY <1>1, <1>2, <2>1, <2>2, <2>4, <3>1 DEF Ledger, Exists, IInv, TypeOK
  <2> QED BY <2>3, <2>4
<1> QED BY <1>7, <1>8, <1>9, LedgerIsNext DEF IInv

LEMMA CreateTokenIInv ==
    ASSUME IInv, NEW c \in Agents, CreateToken(c) PROVE IInv'
<1> DEFINE v == [call[c] EXCEPT !.at = "issued"]
           g == call[c].grant
<1>1. /\ call' = [call EXCEPT ![c] = v] /\ issued' = [issued EXCEPT ![g] = issued[g] + 1]
      /\ UNCHANGED <<grant, trail>>
      /\ call[c] # NoCall /\ call[c].at = "counted"
  BY DEF CreateToken, At
<1>2. call[c] \in Call /\ g \in Grants BY <1>1 DEF IInv, TypeOK, Call
<1>3. /\ v \in Call /\ v.grant = g /\ v.maxUses = call[c].maxUses /\ v.at = "issued"
      /\ v # NoCall
  BY <1>2, ProvisioningAssumption DEF Call
<1>a. TypeOK /\ v \in Call \cup {NoCall} /\ call' = [call EXCEPT ![c] = v]
  BY <1>1, <1>3 DEF IInv
<1> HIDE DEF v
<1>4. TypeOK' BY <1>1, <1>2, <1>3 DEF IInv, TypeOK
<1>5. CallsKnowGrant'
  BY <1>1, <1>2, <1>3 DEF IInv, TypeOK, CallsKnowGrant, Exists
<1>6. ASSUME NEW h \in Grants PROVE Ledger(h)'
  <2>1. Ledger(h) BY LedgerIs DEF IInv
  <2>2. CASE h = g
    <3>1. /\ Num(h, "counted")' = Num(h, "counted") - 1
          /\ Num(h, "counted") \in Nat /\ Num(h, "counted")' \in Nat
      <4>1. Holds(call[c], h, "counted") /\ ~Holds(v, h, "counted")
        BY <1>1, <1>3, <2>2 DEF Holds
      <4> QED BY <1>a, <4>1, NumChange
    <3>2. Num(h, "issued")' = Num(h, "issued") + 1 /\ Num(h, "issued") \in Nat
      <4>1. ~Holds(call[c], h, "issued") /\ Holds(v, h, "issued")
        BY <1>1, <1>3, <2>2 DEF Holds
      <4> QED BY <1>a, <4>1, NumChange
    <3>3. issued'[h] = issued[h] + 1 /\ issued[h] \in Nat /\ trail[h] \in Nat
      BY <1>1, <2>2 DEF IInv, TypeOK
    <3> QED BY <1>1, <2>1, <3>1, <3>2, <3>3 DEF Ledger, Exists
  <2>3. CASE h # g
    <3>1. ASSUME NEW place \in {"counted", "issued"} PROVE Num(h, place)' = Num(h, place)
      <4>1. ~Holds(call[c], h, place) /\ ~Holds(v, h, place) BY <1>3, <2>3 DEF Holds
      <4> QED BY <1>a, <4>1, NumChange
    <3> QED BY <1>1, <1>2, <2>1, <2>3, <3>1 DEF Ledger, Exists, IInv, TypeOK
  <2> QED BY <2>2, <2>3
<1> QED BY <1>4, <1>5, <1>6, LedgerIsNext DEF IInv

\* The steps that end a call, with or without a row in the trail.
LEMMA EndIInv ==
    ASSUME IInv, NEW c \in Agents, RefuseUse(c) \/ RecordIssuance(c) \/ GiveUp(c) PROVE IInv'
<1> DEFINE g == call[c].grant
<1>1. /\ call' = [call EXCEPT ![c] = NoCall] /\ UNCHANGED <<grant, issued>>
      /\ call[c] # NoCall
      /\ \/ trail' = trail
         \/ call[c].at = "issued" /\ trail' = [trail EXCEPT ![g] = trail[g] + 1]
  BY DEF RefuseUse, RecordIssuance, GiveUp, At
<1>2. call[c] \in Call /\ g \in Grants BY <1>1 DEF IInv, TypeOK, Call
<1>3. TypeOK' BY <1>1, <1>2 DEF IInv, TypeOK
<1>4. CallsKnowGrant' BY <1>1 DEF IInv, TypeOK, CallsKnowGrant, Exists
<1>5. ASSUME NEW h \in Grants PROVE Ledger(h)'
  <2>1. Ledger(h) BY LedgerIs DEF IInv
  <2>2. ASSUME NEW place
        PROVE  /\ Num(h, place) \in Nat /\ Num(h, place)' \in Nat
               /\ Num(h, place)' <= Num(h, place)
               /\ Holds(call[c], h, place) => Num(h, place)' = Num(h, place) - 1
    <3>1. ~Holds(NoCall, h, place) BY DEF Holds
    <3>2. TypeOK /\ NoCall \in Call \cup {NoCall} /\ call' = [call EXCEPT ![c] = NoCall]
      BY <1>1 DEF IInv
    <3>3. CASE Holds(call[c], h, place)
      <4>1. /\ Num(h, place) \in Nat /\ Num(h, place)' \in Nat
            /\ Num(h, place)' = Num(h, place) - 1
        BY <3>1, <3>2, <3>3, NumChange
      <4> QED BY <4>1
    <3>4. CASE ~Holds(call[c], h, place)
      <4>1. Num(h, place) \in Nat /\ Num(h, place)' = Num(h, place)
        BY <3>1, <3>2, <3>4, NumChange
      <4> QED BY <3>4, <4>1
    <3> QED BY <3>3, <3>4
  <2>3. issued[h] \in Nat /\ trail[h] \in Nat BY DEF IInv, TypeOK
  <2>4. trail'[h] + Num(h, "issued")' <= trail[h] + Num(h, "issued")
    <3>1. CASE trail' = trail BY <2>2, <2>3, <3>1
    <3>2. CASE call[c].at = "issued" /\ trail' = [trail EXCEPT ![g] = trail[g] + 1]
      <4>1. CASE h = g
        <5>1. Holds(call[c], h, "issued") BY <1>1, <3>2, <4>1 DEF Holds
        <5>2. trail'[h] = trail[h] + 1 BY <3>2, <4>1 DEF IInv, TypeOK
        <5> QED BY <2>2, <2>3, <5>1, <5>2
      <4>2. CASE h # g
        <5>1. trail'[h] = trail[h] BY <1>2, <3>2, <4>2 DEF IInv, TypeOK
        <5> QED BY <2>2, <2>3, <5>1
      <4> QED BY <4>1, <4>2
    <3> QED BY <1>1, <3>1, <3>2
  <2>5. trail'[h] \in Nat BY <1>3 DEF TypeOK
  <2>6. issued[h] + Num(h, "counted")' <= issued[h] + Num(h, "counted")
    BY <2>2, <2>3
  <2>7. Exists(h) => grant[h].useCount \in Nat
    BY DEF IInv, TypeOK, Exists, Grant
  <2>8. trail'[h] + Num(h, "issued")' <= issued[h]
    BY <2>1, <2>2, <2>3, <2>4, <2>5 DEF Ledger
  <2> QED BY <1>1, <2>1, <2>2, <2>3, <2>6, <2>7, <2>8 DEF Ledger, Exists
<1> QED BY <1>3, <1>4, <1>5, LedgerIsNext DEF IInv

LEMMA NextIInv == IInv /\ [Next]_vars => IInv'
<1> SUFFICES ASSUME IInv, [Next]_vars PROVE IInv'
  OBVIOUS
<1>1. ASSUME NEW g \in Grants, NEW n \in Quotas, CreateGrant(g, n) PROVE IInv'
  BY <1>1, CreateGrantIInv
<1>2. ASSUME NEW g \in Grants, DeleteGrant(g) PROVE IInv' BY <1>2, DeleteGrantIInv
<1>3. ASSUME NEW g \in Grants, Expire(g) PROVE IInv' BY <1>3, ExpireIInv
<1>4. ASSUME NEW c \in Agents, NEW g \in Grants, ReadGrant(c, g) PROVE IInv'
  BY <1>4, ReadGrantIInv
<1>5. ASSUME NEW c \in Agents, CountUse(c) PROVE IInv' BY <1>5, CountUseIInv
<1>6. ASSUME NEW c \in Agents, CreateToken(c) PROVE IInv' BY <1>6, CreateTokenIInv
<1>7. ASSUME NEW c \in Agents, RefuseUse(c) \/ RecordIssuance(c) \/ GiveUp(c) PROVE IInv'
  BY <1>7, EndIInv
<1>8. CASE UNCHANGED vars
  <2>1. UNCHANGED <<grant, call, issued, trail>> BY <1>8 DEF vars
  <2>2. ASSUME NEW h \in Grants PROVE Ledger(h)'
    BY <2>1, LedgerIs, NumSame DEF IInv, Ledger, Exists
  <2>3. TypeOK' /\ CallsKnowGrant' BY <2>1 DEF IInv, TypeOK, CallsKnowGrant, Exists
  <2> QED BY <2>2, <2>3, LedgerIsNext DEF IInv
<1> QED BY <1>1, <1>2, <1>3, <1>4, <1>5, <1>6, <1>7, <1>8 DEF Next

\* The inductive invariant holds in every behaviour.
THEOREM SpecIInv == Spec => []IInv
<1>1. Init => IInv BY InitIInv
<1>2. IInv /\ [Next]_vars => IInv' BY NextIInv
<1> QED BY <1>1, <1>2, PTL DEF Spec

\* Grants, calls and counters keep their types, for any number of grants and agents.
THEOREM SpecTypeOK == Spec => []TypeOK
<1>1. IInv => TypeOK BY DEF IInv
<1> QED BY <1>1, SpecIInv, PTL

\* Whatever calls race, the tokens issued on a grant and those on their way fit in the
\* uses counted, and these in the grant's quota.
THEOREM SpecUsesCoverTokens == Spec => []UsesCoverTokens
<1>1. IInv => UsesCoverTokens BY DEF IInv
<1> QED BY <1>1, SpecIInv, PTL

\* The audit trail of a grant never has more rows than the grant has tokens.
THEOREM SpecTrailFollowsTokens == Spec => []TrailFollowsTokens
<1>1. IInv => TrailFollowsTokens BY DEF IInv
<1> QED BY <1>1, SpecIInv, PTL

-----------------------------------------------------------------------------
(* The refinement.  A step changes the allowance of at most one grant.      *)

QuotaStep == Quota!Next \/ UNCHANGED <<Offered, Allowance, issued>>

AllowanceFacts ==
    /\ Allowance \in [Grants -> Nat]
    /\ \A g \in Grants :
          /\ issued[g] \in Nat /\ Num(g, "counted") \in Nat /\ Left(g) \in Nat
          /\ Allowance[g] = issued[g] + Num(g, "counted") + Left(g)

LEMMA AllowanceIs == IInv => AllowanceFacts
<1> SUFFICES ASSUME IInv PROVE AllowanceFacts
  OBVIOUS
<1>1. ASSUME NEW g \in Grants
      PROVE  /\ issued[g] \in Nat /\ Num(g, "counted") \in Nat /\ Left(g) \in Nat
             /\ Pending(g) = Num(g, "counted")
  <2>1. issued[g] \in Nat /\ Num(g, "counted") \in Nat /\ Pending(g) = Num(g, "counted")
    BY PlaceFinite DEF IInv, TypeOK, Pending, Num
  <2>2. Left(g) \in Nat
    <3>1. CASE Live(g)
      <4>1. grant[g] \in Grant /\ grant[g].useCount <= grant[g].maxUses
        BY <3>1 DEF Live, Exists, IInv, TypeOK, UsesCoverTokens
      <4> QED BY <3>1, <4>1 DEF Left, Grant
    <3>2. CASE ~Live(g) BY <3>2 DEF Left
    <3> QED BY <3>1, <3>2
  <2> QED BY <2>1, <2>2
<1> QED BY <1>1 DEF Allowance, AllowanceFacts

LEMMA AllowanceIsNext == IInv' => AllowanceFacts'
BY AllowanceIs, PTL

LEMMA InitMaps == Init => Quota!Init
<1> SUFFICES ASSUME Init PROVE Quota!Init
  OBVIOUS
<1>1. IInv BY InitIInv
<1>2. ASSUME NEW g \in Grants PROVE Allowance[g] = 0 /\ grant[g] = NoGrant
  <2>1. grant[g] = NoGrant BY DEF Init
  <2>2. Left(g) = 0 BY <2>1 DEF Left, Live, Exists
  <2>3. issued[g] + Num(g, "counted") = 0
    BY <1>1, <2>1, LedgerIs DEF IInv, Ledger
  <2> QED BY <1>1, <2>1, <2>2, <2>3, AllowanceIs DEF AllowanceFacts
<1>3. Allowance = [g \in Grants |-> 0] BY <1>1, <1>2, AllowanceIs DEF AllowanceFacts
<1>4. Offered = [g \in Grants |-> FALSE] BY <1>2 DEF Offered
<1>5. issued = [g \in Grants |-> 0] BY DEF Init
<1> QED BY <1>3, <1>4, <1>5 DEF Quota!Init

\* A step under which no grant's allowance changes, and none is created.
LEMMA Stutter ==
    ASSUME IInv, IInv', UNCHANGED issued,
           \A h \in Grants :
                Num(h, "counted")' + Left(h)' = Num(h, "counted") + Left(h),
           \A h \in Grants : grant'[h] = NoGrant <=> grant[h] = NoGrant
    PROVE  QuotaStep
<1>1. AllowanceFacts /\ AllowanceFacts'
  BY AllowanceIs, AllowanceIsNext
<1>2. Offered' = Offered BY DEF Offered
<1>3. ASSUME NEW g \in Grants PROVE Allowance'[g] = Allowance[g]
  <2>1. Num(g, "counted")' + Left(g)' = Num(g, "counted") + Left(g) OBVIOUS
  <2>2. /\ issued[g] \in Nat /\ Num(g, "counted") \in Nat /\ Left(g) \in Nat
        /\ Allowance[g] = issued[g] + Num(g, "counted") + Left(g)
    BY <1>1 DEF AllowanceFacts
  <2>3. /\ Num(g, "counted")' \in Nat /\ Left(g)' \in Nat
        /\ Allowance'[g] = issued[g] + Num(g, "counted")' + Left(g)'
    BY <1>1 DEF AllowanceFacts
  <2> QED BY <2>1, <2>2, <2>3
<1>4. Allowance' = Allowance BY <1>1, <1>3 DEF AllowanceFacts
<1> QED BY <1>2, <1>4 DEF QuotaStep

\* A step that lowers one grant's allowance: the grant ends, or a counted call gives up.
LEMMA Lowered ==
    ASSUME IInv, IInv', UNCHANGED issued, NEW g \in Grants,
           Num(g, "counted")' + Left(g)' < Num(g, "counted") + Left(g),
           \A h \in Grants \ {g} :
                Num(h, "counted")' + Left(h)' = Num(h, "counted") + Left(h),
           \A h \in Grants : grant'[h] = NoGrant <=> grant[h] = NoGrant
    PROVE  QuotaStep
<1> DEFINE n == Allowance'[g]
<1>1. AllowanceFacts /\ AllowanceFacts'
  BY AllowanceIs, AllowanceIsNext
<1>2. n \in 0..Allowance[g] /\ issued[g] <= n /\ n < Allowance[g]
  BY <1>1 DEF AllowanceFacts
<1>3. ASSUME NEW h \in Grants \ {g} PROVE Allowance'[h] = Allowance[h]
  <2>1. Num(h, "counted")' + Left(h)' = Num(h, "counted") + Left(h) OBVIOUS
  <2>2. /\ issued[h] \in Nat /\ Num(h, "counted") \in Nat /\ Left(h) \in Nat
        /\ Allowance[h] = issued[h] + Num(h, "counted") + Left(h)
    BY <1>1 DEF AllowanceFacts
  <2>3. /\ Num(h, "counted")' \in Nat /\ Left(h)' \in Nat
        /\ Allowance'[h] = issued[h] + Num(h, "counted")' + Left(h)'
    BY <1>1 DEF AllowanceFacts
  <2> QED BY <2>1, <2>2, <2>3
<1>4. Allowance' = [Allowance EXCEPT ![g] = n]
  BY <1>1, <1>3 DEF AllowanceFacts
<1>5. Offered' = Offered BY DEF Offered
<1> HIDE DEF n
<1>6. Quota!Forfeit(g, n) BY <1>2, <1>4, <1>5 DEF Quota!Forfeit
<1> QED BY <1>2, <1>6 DEF QuotaStep, Quota!Next

LEMMA CreateGrantMaps ==
    ASSUME IInv, IInv', NEW g \in Grants, NEW n \in Quotas, CreateGrant(g, n) PROVE QuotaStep
<1> DEFINE new == [maxUses |-> n, useCount |-> 0, expired |-> FALSE]
<1>1. /\ grant' = [grant EXCEPT ![g] = new] /\ UNCHANGED <<call, issued>> /\ grant[g] = NoGrant
      /\ grant \in [Grants -> Grant \cup {NoGrant, Deleted}]
  BY DEF CreateGrant, IInv, TypeOK
<1>2. n \in Nat /\ new \in Grant BY ProvisioningAssumption DEF Grant
<1>3. new \notin {NoGrant, Deleted} BY <1>2, ProvisioningAssumption
<1>4. \A h \in Grants : Num(h, "counted")' = Num(h, "counted")
  BY <1>1, NumSame
<1>5. AllowanceFacts /\ AllowanceFacts'
  BY AllowanceIs, AllowanceIsNext
<1>6. Allowance'[g] = n
  <2>1. Left(g)' = n BY <1>1, <1>2, <1>3 DEF Left, Live, Exists
  <2>2. issued[g] + Num(g, "counted") = 0 BY <1>1, LedgerIs DEF IInv, Ledger
  <2> QED BY <1>1, <1>2, <1>4, <1>5, <2>1, <2>2 DEF AllowanceFacts
<1>7. ASSUME NEW h \in Grants \ {g} PROVE Allowance'[h] = Allowance[h]
  <2>1. Left(h)' = Left(h) BY <1>1 DEF Left, Live, Exists
  <2> QED BY <1>1, <1>4, <1>5, <2>1 DEF AllowanceFacts
<1>8. Allowance' = [Allowance EXCEPT ![g] = n]
  BY <1>5, <1>6, <1>7 DEF AllowanceFacts
<1>9. Offered' = [Offered EXCEPT ![g] = TRUE] /\ ~Offered[g]
  BY <1>1, <1>3 DEF Offered
<1>10. Quota!Offer(g, n) BY <1>1, <1>8, <1>9 DEF Quota!Offer
<1> QED BY <1>10 DEF QuotaStep, Quota!Next

\* Deletion and expiry both leave a grant with nothing left to count.
LEMMA EndGrantMaps ==
    ASSUME IInv, IInv', NEW g \in Grants, DeleteGrant(g) \/ Expire(g) PROVE QuotaStep
<1>1. /\ UNCHANGED <<call, issued>>
      /\ \A h \in Grants \ {g} : grant'[h] = grant[h]
      /\ ~Live(g)' /\ grant'[g] # NoGrant /\ grant[g] # NoGrant
  <2>1. CASE DeleteGrant(g)
    BY <2>1, ProvisioningAssumption DEF DeleteGrant, Live, Exists, IInv, TypeOK
  <2>2. CASE Expire(g)
    <3>1. grant[g] \in Grant BY <2>2 DEF Expire, Live, Exists, IInv, TypeOK
    <3>2. [grant[g] EXCEPT !.expired = TRUE] \in Grant
          /\ [grant[g] EXCEPT !.expired = TRUE].expired
      BY <3>1 DEF Grant
    <3> QED BY <2>2, <3>2, ProvisioningAssumption DEF Expire, Live, Exists, IInv, TypeOK
  <2> QED BY <2>1, <2>2
<1>2. \A h \in Grants : Num(h, "counted")' = Num(h, "counted")
  BY <1>1, NumSame
<1>3. \A h \in Grants \ {g} : Left(h)' = Left(h)
  BY <1>1 DEF Left, Live, Exists
<1>4. Left(g)' = 0 BY <1>1 DEF Left
<1>5. \A h \in Grants : grant'[h] = NoGrant <=> grant[h] = NoGrant
  BY <1>1
<1>6. AllowanceFacts BY AllowanceIs
<1>7. CASE Left(g) = 0
  BY <1>1, <1>2, <1>3, <1>4, <1>5, <1>7, Stutter
<1>8. CASE Left(g) # 0
  <2>1. Num(g, "counted")' + Left(g)' < Num(g, "counted") + Left(g)
    BY <1>2, <1>4, <1>6, <1>8 DEF AllowanceFacts
  <2>2. \A h \in Grants \ {g} : Num(h, "counted")' + Left(h)' = Num(h, "counted") + Left(h)
    BY <1>2, <1>3
  <2> QED BY <1>1, <1>5, <2>1, <2>2, Lowered
<1> QED BY <1>7, <1>8

LEMMA ReadGrantMaps ==
    ASSUME IInv, IInv', NEW c \in Agents, NEW g \in Grants, ReadGrant(c, g) PROVE QuotaStep
<1> DEFINE v == [grant |-> g, maxUses |-> grant[g].maxUses, at |-> "read"]
<1>1. call' = [call EXCEPT ![c] = v] /\ UNCHANGED <<grant, issued, trail>> /\ call[c] = NoCall
      /\ Live(g)
  BY DEF ReadGrant
<1>2. grant[g] \in Grant BY <1>1 DEF IInv, TypeOK, Live, Exists
<1>3. TypeOK /\ v \in Call \cup {NoCall} BY <1>2 DEF IInv, Grant, Call
<1>4. ASSUME NEW h \in Grants
      PROVE  Num(h, "counted")' + Left(h)' = Num(h, "counted") + Left(h)
  <2>1. ~Holds(call[c], h, "counted") /\ ~Holds(v, h, "counted") BY <1>1 DEF Holds
  <2>2. call' = [call EXCEPT ![c] = v] BY <1>1
  <2> HIDE DEF v
  <2>3. Num(h, "counted")' = Num(h, "counted") BY <1>3, <2>1, <2>2, NumChange, ZenonT(60)
  <2>4. Left(h)' = Left(h) BY <1>1 DEF Left, Live, Exists
  <2> QED BY <2>3, <2>4
<1> QED BY <1>1, <1>4, Stutter

LEMMA CountUseMaps ==
    ASSUME IInv, IInv', NEW c \in Agents, CountUse(c) PROVE QuotaStep
<1> DEFINE v == [call[c] EXCEPT !.at = "counted"]
           g == call[c].grant
           row == [grant[g] EXCEPT !.useCount = grant[g].useCount + 1]
<1>1. /\ call' = [call EXCEPT ![c] = v] /\ grant' = [grant EXCEPT ![g] = row]
      /\ UNCHANGED <<issued, trail>>
      /\ call[c] # NoCall /\ call[c].at = "read" /\ Live(g)
      /\ grant[g].useCount < call[c].maxUses
  BY DEF CountUse, At, MayCount
<1>2. call[c] \in Call /\ g \in Grants BY <1>1 DEF IInv, TypeOK, Call
<1>3. v \in Call /\ v.grant = g /\ v.at = "counted" /\ v # NoCall
  BY <1>2, ProvisioningAssumption DEF Call
<1>4. grant[g] \in Grant /\ ~grant[g].expired BY <1>1, <1>2 DEF IInv, TypeOK, Live, Exists
<1>5. /\ row \in Grant /\ row.useCount = grant[g].useCount + 1 /\ ~row.expired
      /\ row.maxUses = grant[g].maxUses /\ row \notin {NoGrant, Deleted}
  BY <1>4, ProvisioningAssumption DEF Grant
<1>6. TypeOK /\ v \in Call \cup {NoCall} /\ call' = [call EXCEPT ![c] = v]
  BY <1>1, <1>3 DEF IInv
<1> HIDE DEF row, v
<1>7. grant'[g] = row /\ \A h \in Grants \ {g} : grant'[h] = grant[h]
  BY <1>1, <1>2 DEF IInv, TypeOK
<1>8. ASSUME NEW h \in Grants
      PROVE  Num(h, "counted")' + Left(h)' = Num(h, "counted") + Left(h)
  <2>1. CASE h = g
    <3>1. ~Holds(call[c], h, "counted") /\ Holds(v, h, "counted")
      BY <1>1, <1>3, <2>1 DEF Holds
    <3>2. Num(h, "counted")' = Num(h, "counted") + 1 /\ Num(h, "counted") \in Nat
      BY <1>6, <3>1, NumChange
    <3>3. Left(h) = grant[g].maxUses - grant[g].useCount
      BY <1>1, <2>1 DEF Left
    <3>4. Left(h)' = row.maxUses - row.useCount
      BY <1>5, <1>7, <2>1 DEF Left, Live, Exists
    <3>5. grant[g].maxUses \in Nat /\ grant[g].useCount \in Nat BY <1>4 DEF Grant
    <3> QED BY <1>5, <3>2, <3>3, <3>4, <3>5
  <2>2. CASE h # g
    <3>1. ~Holds(call[c], h, "counted") /\ ~Holds(v, h, "counted")
      BY <1>3, <2>2 DEF Holds
    <3>2. Num(h, "counted")' = Num(h, "counted") BY <1>6, <3>1, NumChange
    <3>3. Left(h)' = Left(h) BY <1>7, <2>2 DEF Left, Live, Exists
    <3> QED BY <3>2, <3>3
  <2> QED BY <2>1, <2>2
<1>9. \A h \in Grants : grant'[h] = NoGrant <=> grant[h] = NoGrant
  BY <1>1, <1>5, <1>7 DEF Live, Exists
<1> QED BY <1>1, <1>8, <1>9, Stutter

LEMMA CreateTokenMaps ==
    ASSUME IInv, IInv', NEW c \in Agents, CreateToken(c) PROVE QuotaStep
<1> DEFINE v == [call[c] EXCEPT !.at = "issued"]
<1>0. PICK g \in Grants : call[c] # NoCall => g = call[c].grant
  BY DEF CreateToken, At, IInv, TypeOK, Call
<1>1. /\ g = call[c].grant
      /\ call' = [call EXCEPT ![c] = v] /\ issued' = [issued EXCEPT ![g] = issued[g] + 1]
      /\ UNCHANGED <<grant, trail>>
      /\ call[c] # NoCall /\ call[c].at = "counted"
  BY <1>0 DEF CreateToken, At
<1>2. call[c] \in Call BY <1>1 DEF IInv, TypeOK, Call
<1>3. v \in Call /\ v.grant = g /\ v.at = "issued" /\ v # NoCall
  BY <1>1, <1>2, ProvisioningAssumption DEF Call
<1>4. TypeOK /\ v \in Call \cup {NoCall} /\ call' = [call EXCEPT ![c] = v]
  BY <1>1, <1>3 DEF IInv
<1> HIDE DEF v
<1>5. AllowanceFacts /\ AllowanceFacts' BY AllowanceIs, AllowanceIsNext
<1>6. ASSUME NEW h \in Grants PROVE Left(h)' = Left(h)
  BY <1>1 DEF Left, Live, Exists
<1>7. Num(g, "counted")' = Num(g, "counted") - 1 /\ Num(g, "counted") > 0
  <2>1. Holds(call[c], g, "counted") /\ ~Holds(v, g, "counted") BY <1>1, <1>3 DEF Holds
  <2> QED BY <1>2, <1>4, <2>1, NumChange
<1>8. ASSUME NEW h \in Grants PROVE Allowance'[h] = Allowance[h]
  <2>1. /\ issued[h] \in Nat /\ Num(h, "counted") \in Nat /\ Left(h) \in Nat
        /\ Allowance[h] = issued[h] + Num(h, "counted") + Left(h)
    BY <1>5 DEF AllowanceFacts
  <2>2. /\ Num(h, "counted")' \in Nat
        /\ Allowance'[h] = issued'[h] + Num(h, "counted")' + Left(h)
    BY <1>5, <1>6 DEF AllowanceFacts
  <2>3. CASE h = g
    <3>1. issued'[h] = issued[h] + 1 BY <1>1, <2>3 DEF IInv, TypeOK
    <3> QED BY <1>7, <2>1, <2>2, <2>3, <3>1
  <2>4. CASE h # g
    <3>1. ~Holds(call[c], h, "counted") /\ ~Holds(v, h, "counted") BY <1>1, <1>3, <2>4 DEF Holds
    <3>2. Num(h, "counted")' = Num(h, "counted") BY <1>4, <3>1, NumChange, ZenonT(60)
    <3>3. issued'[h] = issued[h] BY <1>1, <1>2, <2>4 DEF IInv, TypeOK
    <3> QED BY <2>1, <2>2, <3>2, <3>3
  <2> QED BY <2>3, <2>4
<1>9. Allowance' = Allowance BY <1>5, <1>8 DEF AllowanceFacts
<1>10. Offered' = Offered BY <1>1 DEF Offered
<1>11. issued[g] < Allowance[g]
  <2>1. /\ issued[g] \in Nat /\ Num(g, "counted") \in Nat /\ Left(g) \in Nat
        /\ Allowance[g] = issued[g] + Num(g, "counted") + Left(g)
    BY <1>2, <1>5 DEF AllowanceFacts
  <2> QED BY <1>7, <2>1
<1>12. Quota!Issue(g) BY <1>1, <1>9, <1>10, <1>11 DEF Quota!Issue
<1> QED BY <1>2, <1>12 DEF QuotaStep, Quota!Next

LEMMA EndMaps ==
    ASSUME IInv, IInv', NEW c \in Agents, RefuseUse(c) \/ RecordIssuance(c) \/ GiveUp(c)
    PROVE  QuotaStep
<1>0. PICK g \in Grants : call[c] # NoCall => g = call[c].grant
  BY DEF RefuseUse, RecordIssuance, GiveUp, At, IInv, TypeOK, Call
<1>1. g = call[c].grant /\ call' = [call EXCEPT ![c] = NoCall] /\ UNCHANGED <<grant, issued>> /\ call[c] # NoCall
  BY <1>0 DEF RefuseUse, RecordIssuance, GiveUp, At
<1>3. TypeOK /\ NoCall \in Call \cup {NoCall} BY DEF IInv
<1>4. \A h \in Grants : Left(h)' = Left(h) BY <1>1 DEF Left, Live, Exists
<1>5. ASSUME NEW h \in Grants
      PROVE  /\ Holds(call[c], h, "counted") => Num(h, "counted")' = Num(h, "counted") - 1
             /\ ~Holds(call[c], h, "counted") => Num(h, "counted")' = Num(h, "counted")
  <2>1. ~Holds(NoCall, h, "counted") BY DEF Holds
  <2>2. call' = [call EXCEPT ![c] = NoCall] BY <1>1
  <2> QED BY <1>3, <2>1, <2>2, NumChange, ZenonT(60)
<1>6. CASE call[c].at = "counted"
  <2>1. Holds(call[c], g, "counted") BY <1>1, <1>6 DEF Holds
  <2>2. AllowanceFacts BY AllowanceIs
  <2>3. Num(g, "counted")' + Left(g)' < Num(g, "counted") + Left(g)
    BY <1>4, <1>5, <2>1, <2>2 DEF AllowanceFacts
  <2>4. \A h \in Grants \ {g} : ~Holds(call[c], h, "counted") BY <1>1 DEF Holds
  <2>5. \A h \in Grants \ {g} : Num(h, "counted")' + Left(h)' = Num(h, "counted") + Left(h)
    BY <1>4, <1>5, <2>4
  <2> QED BY <1>1, <2>3, <2>5, Lowered
<1>7. CASE call[c].at # "counted"
  <2>1. \A h \in Grants : ~Holds(call[c], h, "counted") BY <1>7 DEF Holds
  <2>2. \A h \in Grants : Num(h, "counted")' + Left(h)' = Num(h, "counted") + Left(h)
    BY <1>4, <1>5, <2>1
  <2> QED BY <1>1, <2>2, Stutter
<1> QED BY <1>6, <1>7

LEMMA NextMaps == IInv /\ IInv' /\ [Next]_vars => [Quota!Next]_(Quota!vars)
<1> SUFFICES ASSUME IInv, IInv', [Next]_vars PROVE QuotaStep
  BY DEF QuotaStep, Quota!vars
<1>1. ASSUME NEW g \in Grants, NEW n \in Quotas, CreateGrant(g, n) PROVE QuotaStep
  BY <1>1, CreateGrantMaps
<1>2. ASSUME NEW g \in Grants, DeleteGrant(g) \/ Expire(g) PROVE QuotaStep
  BY <1>2, EndGrantMaps
<1>3. ASSUME NEW c \in Agents, NEW g \in Grants, ReadGrant(c, g) PROVE QuotaStep
  BY <1>3, ReadGrantMaps
<1>4. ASSUME NEW c \in Agents, CountUse(c) PROVE QuotaStep BY <1>4, CountUseMaps
<1>5. ASSUME NEW c \in Agents, CreateToken(c) PROVE QuotaStep BY <1>5, CreateTokenMaps
<1>6. ASSUME NEW c \in Agents, RefuseUse(c) \/ RecordIssuance(c) \/ GiveUp(c) PROVE QuotaStep
  BY <1>6, EndMaps
<1>7. CASE UNCHANGED vars
  <2>1. UNCHANGED <<grant, call, issued>> BY <1>7 DEF vars
  <2>2. \A h \in Grants : Num(h, "counted")' + Left(h)' = Num(h, "counted") + Left(h)
    BY <2>1, NumSame DEF Left, Live, Exists
  <2> QED BY <2>1, <2>2, Stutter
<1> QED BY <1>1, <1>2, <1>3, <1>4, <1>5, <1>6, <1>7 DEF Next

\* Provisioning implements the grant's promise: what is issued stays within what was
\* offered, and an allowance that deletion, expiry or a failed call lowered never grows.
THEOREM SpecKeepsQuota == Spec => KeepsQuota
<1>1. Init => Quota!Init BY InitMaps
<1>2. IInv /\ IInv' /\ [Next]_vars => [Quota!Next]_(Quota!vars) BY NextMaps
<1> QED BY <1>1, <1>2, SpecIInv, PTL DEF Spec, KeepsQuota, Quota!Spec

-------------------------------------------------------------------------------
(***************************************************************************)
(* Tenants, routes and tokens, for any number of operators and requests.   *)
(* First the types: each name belongs to one tenant and each row that      *)
(* names a tenant was created for one. Then what a call has read, which is *)
(* still so when it writes unless another call has overtaken it; a row     *)
(* that does not name its tenant is left, or one that a rename under way   *)
(* has still to reach; and a request knows its tenant's name until it has  *)
(* met a change of names, and after one change the name is right or        *)
(* nobody's.                                                               *)
(***************************************************************************)

(***************************************************************************)
(* What a call under way holds, whoever else is at work.                   *)
(***************************************************************************)
CallOK(q) ==
    /\ q.kind = "rename" => q.row \in Tenants /\ q.owner = q.row /\ q.old \in Names /\ q.new \in Names
    /\ q.kind = "delete" => q.row \in Tenants /\ q.owner = q.row /\ q.old \in Names
    /\ q.kind = "create" => q.row \in Refs /\ q.new \in Names /\ q.owner \in Tenants
    /\ q.kind = "move" => q.row \in Routes /\ q.new \in Names /\ q.owner \in Tenants
    /\ q.kind = "rotate" => q.row \in Tokens /\ q.other \in Tokens /\ q.new \in Names /\ q.owner \in Tenants

Calls == \A a \in Admins : admin[a] # Idle => CallOK(admin[a])

\* A row that names a tenant was created for one; a request goes by such a row and such a token.
Owned ==
    /\ \A x \in Refs : ref[x] \in Names => home[x] \in Tenants
    /\ \A c \in Clients : request[c] # Idle => request[c].owner \in Tenants /\ ref[request[c].token] # None

Unique == \A t, u \in Tenants : tenant[t] = tenant[u] /\ tenant[t] \in Names => t = u

Kept == TenancyTypeOK /\ Calls /\ Owned /\ Unique

(***************************************************************************)
(* What a call relies on, as long as no other has overtaken it.            *)
(***************************************************************************)
Sees(q) ==
    /\ q.kind = "rename" =>
           /\ q.at = "tenants" => tenant[q.row] = q.old
           /\ q.at \in {"routes", "tokens"} => tenant[q.row] = q.new /\ (q.old # q.new => Named(q.old) = {})
    /\ q.kind = "delete" =>
           /\ tenant[q.row] = q.old
           /\ q.at = "tokens" => ~Referenced(Routes, q.old)
           /\ q.at = "write" => ~Referenced(Refs, q.old)
    /\ q.kind \in {"create", "move"} => tenant[q.owner] = q.new
    /\ q.kind = "rotate" /\ q.row \notin left =>
           /\ q.at = "check" => tenant[q.owner] = q.new \/ Named(q.new) = {}
           /\ q.at = "write" => tenant[q.owner] = q.new

Current == \A a \in Admins : admin[a] # Idle /\ a \notin overtaken => Sees(admin[a])

\* The id of a row that a call is to insert: no row has it, and no other call.
Inserting(q, x) ==
    \/ q.kind = "create" /\ q.row = x
    \/ q.kind = "rotate" /\ q.at \in {"check", "write"} /\ q.other = x

FreshIds ==
    \A a \in Admins, x \in Refs : admin[a] # Idle /\ Inserting(admin[a], x) =>
        /\ ref[x] = None
        /\ \A b \in Admins \ {a} : admin[b] # Idle => ~Inserting(admin[b], x)

\* A rename that has its rows still to do, and one that will reach them.
Cascading(a) == admin[a] # Idle /\ admin[a].kind = "rename" /\ admin[a].at \in {"routes", "tokens"}

Reaching(a) == Cascading(a) /\ admin[a].old # admin[a].new /\ a \notin overtaken

\* Two renames under way take their rows from different names.
Apart ==
    \A a, b \in Admins : a # b /\ Reaching(a) /\ Reaching(b) => admin[a].old # admin[b].old

\* A request's name of its tenant: still right, or on its way out.
Near(q) ==
    /\ q.changes = 0 => tenant[q.owner] = q.name /\ ~Renaming
    /\ q.changes = 1 =>
           \/ tenant[q.owner] = q.name
           \/ /\ Named(q.name) = {}
              /\ \A a \in Admins : Reaching(a) /\ admin[a].old = q.name => admin[a].row = q.owner

Requests ==
    \A c \in Clients : request[c] # Idle /\ ~request[c].stray => Near(request[c])

TenancyInv ==
    /\ Kept /\ Current /\ FreshIds /\ Apart /\ Requests
    /\ ReferencesFollowTenant /\ CrossingTakesTwoChanges /\ SettledHeader

(***************************************************************************)
(* Types.                                                                  *)
(***************************************************************************)
LEMMA CallType ==
  ASSUME TenancyTypeOK, NEW a \in Admins, admin[a] # Idle
  PROVE  admin[a] \in OperatorCall
  BY DEF TenancyTypeOK

LEMMA RequestType ==
  ASSUME TenancyTypeOK, NEW c \in Clients, request[c] # Idle
  PROVE  request[c] \in Request
  BY DEF TenancyTypeOK

\* A call begins, goes on or ends; the others stay as they are.
LEMMA CallChange ==
  ASSUME TenancyTypeOK, Calls, NEW a \in Admins, NEW q,
         q = Idle \/ (q \in OperatorCall /\ CallOK(q)), admin' = [admin EXCEPT ![a] = q]
  PROVE  /\ admin' \in [Admins -> OperatorCall \cup {Idle}] /\ Calls'
         /\ admin'[a] = q /\ \A b \in Admins : b # a => admin'[b] = admin[b]
<1>1. admin \in [Admins -> OperatorCall \cup {Idle}]
  BY DEF TenancyTypeOK
<1>2. \A b \in Admins : admin'[b] = IF b = a THEN q ELSE admin[b]
  BY <1>1
<1>3. Calls'
  BY <1>2 DEF Calls
<1> QED BY <1>1, <1>2, <1>3

LEMMA NewCallType ==
  ASSUME NEW kind \in Kinds, NEW step \in Steps, NEW row \in Tenants \cup Refs, NEW t \in Tenants
  PROVE  LET q == NewCall(kind, step, row, t) IN
         /\ q \in OperatorCall /\ q.kind = kind /\ q.at = step /\ q.row = row /\ q.owner = t
  BY DEF NewCall, OperatorCall

LEMMA CallContinues ==
  ASSUME TenancyTypeOK, Calls, NEW a \in Admins, admin[a] # Idle, NEW step \in Steps, Continue(a, step)
  PROVE  /\ admin' \in [Admins -> OperatorCall \cup {Idle}] /\ Calls'
         /\ \A b \in Admins : b # a => admin'[b] = admin[b]
         /\ admin'[a] = [admin[a] EXCEPT !.at = step]
         /\ admin'[a] \in OperatorCall /\ admin'[a] # Idle
         /\ admin'[a].at = step /\ admin'[a].kind = admin[a].kind /\ admin'[a].row = admin[a].row
         /\ admin'[a].other = admin[a].other /\ admin'[a].old = admin[a].old
         /\ admin'[a].new = admin[a].new /\ admin'[a].owner = admin[a].owner
<1> DEFINE q == [admin[a] EXCEPT !.at = step]
<1>1. admin[a] \in OperatorCall
  BY CallType
<1>2. /\ q \in OperatorCall /\ q.at = step /\ q.kind = admin[a].kind /\ q.row = admin[a].row
      /\ q.other = admin[a].other /\ q.old = admin[a].old /\ q.new = admin[a].new /\ q.owner = admin[a].owner
  BY <1>1 DEF OperatorCall
<1>3. admin' = [admin EXCEPT ![a] = q]
  BY DEF Continue, TenancyTypeOK
<1> HIDE DEF q
<1>4. CallOK(q)
  BY <1>2 DEF Calls, CallOK
<1>5. q # Idle
  BY <1>2, TenancyAssumption
<1> QED BY <1>2, <1>3, <1>4, <1>5, CallChange DEF q

LEMMA CallEnds ==
  ASSUME TenancyTypeOK, Calls, NEW a \in Admins, admin' = [admin EXCEPT ![a] = Idle]
  PROVE  /\ admin' \in [Admins -> OperatorCall \cup {Idle}] /\ Calls' /\ admin'[a] = Idle
         /\ \A b \in Admins : b # a => admin'[b] = admin[b]
  BY CallChange

\* A history of changes.
LEMMA NotedType ==
  ASSUME TenancyTypeOK, request' = Noted
  PROVE  /\ request' \in [Clients -> Request \cup {Idle}]
         /\ \A c \in Clients : request[c] = Idle => request'[c] = Idle
         /\ \A c \in Clients : request[c] # Idle =>
                /\ request'[c] # Idle
                /\ request'[c].changes = IF request[c].changes = 2 THEN 2 ELSE request[c].changes + 1
                /\ request'[c].at = request[c].at /\ request'[c].token = request[c].token
                /\ request'[c].name = request[c].name /\ request'[c].owner = request[c].owner
                /\ request'[c].header = request[c].header /\ request'[c].failed = request[c].failed
                /\ request'[c].stray = request[c].stray
<1>1. ASSUME NEW c \in Clients
      PROVE  /\ request'[c] \in Request \cup {Idle}
             /\ request[c] = Idle => request'[c] = Idle
             /\ request[c] # Idle =>
                /\ request'[c] # Idle
                /\ request'[c].changes = IF request[c].changes = 2 THEN 2 ELSE request[c].changes + 1
                /\ request'[c].at = request[c].at /\ request'[c].token = request[c].token
                /\ request'[c].name = request[c].name /\ request'[c].owner = request[c].owner
                /\ request'[c].header = request[c].header /\ request'[c].failed = request[c].failed
                /\ request'[c].stray = request[c].stray
  <2>1. request'[c] = IF request[c] = Idle \/ request[c].changes = 2
                      THEN request[c] ELSE [request[c] EXCEPT !.changes = @ + 1]
    BY DEF Noted
  <2>2. CASE request[c] = Idle
    BY <2>1, <2>2
  <2>3. CASE request[c] # Idle
    <3>1. request[c] \in Request
      BY <2>3, RequestType
    <3> DEFINE q == request[c]
    <3> HIDE DEF q
    <3>2. CASE request[c].changes = 2
      BY <2>1, <2>3, <3>1, <3>2
    <3>3. CASE request[c].changes # 2
      <4>1. request'[c] = [request[c] EXCEPT !.changes = @ + 1]
        BY <2>1, <2>3, <3>3
      <4>2. request'[c] \in Request
        BY <3>1, <3>3, <4>1 DEF Request
      <4>3. request'[c] # Idle
        BY <4>2, TenancyAssumption
      <4> QED BY <2>3, <3>1, <3>3, <4>1, <4>2, <4>3 DEF Request
    <3> QED BY <3>2, <3>3
  <2> QED BY <2>2, <2>3
<1>2. request' = [c \in Clients |-> request'[c]]
  BY DEF Noted
<1> QED BY <1>1, <1>2

\* Reads and checks: only the call moves on.
LEMMA ReadingSteps ==
  ASSUME Kept, NEW a \in Admins,
         \/ \E t \in Tenants, n \in Names : ReadTenant(a, t, n)
         \/ \E t \in Tenants : ReadDoomed(a, t)
         \/ CountRoutes(a) \/ CountTokens(a)
         \/ \E x \in Refs, t \in Tenants : CheckCreate(a, x, t)
         \/ \E r \in Routes, t \in Tenants : CheckMove(a, r, t)
         \/ \E k, new \in Tokens : ReadOldToken(a, k, new)
         \/ CheckRotated(a)
  PROVE  Kept' /\ UNCHANGED <<tenant, ref, active, home, request, left>>
<1>1. UNCHANGED <<tenant, ref, active, home, request, left>>
  BY DEF ReadTenant, ReadDoomed, CountRoutes, CountTokens, CheckCreate, CheckMove, ReadOldToken, CheckRotated
<1>0. overtaken' \subseteq Admins
  BY DEF ReadTenant, ReadDoomed, CountRoutes, CountTokens, CheckCreate, CheckMove, ReadOldToken, CheckRotated, End,
         Kept, TenancyTypeOK
<1>2. \/ \E q \in OperatorCall : CallOK(q) /\ Begin(a, q)
      \/ End(a)
      \/ admin[a] # Idle /\ \E step \in Steps : Continue(a, step)
  <2>1. ASSUME NEW t \in Tenants, NEW n \in Names, ReadTenant(a, t, n)
        PROVE  \E q \in OperatorCall : CallOK(q) /\ Begin(a, q)
    <3> DEFINE p == NewCall("rename", "tenants", t, t)
               q == [p EXCEPT !.old = tenant[t], !.new = n]
    <3>1. p \in OperatorCall /\ p.kind = "rename" /\ p.row = t /\ p.owner = t
      BY NewCallType DEF Kinds, Steps
    <3>2. tenant[t] \in Names /\ Begin(a, q)
      BY <2>1 DEF ReadTenant
    <3> HIDE DEF p
    <3>3. q \in OperatorCall /\ CallOK(q)
      BY <3>1, <3>2 DEF OperatorCall, CallOK
    <3> QED BY <3>2, <3>3
  <2>2. ASSUME NEW t \in Tenants, ReadDoomed(a, t)
        PROVE  \E q \in OperatorCall : CallOK(q) /\ Begin(a, q)
    <3> DEFINE p == NewCall("delete", "routes", t, t)
               q == [p EXCEPT !.old = tenant[t]]
    <3>1. p \in OperatorCall /\ p.kind = "delete" /\ p.row = t /\ p.owner = t
      BY NewCallType DEF Kinds, Steps
    <3>2. tenant[t] \in Names /\ Begin(a, q)
      BY <2>2 DEF ReadDoomed
    <3> HIDE DEF p
    <3>3. q \in OperatorCall /\ CallOK(q)
      BY <3>1, <3>2 DEF OperatorCall, CallOK
    <3> QED BY <3>2, <3>3
  <2>3. ASSUME NEW x \in Refs, NEW t \in Tenants, NEW kind \in {"create", "move"},
               kind = "create" \/ x \in Routes, tenant[t] \in Names,
               Begin(a, [NewCall(kind, "write", x, t) EXCEPT !.new = tenant[t]])
        PROVE  \E q \in OperatorCall : CallOK(q) /\ Begin(a, q)
    <3> DEFINE p == NewCall(kind, "write", x, t)
               q == [p EXCEPT !.new = tenant[t]]
    <3>1. p \in OperatorCall /\ p.kind = kind /\ p.row = x /\ p.owner = t
      BY NewCallType DEF Kinds, Steps
    <3>2. tenant[t] \in Names /\ Begin(a, q)
      BY <2>3
    <3> HIDE DEF p
    <3>3. q \in OperatorCall /\ CallOK(q)
      BY <3>1, <3>2, <2>3 DEF OperatorCall, CallOK
    <3> QED BY <3>2, <3>3
  <2>4. ASSUME NEW k \in Tokens, NEW new \in Tokens, ReadOldToken(a, k, new)
        PROVE  \E q \in OperatorCall : CallOK(q) /\ Begin(a, q)
    <3> DEFINE p == NewCall("rotate", "check", k, home[k])
               q == [p EXCEPT !.other = new, !.new = ref[k]]
    <3>1. ref[k] \in Names /\ home[k] \in Tenants /\ Begin(a, q)
      BY <2>4 DEF ReadOldToken, Kept, Owned, Refs
    <3>2. p \in OperatorCall /\ p.kind = "rotate" /\ p.row = k /\ p.owner = home[k]
      BY <3>1, NewCallType DEF Kinds, Steps, Refs
    <3> HIDE DEF p
    <3>3. q \in OperatorCall /\ CallOK(q)
      BY <3>1, <3>2 DEF OperatorCall, CallOK
    <3> QED BY <3>1, <3>3
  <2>5. CASE CountRoutes(a) \/ CountTokens(a) \/ CheckRotated(a)
    BY <2>5 DEF CountRoutes, CountTokens, CheckRotated, Running, Steps
  <2> QED BY <2>1, <2>2, <2>3, <2>4, <2>5 DEF CheckCreate, CheckMove, Refs
<1>3. admin' \in [Admins -> OperatorCall \cup {Idle}] /\ Calls'
  BY <1>2, CallChange, CallEnds, CallContinues DEF Kept, Begin, End
<1> QED BY <1>0, <1>1, <1>3 DEF Kept, TenancyTypeOK, Owned, Unique

LEMMA OwnedNoted ==
  ASSUME Kept, request' = Noted, UNCHANGED <<ref, home>>
  PROVE  Owned'
<1>1. ASSUME NEW c \in Clients, request'[c] # Idle
      PROVE  request'[c].owner \in Tenants /\ ref'[request'[c].token] # None
  BY <1>1, NotedType DEF Kept, Owned
<1> QED BY <1>1 DEF Kept, Owned

\* What a change of names leaves: the rows of the renames it overtakes, and those of its own
\* tenant if it is itself overtaken.
LEMMA LeftGrows ==
  ASSUME NEW a, NEW t, NEW n, NameChanges(a, t, n)
  PROVE  \A x : x \in left' <=> \/ x \in left
                                \/ \E b \in Upset(a, t, n) : x \in Behind(b)
                                \/ x \in Refs /\ a \in overtaken /\ home[x] = t
<1>1. left' = (left \cup UNION {Behind(b) : b \in Upset(a, t, n)})
              \cup {x \in Refs : a \in overtaken /\ home[x] = t}
  BY Zenon DEF NameChanges
<1>2. \A x : x \in UNION {Behind(b) : b \in Upset(a, t, n)} <=> \E b \in Upset(a, t, n) : x \in Behind(b)
  OBVIOUS
<1> QED BY <1>1, <1>2, Zenon

\* The table of tenants: names stay unique.
LEMMA TenantSteps ==
  ASSUME Kept, NEW a \in Admins,
         \/ \E t \in Tenants, n \in Names : CreateTenant(a, t, n)
         \/ RenameTenant(a) \/ RemoveTenant(a)
  PROVE  Kept' /\ UNCHANGED <<ref, active, home>>
<1>0. /\ tenant \in [Tenants -> Names \cup {None, Gone}] /\ Calls /\ TenancyTypeOK
      /\ left \subseteq Refs /\ overtaken \subseteq Admins
  BY DEF Kept, TenancyTypeOK
<1>1. UNCHANGED <<ref, active, home>>
  BY DEF CreateTenant, RenameTenant, RemoveTenant
<1>2. ASSUME NEW t \in Tenants, NEW n \in Names \cup {Gone}, n = Gone \/ Named(n) \subseteq {t},
             NameChanges(a, t, n), overtaken' \subseteq overtaken \cup Upset(a, t, n),
             admin' \in [Admins -> OperatorCall \cup {Idle}], Calls'
      PROVE  Kept'
  <2>0. /\ tenant' = [tenant EXCEPT ![t] = n] /\ request' = Noted
        /\ left' \subseteq Refs /\ overtaken' \subseteq Admins
    <3>1. /\ \A b \in Admins : Behind(b) \subseteq Refs
          /\ Upset(a, t, n) \subseteq Admins
      BY DEF Behind, Upset
    <3>2. left' \subseteq Refs
      BY <1>0, <1>2, <3>1, LeftGrows
    <3> QED BY <1>0, <1>2, <3>1, <3>2 DEF NameChanges
  <2>1. \A u \in Tenants : tenant'[u] = IF u = t THEN n ELSE tenant[u]
    BY <1>0, <2>0
  <2>2. Gone \notin Names
    BY TenancyAssumption
  <2>3. n # Gone => \A u \in Tenants : tenant[u] = n => u = t
    BY <1>2 DEF Named
  <2>4. Unique' /\ tenant' \in [Tenants -> Names \cup {None, Gone}]
    BY <1>0, <2>0, <2>1, <2>2, <2>3 DEF Kept, Unique
  <2>5. TenancyTypeOK'
    BY <1>1, <1>2, <2>0, <2>4, NotedType DEF Kept, TenancyTypeOK
  <2>6. Owned'
    BY <1>1, <2>0, OwnedNoted
  <2> QED BY <1>2, <2>4, <2>5, <2>6 DEF Kept
<1>3. ASSUME End(a), UNCHANGED <<tenant, request, left>> PROVE Kept'
  <2>1. admin' \in [Admins -> OperatorCall \cup {Idle}] /\ Calls' /\ overtaken' \subseteq Admins
    BY <1>0, <1>3, CallEnds DEF End
  <2> QED BY <1>1, <1>3, <2>1 DEF Kept, TenancyTypeOK, Owned, Unique
<1>4. ASSUME NEW t \in Tenants, NEW n \in Names, CreateTenant(a, t, n) PROVE Kept'
  <2>1. admin' \in [Admins -> OperatorCall \cup {Idle}] /\ Calls'
    BY <1>0, <1>4 DEF CreateTenant, TenancyTypeOK, Calls
  <2> QED BY <1>2, <1>4, <2>1 DEF CreateTenant
<1>5. ASSUME RenameTenant(a) PROVE Kept'
  <2>1. admin[a] # Idle /\ admin[a].row \in Tenants /\ admin[a].new \in Names
    BY <1>5 DEF RenameTenant, Running, Kept, Calls, CallOK
  <2>2. ASSUME Continue(a, "routes") PROVE admin' \in [Admins -> OperatorCall \cup {Idle}] /\ Calls'
    BY <1>0, <2>1, <2>2, CallContinues DEF Steps
  <2> QED BY <1>2, <1>3, <1>5, <2>1, <2>2 DEF RenameTenant
<1>6. ASSUME RemoveTenant(a) PROVE Kept'
  <2>1. admin[a].row \in Tenants
    BY <1>6 DEF RemoveTenant, Running, Kept, Calls, CallOK
  <2>2. ASSUME admin' = [admin EXCEPT ![a] = Idle]
        PROVE  admin' \in [Admins -> OperatorCall \cup {Idle}] /\ Calls'
    BY <1>0, <2>2, CallEnds
  <2> QED BY <1>2, <1>3, <1>6, <2>1, <2>2 DEF RemoveTenant
<1> QED BY <1>1, <1>4, <1>5, <1>6

\* What a route or a token is asked by, as the row was read: insertions find the id unused.
LEMMA RowChange ==
  ASSUME Kept, UNCHANGED <<tenant, request>>, admin' \in [Admins -> OperatorCall \cup {Idle}], Calls',
         ref' \in [Refs -> Names \cup {None, Gone}], active' \in [Tokens -> BOOLEAN],
         home' \in [Refs -> Tenants \cup {None}], left' \subseteq Refs, overtaken' \subseteq Admins,
         \A x \in Refs : ref'[x] \in Names => home'[x] \in Tenants,
         \A x \in Refs : ref[x] # None => ref'[x] # None
  PROVE  Kept'
<1>1. TenancyTypeOK'
  BY DEF Kept, TenancyTypeOK
<1>2. ASSUME NEW c \in Clients, request[c] # Idle PROVE ref'[request[c].token] # None
  <2>1. request[c] \in Request
    BY <1>2, RequestType DEF Kept
  <2>2. request[c].token \in Refs
    BY <2>1 DEF Request, Refs
  <2> QED BY <1>2, <2>2 DEF Kept, Owned
<1>3. Owned' /\ Unique'
  BY <1>2 DEF Kept, Owned, Unique
<1> QED BY <1>1, <1>3 DEF Kept

\* The rows' names after a rename's statement, and after an insertion.
LEMMA CascadeType ==
  ASSUME Kept, NEW S, NEW old \in Names, NEW new \in Names, ref' = Cascade(S, old, new)
  PROVE  /\ ref' \in [Refs -> Names \cup {None, Gone}]
         /\ \A x \in Refs : ref'[x] = IF x \in S /\ ref[x] = old THEN new ELSE ref[x]
         /\ \A x \in Refs : ref'[x] \in Names => ref[x] \in Names
         /\ \A x \in Refs : ref[x] # None => ref'[x] # None
<1>1. ref \in [Refs -> Names \cup {None, Gone}]
  BY DEF Kept, TenancyTypeOK
<1>2. \A x \in Refs : ref'[x] = IF x \in S /\ ref[x] = old THEN new ELSE ref[x]
  BY DEF Cascade
<1>3. ref' = [x \in Refs |-> ref'[x]]
  BY <1>2 DEF Cascade
<1>4. None \notin Names
  BY TenancyAssumption
<1> QED BY <1>1, <1>2, <1>3, <1>4

LEMMA InsertType ==
  ASSUME Kept, NEW x \in Refs, NEW n \in Names, NEW t \in Tenants, Insert(x, n, t)
  PROVE  /\ ref' \in [Refs -> Names \cup {None, Gone}]
         /\ home' \in [Refs -> Tenants \cup {None}]
         /\ active' \in [Tokens -> BOOLEAN]
         /\ \A y \in Refs : ref'[y] = IF y = x THEN n ELSE ref[y]
         /\ \A y \in Refs : home'[y] = IF y = x THEN t ELSE home[y]
         /\ \A y \in Refs : ref'[y] \in Names => home'[y] \in Tenants
         /\ \A y \in Refs : ref[y] # None => ref'[y] # None
<1>1. /\ ref \in [Refs -> Names \cup {None, Gone}]
      /\ home \in [Refs -> Tenants \cup {None}]
  BY DEF Kept, TenancyTypeOK
<1>2. /\ ref' \in [Refs -> Names \cup {None, Gone}]
      /\ home' \in [Refs -> Tenants \cup {None}]
      /\ \A y \in Refs : ref'[y] = IF y = x THEN n ELSE ref[y]
      /\ \A y \in Refs : home'[y] = IF y = x THEN t ELSE home[y]
  BY <1>1 DEF Insert
<1>3. active' \in [Tokens -> BOOLEAN]
  <2>1. \A k \in Tokens : (k = x \/ active[k]) \in BOOLEAN
    OBVIOUS
  <2>2. active' = [k \in Tokens |-> k = x \/ active[k]]
    BY DEF Insert
  <2> QED BY <2>1, <2>2
<1>4. None \notin Names
  BY TenancyAssumption
<1> QED BY <1>2, <1>3, <1>4 DEF Kept, Owned

\* The tables of routes and tokens, and a call that is cut short.
LEMMA RowSteps ==
  ASSUME Kept, NEW a \in Admins,
         \/ RenameRoutes(a) \/ RenameTokens(a) \/ InsertRow(a) \/ UpdateRow(a)
         \/ \E x \in Refs : DeleteRow(a, x)
         \/ \E k \in Tokens, on \in BOOLEAN : SetTokenActive(a, k, on)
         \/ InsertRotated(a) \/ RevokeRotated(a) \/ StopHalfway(a)
  PROVE  Kept' /\ UNCHANGED <<tenant, request>>
<1>0. /\ ref \in [Refs -> Names \cup {None, Gone}] /\ active \in [Tokens -> BOOLEAN]
      /\ home \in [Refs -> Tenants \cup {None}] /\ left \subseteq Refs
      /\ admin \in [Admins -> OperatorCall \cup {Idle}] /\ None \notin Names /\ None # Gone /\ Gone \notin Names
      /\ \A x \in Refs : ref[x] \in Names => home[x] \in Tenants
      /\ Calls /\ TenancyTypeOK /\ overtaken \subseteq Admins
  BY TenancyAssumption DEF Kept, TenancyTypeOK, Owned
<1>1. UNCHANGED <<tenant, request>>
  BY DEF RenameRoutes, RenameTokens, InsertRow, UpdateRow, DeleteRow, SetTokenActive, InsertRotated, RevokeRotated, StopHalfway
<1> DEFINE Typed == left' \subseteq Refs /\ overtaken' \subseteq Admins
<1>2. ASSUME RenameRoutes(a) PROVE Kept'
  <2>1. admin[a] # Idle /\ admin[a].old \in Names /\ admin[a].new \in Names
    BY <1>2 DEF RenameRoutes, Running, Kept, Calls, CallOK
  <2>2. ref' = Cascade(Routes, admin[a].old, admin[a].new) /\ Continue(a, "tokens") /\ UNCHANGED <<active, home>>
    BY <1>2 DEF RenameRoutes
  <2>4. Typed
    BY <1>0, <1>2 DEF RenameRoutes, Misnamed, Miscounting
  <2>3. admin' \in [Admins -> OperatorCall \cup {Idle}] /\ Calls'
    BY <1>0, <2>1, <2>2, CallContinues DEF Steps
  <2> QED BY <1>0, <1>1, <2>1, <2>2, <2>3, <2>4, CascadeType, RowChange
<1>3. ASSUME RenameTokens(a) PROVE Kept'
  <2>1. admin[a] # Idle /\ admin[a].old \in Names /\ admin[a].new \in Names
    BY <1>3 DEF RenameTokens, Running, Kept, Calls, CallOK
  <2>2. ref' = Cascade(Tokens, admin[a].old, admin[a].new) /\ EndWrite(a) /\ UNCHANGED <<active, home>>
    BY <1>3 DEF RenameTokens
  <2>4. Typed
    BY <1>0, <1>3 DEF RenameTokens, Misnamed, Miscounting, EndWrite
  <2>3. admin' \in [Admins -> OperatorCall \cup {Idle}] /\ Calls'
    BY <1>0, <2>1, <2>2, CallEnds DEF End, EndWrite
  <2> QED BY <1>0, <1>1, <2>1, <2>2, <2>3, <2>4, CascadeType, RowChange
<1>4. ASSUME InsertRow(a) PROVE Kept'
  <2>1. admin[a] # Idle /\ admin[a].row \in Refs /\ admin[a].new \in Names /\ admin[a].owner \in Tenants
    BY <1>4 DEF InsertRow, Running, Kept, Calls, CallOK
  <2>2. Insert(admin[a].row, admin[a].new, admin[a].owner) /\ EndWrite(a)
    BY <1>4 DEF InsertRow
  <2>4. Typed
    BY <1>0, <1>4 DEF InsertRow, Misnamed, Miscounting, EndWrite
  <2>3. admin' \in [Admins -> OperatorCall \cup {Idle}] /\ Calls'
    BY <1>0, <2>1, <2>2, CallEnds DEF End, EndWrite
  <2> QED BY <1>0, <1>1, <2>1, <2>2, <2>3, <2>4, InsertType, RowChange
<1>5. ASSUME UpdateRow(a) PROVE Kept'
  <2>1. admin[a] # Idle /\ admin[a].row \in Routes /\ admin[a].new \in Names /\ admin[a].owner \in Tenants
    BY <1>5 DEF UpdateRow, Running, Kept, Calls, CallOK
  <2>2. EndWrite(a) /\ UNCHANGED active /\ overtaken' \subseteq Admins
    BY <1>0, <1>5 DEF UpdateRow, EndWrite, Miscounting
  <2>3. admin' \in [Admins -> OperatorCall \cup {Idle}] /\ Calls'
    BY <1>0, <2>1, <2>2, CallEnds DEF End, EndWrite
  <2>4. CASE ref[admin[a].row] \in Names
    <3>1. /\ ref' = [ref EXCEPT ![admin[a].row] = admin[a].new]
          /\ home' = [home EXCEPT ![admin[a].row] = admin[a].owner]
          /\ left' = IF a \in overtaken THEN left \cup {admin[a].row} ELSE left \ {admin[a].row}
      BY <1>5, <2>4 DEF UpdateRow
    <3>2. /\ ref' \in [Refs -> Names \cup {None, Gone}]
          /\ home' \in [Refs -> Tenants \cup {None}] /\ left' \subseteq Refs
          /\ \A x \in Refs : ref'[x] = IF x = admin[a].row THEN admin[a].new ELSE ref[x]
          /\ \A x \in Refs : home'[x] = IF x = admin[a].row THEN admin[a].owner ELSE home[x]
      BY <1>0, <2>1, <3>1 DEF Refs
    <3>3. /\ \A x \in Refs : ref'[x] \in Names => home'[x] \in Tenants
          /\ \A x \in Refs : ref[x] # None => ref'[x] # None
      BY <1>0, <2>1, <3>2
    <3> QED BY <1>0, <1>1, <2>2, <2>3, <3>2, <3>3, RowChange
  <2>5. CASE ref[admin[a].row] \notin Names
    <3>1. UNCHANGED <<ref, home, left>>
      BY <1>5, <2>5 DEF UpdateRow
    <3> QED BY <1>0, <1>1, <2>2, <2>3, <3>1, RowChange
  <2> QED BY <2>4, <2>5
<1>6. ASSUME NEW x \in Refs, DeleteRow(a, x) PROVE Kept'
  <2>1. ref' = [ref EXCEPT ![x] = Gone] /\ UNCHANGED <<active, home, admin, overtaken, left>>
    BY <1>6 DEF DeleteRow
  <2>2. Calls'
    BY <1>0, <2>1 DEF Calls
  <2>3. /\ ref' \in [Refs -> Names \cup {None, Gone}]
        /\ \A y \in Refs : ref'[y] = IF y = x THEN Gone ELSE ref[y]
    BY <1>0, <2>1
  <2>4. /\ \A y \in Refs : ref'[y] \in Names => home'[y] \in Tenants
        /\ \A y \in Refs : ref[y] # None => ref'[y] # None
    BY <1>0, <2>1, <2>3
  <2> QED BY <1>0, <1>1, <2>1, <2>2, <2>3, <2>4, RowChange
<1>7. ASSUME NEW k \in Tokens, NEW on \in BOOLEAN, SetTokenActive(a, k, on) PROVE Kept'
  <2>1. active' = [active EXCEPT ![k] = on] /\ UNCHANGED <<ref, home, admin, overtaken, left>>
    BY <1>7 DEF SetTokenActive
  <2>2. Calls'
    BY <1>0, <2>1 DEF Calls
  <2>3. active' \in [Tokens -> BOOLEAN]
    BY <1>0, <2>1
  <2> QED BY <1>0, <1>1, <2>1, <2>2, <2>3, RowChange
<1>8. ASSUME InsertRotated(a) PROVE Kept'
  <2>1. admin[a] # Idle /\ admin[a].other \in Tokens /\ admin[a].new \in Names /\ admin[a].owner \in Tenants
    BY <1>8 DEF InsertRotated, Running, Kept, Calls, CallOK
  <2>2. Insert(admin[a].other, admin[a].new, admin[a].owner) /\ Continue(a, "revoke")
    BY <1>8 DEF InsertRotated
  <2>3. admin' \in [Admins -> OperatorCall \cup {Idle}] /\ Calls'
    BY <1>0, <2>1, <2>2, CallContinues DEF Steps
  <2>4. Typed
    BY <1>0, <1>8, <2>1 DEF InsertRotated, Refs, Misnamed, Miscounting
  <2>5. admin[a].other \in Refs
    BY <2>1 DEF Refs
  <2> QED BY <1>0, <1>1, <2>1, <2>2, <2>3, <2>4, <2>5, InsertType, RowChange
<1>9. ASSUME RevokeRotated(a) PROVE Kept'
  <2>1. active' = [active EXCEPT ![admin[a].row] = FALSE] /\ End(a) /\ UNCHANGED <<ref, home, left>>
    BY <1>9 DEF RevokeRotated
  <2>2. admin' \in [Admins -> OperatorCall \cup {Idle}] /\ Calls'
    BY <1>0, <2>1, CallEnds DEF End
  <2>3. active' \in [Tokens -> BOOLEAN]
    BY <1>0, <2>1
  <2>4. overtaken' \subseteq Admins
    BY <1>0, <2>1 DEF End
  <2> QED BY <1>0, <1>1, <2>1, <2>2, <2>3, <2>4, RowChange
<1>10. ASSUME StopHalfway(a) PROVE Kept'
  <2>1. left' = left \cup Behind(a) /\ End(a) /\ UNCHANGED <<ref, active, home>>
    BY <1>10 DEF StopHalfway
  <2>2. admin' \in [Admins -> OperatorCall \cup {Idle}] /\ Calls'
    BY <1>0, <2>1, CallEnds DEF End
  <2>3. Typed
    BY <1>0, <2>1 DEF Behind, End
  <2> QED BY <1>0, <1>1, <2>1, <2>2, <2>3, RowChange
<1> QED BY <1>1, <1>2, <1>3, <1>4, <1>5, <1>6, <1>7, <1>8, <1>9, <1>10

\* A request begins, goes on or ends.
LEMMA RequestChange ==
  ASSUME Kept, NEW c \in Clients, UNCHANGED <<tenant, ref, active, home, admin, overtaken, left>>,
         NEW q, request' = [request EXCEPT ![c] = q],
         q = Idle \/ (q \in Request /\ q.owner \in Tenants /\ ref[q.token] # None)
  PROVE  /\ Kept' /\ request'[c] = q /\ \A d \in Clients : d # c => request'[d] = request[d]
<1>1. request \in [Clients -> Request \cup {Idle}]
  BY DEF Kept, TenancyTypeOK
<1>2. /\ request' \in [Clients -> Request \cup {Idle}]
      /\ \A d \in Clients : request'[d] = IF d = c THEN q ELSE request[d]
  BY <1>1
<1>3. TenancyTypeOK' /\ Calls' /\ Unique'
  BY <1>2 DEF Kept, TenancyTypeOK, Calls, Unique
<1>4. Owned'
  BY <1>2 DEF Kept, Owned
<1> QED BY <1>2, <1>3, <1>4 DEF Kept

LEMMA HeaderType ==
  ASSUME NEW n
  PROVE  HeaderOf(n) \in Tenants \cup {None}
  BY DEF HeaderOf, Named

LEMMA ProxySteps ==
  ASSUME Kept, NEW c \in Clients, ProxyStep(c)
  PROVE  Kept' /\ UNCHANGED <<tenant, ref, active, home, admin, overtaken, left>>
<1>1. UNCHANGED <<tenant, ref, active, home, admin, overtaken, left>>
  BY DEF ProxyStep, ReadRoute, AcceptToken, RejectToken, Forward, Respond
<1>2. request[c] # Idle => request[c] \in Request /\ request[c].owner \in Tenants /\ ref[request[c].token] # None
  BY RequestType DEF Kept, Owned
<1>3. request \in [Clients -> Request \cup {Idle}]
  BY DEF Kept, TenancyTypeOK
<1>4. ASSUME NEW r \in Routes, NEW k \in Tokens, ReadRoute(c, r, k) PROVE Kept'
  <2> DEFINE n == IF Renaming THEN 1 ELSE 0
             s == r \in left
             q == [at |-> "token", token |-> k, name |-> ref[r], owner |-> home[r], header |-> None,
                   failed |-> FALSE, stray |-> s, changes |-> n]
  <2>1. ref[r] \in Names /\ ref[k] # None /\ home[r] \in Tenants
    BY <1>4 DEF ReadRoute, Kept, Owned, Refs
  <2>2. request' = [request EXCEPT ![c] = q]
    BY <1>4 DEF ReadRoute
  <2>3. n \in 0..2 /\ s \in BOOLEAN
    OBVIOUS
  <2> HIDE DEF n, s
  <2>4. q \in Request /\ q.owner \in Tenants /\ ref[q.token] # None
    BY <2>1, <2>3 DEF Request
  <2> HIDE DEF q
  <2> QED BY <1>1, <2>2, <2>4, RequestChange
<1>5. ASSUME AcceptToken(c) PROVE Kept'
  <2> DEFINE q == [request[c] EXCEPT !.at = "config"]
  <2>1. request[c] # Idle /\ request' = [request EXCEPT ![c] = q]
    BY <1>3, <1>5 DEF AcceptToken
  <2>2. q \in Request /\ q.owner = request[c].owner /\ q.token = request[c].token
    BY <1>2, <2>1 DEF Request
  <2> HIDE DEF q
  <2> QED BY <1>1, <1>2, <2>1, <2>2, RequestChange
<1>6. ASSUME NEW fails \in BOOLEAN, Forward(c, fails) PROVE Kept'
  <2> DEFINE h == IF fails THEN None ELSE HeaderOf(request[c].name)
             q == [request[c] EXCEPT !.at = "forwarded", !.failed = fails, !.header = h]
  <2>1. request[c] # Idle /\ request' = [request EXCEPT ![c] = q]
    BY <1>3, <1>6 DEF Forward
  <2>2. h \in Tenants \cup {None}
    BY HeaderType
  <2> HIDE DEF h
  <2>3. q \in Request /\ q.owner = request[c].owner /\ q.token = request[c].token
    BY <1>2, <2>1, <2>2 DEF Request
  <2> HIDE DEF q
  <2> QED BY <1>1, <1>2, <2>1, <2>3, RequestChange
<1>7. ASSUME RejectToken(c) \/ Respond(c) PROVE Kept'
  <2>1. request' = [request EXCEPT ![c] = Idle]
    BY <1>7 DEF RejectToken, Respond
  <2> QED BY <1>1, <2>1, RequestChange
<1> QED BY <1>1, <1>4, <1>5, <1>6, <1>7 DEF ProxyStep

LEMMA InitKept == TenancyInit => Kept
<1> SUFFICES ASSUME TenancyInit PROVE Kept
  OBVIOUS
<1>1. TenancyTypeOK
  BY DEF TenancyInit, TenancyTypeOK
<1>2. Calls /\ Owned /\ Unique
  BY TenancyAssumption DEF TenancyInit, Calls, Owned, Unique
<1> QED BY <1>1, <1>2 DEF Kept

LEMMA StepKept == Kept /\ [TenancyNext]_tenancyVars => Kept'
<1> SUFFICES ASSUME Kept, [TenancyNext]_tenancyVars PROVE Kept'
  OBVIOUS
<1>1. CASE UNCHANGED tenancyVars
  BY <1>1 DEF tenancyVars, Kept, TenancyTypeOK, Calls, Owned, Unique
<1>2. ASSUME NEW a \in Admins, TenantCall(a) PROVE Kept'
  BY <1>2, ReadingSteps, TenantSteps, RowSteps DEF TenantCall
<1>3. ASSUME NEW a \in Admins, RowCall(a) PROVE Kept'
  BY <1>3, ReadingSteps, RowSteps DEF RowCall
<1>4. ASSUME NEW c \in Clients, ProxyStep(c) PROVE Kept'
  BY <1>4, ProxySteps
<1> QED BY <1>1, <1>2, <1>3, <1>4 DEF TenancyNext

\* Whatever the operators do at a time, the three tables keep their types, a name belongs
\* to one tenant, and a row that names a tenant was created for one.
THEOREM SpecKept == TenancySpec => []Kept
<1> QED BY InitKept, StepKept, PTL DEF TenancySpec

\* The types alone: the tables, the operators' calls and the requests, at each statement.
THEOREM SpecTenancyTypeOK == TenancySpec => []TenancyTypeOK
<1>1. Kept => TenancyTypeOK
  BY DEF Kept
<1> QED BY <1>1, SpecKept, PTL

(***************************************************************************)
(* First what a step keeps of the calls and the requests that it leaves    *)
(* alone.                                                                  *)
(***************************************************************************)
LEMMA RenamingIsCascading ==
  Renaming <=> \E a \in Admins : Cascading(a)
BY DEF Renaming, Cascading, Running

LEMMA BehindReaching ==
  ASSUME NEW a \in Admins, admin[a] # Idle, NEW x \in Behind(a)
  PROVE  /\ Reaching(a) /\ ref[x] = admin[a].old /\ home[x] = admin[a].row
         /\ admin[a].at = "routes" \/ (admin[a].at = "tokens" /\ x \in Tokens)
BY DEF Behind, Reaching, Cascading

\* The step of a leaves as they are the other calls that it does not overtake: the names they
\* hold are whose they were, and no row came to the name of a tenant to be deleted.
Undisturbed(a) ==
    \A b \in Admins : b # a /\ admin[b] # Idle /\ b \notin overtaken' =>
        /\ tenant'[admin[b].owner] = tenant[admin[b].owner]
        /\ \A u \in Tenants : tenant'[u] \in {admin[b].old, admin[b].new} => tenant'[u] = tenant[u]
        /\ admin[b].kind = "delete" => \A x \in Refs : ref'[x] = admin[b].old => ref[x] = admin[b].old

\* The calls of the others: as they were, and overtaken if they were.
OthersStay(a) ==
    /\ \A b \in Admins : b # a => admin'[b] = admin[b]
    /\ overtaken \ {a} \subseteq overtaken'
    /\ admin'[a] # Idle => overtaken \subseteq overtaken'

LEMMA CurrentKeeps ==
  ASSUME Kept, Current, NEW a \in Admins, OthersStay(a), Undisturbed(a),
         \A k \in Tokens : k \in left => k \in left',
         admin'[a] # Idle /\ a \notin overtaken' => Sees(admin[a])'
  PROVE  Current'
<1>1. ASSUME NEW b \in Admins, b # a, admin'[b] # Idle, b \notin overtaken'
      PROVE  Sees(admin[b])'
  <2>1. admin'[b] = admin[b] /\ admin[b] # Idle /\ Sees(admin[b]) /\ CallOK(admin[b])
    BY <1>1 DEF OthersStay, Current, Kept, Calls
  <2>2. /\ tenant'[admin[b].owner] = tenant[admin[b].owner]
        /\ \A u \in Tenants : tenant'[u] \in {admin[b].old, admin[b].new} => tenant'[u] = tenant[u]
        /\ admin[b].kind = "delete" => \A x \in Refs : ref'[x] = admin[b].old => ref[x] = admin[b].old
    BY <1>1, <2>1 DEF Undisturbed
  <2>3. Named(admin[b].old) = {} => Named(admin[b].old)' = {}
    BY <2>1, <2>2 DEF Named
  <2>4. Named(admin[b].new) = {} => Named(admin[b].new)' = {}
    BY <2>1, <2>2 DEF Named
  <2>5. admin[b].kind = "delete" =>
           /\ ~Referenced(Routes, admin[b].old) => ~Referenced(Routes, admin[b].old)'
           /\ ~Referenced(Refs, admin[b].old) => ~Referenced(Refs, admin[b].old)'
    BY <2>1, <2>2 DEF Referenced, Refs
  <2>6. CASE admin[b].kind = "rename"
    <3>1. admin[b].owner = admin[b].row
      BY <2>1, <2>6 DEF CallOK
    <3> QED BY <2>1, <2>2, <2>3, <2>6, <3>1 DEF Sees
  <2>7. CASE admin[b].kind = "delete"
    <3>1. admin[b].owner = admin[b].row
      BY <2>1, <2>7 DEF CallOK
    <3> QED BY <2>1, <2>2, <2>5, <2>7, <3>1 DEF Sees
  <2>8. CASE admin[b].kind = "rotate"
    <3>1. admin[b].row \notin left' => admin[b].row \notin left
      BY <2>1, <2>8 DEF CallOK
    <3> QED BY <2>1, <2>2, <2>4, <2>8, <3>1 DEF Sees
  <2>9. CASE admin[b].kind \notin {"rename", "delete", "rotate"}
    BY <2>1, <2>2, <2>9 DEF Sees
  <2> QED BY <2>6, <2>7, <2>8, <2>9
<1> QED BY <1>1 DEF Current

\* Ids to insert by stay fresh: only the call that has one uses it.
LEMMA FreshIdsKeep ==
  ASSUME FreshIds, NEW a \in Admins, OthersStay(a),
         \A x \in Refs : ref[x] = None => ref'[x] = None \/ (admin[a] # Idle /\ Inserting(admin[a], x)),
         admin'[a] # Idle => \A x \in Refs : Inserting(admin'[a], x) =>
             /\ ref'[x] = None
             /\ \A b \in Admins \ {a} : admin[b] # Idle => ~Inserting(admin[b], x)
  PROVE  FreshIds'
<1>1. ASSUME NEW b \in Admins, NEW x \in Refs, admin'[b] # Idle, Inserting(admin'[b], x)
      PROVE  /\ ref'[x] = None
             /\ \A d \in Admins \ {b} : admin'[d] # Idle => ~Inserting(admin'[d], x)
  <2>1. CASE b = a
    BY <1>1, <2>1 DEF OthersStay
  <2>2. CASE b # a
    <3>1. admin'[b] = admin[b]
      BY <2>2 DEF OthersStay
    <3>2. /\ ref[x] = None
          /\ \A d \in Admins \ {b} : admin[d] # Idle => ~Inserting(admin[d], x)
      BY <1>1, <3>1 DEF FreshIds
    <3>3. ref'[x] = None
      BY <2>2, <3>2
    <3>4. ASSUME NEW d \in Admins \ {b}, admin'[d] # Idle PROVE ~Inserting(admin'[d], x)
      <4>1. CASE d = a
        BY <1>1, <2>2, <3>1, <3>4, <4>1
      <4>2. CASE d # a
        <5>1. admin'[d] = admin[d]
          BY <4>2 DEF OthersStay
        <5> QED BY <3>2, <3>4, <5>1
      <4> QED BY <4>1, <4>2
    <3> QED BY <3>3, <3>4
  <2> QED BY <2>1, <2>2
<1> QED BY <1>1 DEF FreshIds, Inserting

\* No rename comes to reach rows: those that do did before, from the same name.
NoneReaches ==
    \A b \in Admins : Reaching(b)' =>
        Reaching(b) /\ admin'[b].old = admin[b].old /\ admin'[b].row = admin[b].row

LEMMA ReachingStays ==
  ASSUME NEW a \in Admins, OthersStay(a),
         Reaching(a)' => Reaching(a) /\ admin'[a].old = admin[a].old /\ admin'[a].row = admin[a].row
  PROVE  NoneReaches
<1>1. ASSUME NEW b \in Admins, b # a, Reaching(b)'
      PROVE  Reaching(b) /\ admin'[b].old = admin[b].old /\ admin'[b].row = admin[b].row
  BY <1>1 DEF OthersStay, Reaching, Cascading
<1> QED BY <1>1 DEF NoneReaches

LEMMA ApartKeeps ==
  ASSUME Apart, NoneReaches
  PROVE  Apart'
<1>1. ASSUME NEW b \in Admins, NEW d \in Admins, b # d, Reaching(b)', Reaching(d)'
      PROVE  admin'[b].old # admin'[d].old
  BY <1>1 DEF Apart, NoneReaches
<1> QED BY <1>1 DEF Apart

\* Names and requests stay, and so does what the requests know.
LEMMA RequestsKeep ==
  ASSUME Requests, UNCHANGED <<tenant, request>>, NoneReaches, Renaming' => Renaming
  PROVE  Requests'
<1>1. ASSUME NEW c \in Clients, request'[c] # Idle, ~request'[c].stray
      PROVE  Near(request[c])'
  <2>1. Near(request[c]) /\ request'[c] = request[c]
    BY <1>1 DEF Requests
  <2>2. Named(request[c].name)' = Named(request[c].name)
    BY <2>1 DEF Named
  <2>3. ASSUME NEW b \in Admins, Reaching(b)', admin'[b].old = request[c].name,
               \A d \in Admins : Reaching(d) /\ admin[d].old = request[c].name => admin[d].row = request[c].owner
        PROVE  admin'[b].row = request[c].owner
    BY <2>3 DEF NoneReaches
  <2> QED BY <2>1, <2>2, <2>3 DEF Near
<1> QED BY <1>1 DEF Requests

\* A request's token was issued before: it keeps its tenant, and a token left behind stays so.
LEMMA PassedKeep ==
  ASSUME Kept, CrossingTakesTwoChanges, SettledHeader, UNCHANGED request,
         \A k \in Tokens : ref[k] # None => home'[k] = home[k] /\ (k \in left => k \in left')
  PROVE  CrossingTakesTwoChanges' /\ SettledHeader'
<1>1. \A c \in Clients : request[c] # Idle => request[c].token \in Tokens /\ ref[request[c].token] # None
  BY RequestType DEF Kept, Owned, Request
<1>2. CrossingTakesTwoChanges'
  BY <1>1 DEF CrossingTakesTwoChanges
<1> QED BY <1>2 DEF SettledHeader

\* Names of tenants change: the requests under way note it.
LEMMA PassedNoted ==
  ASSUME Kept, CrossingTakesTwoChanges, SettledHeader, request' = Noted, UNCHANGED home,
         \A x \in left : x \in left'
  PROVE  CrossingTakesTwoChanges' /\ SettledHeader'
<1>1. ASSUME NEW c \in Clients, request'[c] # Idle
      PROVE  /\ request[c] # Idle /\ request[c].changes \in 0..2
             /\ request'[c].changes = IF request[c].changes = 2 THEN 2 ELSE request[c].changes + 1
             /\ request'[c].at = request[c].at /\ request'[c].token = request[c].token
             /\ request'[c].owner = request[c].owner /\ request'[c].stray = request[c].stray
  BY <1>1, NotedType, RequestType DEF Kept, Request
<1>2. \A c \in Clients : request'[c] # Idle => request'[c].changes # 0
  BY <1>1
<1>3. CrossingTakesTwoChanges'
  BY <1>1 DEF CrossingTakesTwoChanges
<1> QED BY <1>2, <1>3 DEF SettledHeader

\* A row that no rename under way has to reach names its tenant.
LEMMA RowInPlace ==
  ASSUME ReferencesFollowTenant, NEW x \in Refs, x \notin left, ref[x] \in Names,
         \A b \in Admins : Reaching(b) => admin[b].old # ref[x] \/ admin[b].row # home[x]
  PROVE  tenant[home[x]] = ref[x]
BY BehindReaching DEF ReferencesFollowTenant

\* Rows may change while tenants keep their names: a row is as it was, and then the step's call
\* had it not to do, or it names its tenant, or is the call's to do.
LEMMA RowsKeep ==
  ASSUME ReferencesFollowTenant, NEW a \in Admins, OthersStay(a), UNCHANGED tenant,
         \A b \in overtaken' \ overtaken : admin[b] # Idle => admin[b].kind = "delete",
         \A x \in Refs : x \notin left' /\ ref'[x] \in Names =>
            \/ tenant[home'[x]] = ref'[x]
            \/ admin'[a] # Idle /\ x \in Behind(a)'
            \/ /\ x \notin left /\ ref'[x] = ref[x] /\ home'[x] = home[x]
               /\ admin[a] # Idle => x \notin Behind(a)
  PROVE  ReferencesFollowTenant'
<1>1. ASSUME NEW x \in Refs, x \notin left, ref'[x] = ref[x], home'[x] = home[x],
             NEW b \in Admins, b # a, admin[b] # Idle, x \in Behind(b)
      PROVE  admin'[b] # Idle /\ x \in Behind(b)'
  <2>1. admin'[b] = admin[b] /\ admin[b].kind = "rename" /\ b \notin overtaken
    BY <1>1 DEF OthersStay, Behind
  <2>2. b \notin overtaken'
    BY <1>1, <2>1
  <2> QED BY <1>1, <2>1, <2>2 DEF Behind
<1>2. ASSUME NEW x \in Refs, x \notin left, ref'[x] \in Names, ref'[x] = ref[x], home'[x] = home[x],
             admin[a] # Idle => x \notin Behind(a)
      PROVE  tenant[home'[x]] = ref'[x] \/ \E b \in Admins : admin'[b] # Idle /\ x \in Behind(b)'
  BY <1>1, <1>2 DEF ReferencesFollowTenant
<1>3. ASSUME NEW x \in Refs, x \notin left', ref'[x] \in Names
      PROVE  tenant'[home'[x]] = ref'[x] \/ \E b \in Admins : admin'[b] # Idle /\ x \in Behind(b)'
  BY <1>2, <1>3
<1> QED BY <1>3 DEF ReferencesFollowTenant

(***************************************************************************)
(* Reads and checks.                                                       *)
(***************************************************************************)
LEMMA OnlyReading ==
  ASSUME TenancyInv, Kept', NEW a \in Admins, UNCHANGED <<tenant, ref, active, home, request, left>>,
         OthersStay(a), overtaken' \subseteq overtaken, ~Cascading(a), ~Cascading(a)',
         admin'[a] # Idle /\ a \notin overtaken' => Sees(admin[a])',
         admin'[a] # Idle => \A x \in Refs : Inserting(admin'[a], x) =>
             /\ ref[x] = None
             /\ \A b \in Admins \ {a} : admin[b] # Idle => ~Inserting(admin[b], x)
  PROVE  TenancyInv'
<1>1. Undisturbed(a)
  BY DEF Undisturbed
<1>2. Current' /\ FreshIds'
  BY <1>1, CurrentKeeps, FreshIdsKeep DEF TenancyInv
<1>3. NoneReaches
  BY ReachingStays DEF Reaching
<1>4. Renaming' => Renaming
  <2>1. Renaming' <=> \E b \in Admins : Cascading(b)'
    BY DEF Renaming, Cascading, Running
  <2>2. \A b \in Admins : Cascading(b)' => Cascading(b)
    BY DEF OthersStay, Cascading
  <2> QED BY <2>1, <2>2, RenamingIsCascading
<1>5. Apart' /\ Requests' /\ CrossingTakesTwoChanges' /\ SettledHeader'
  BY <1>3, <1>4, ApartKeeps, RequestsKeep, PassedKeep DEF TenancyInv
<1>6. admin[a] # Idle => \A x \in Refs : x \notin Behind(a)
  BY BehindReaching DEF Reaching
<1>7. ReferencesFollowTenant'
  BY <1>6, RowsKeep DEF TenancyInv
<1> QED BY <1>2, <1>5, <1>7 DEF TenancyInv

LEMMA CallBegins ==
  ASSUME TenancyInv, Kept', NEW a \in Admins, UNCHANGED <<tenant, ref, active, home, request, overtaken, left>>,
         NEW q \in OperatorCall, Begin(a, q), Sees(q), ~(q.kind = "rename" /\ q.at \in {"routes", "tokens"}),
         \A x \in Refs : Inserting(q, x) => Fresh(x)
  PROVE  TenancyInv'
<1>1. admin[a] = Idle /\ admin'[a] = q /\ \A b \in Admins : b # a => admin'[b] = admin[b]
  BY DEF Begin, TenancyInv, Kept, TenancyTypeOK
<1>2. OthersStay(a)
  BY <1>1 DEF OthersStay
<1>3. ~Cascading(a) /\ ~Cascading(a)'
  BY <1>1 DEF Cascading
<1>4. Sees(admin[a])'
  BY <1>1 DEF Sees, Named, Referenced
<1>5. \A x \in Refs : Fresh(x) => /\ ref[x] = None
                                  /\ \A b \in Admins : admin[b] # Idle => ~Inserting(admin[b], x)
  BY DEF Fresh, Inserting
<1> QED BY <1>1, <1>2, <1>3, <1>4, <1>5, OnlyReading

LEMMA CallEndsQuietly ==
  ASSUME TenancyInv, Kept', NEW a \in Admins, UNCHANGED <<tenant, ref, active, home, request, left>>,
         End(a), ~Cascading(a)
  PROVE  TenancyInv'
<1>1. admin'[a] = Idle /\ overtaken' = overtaken \ {a} /\ \A b \in Admins : b # a => admin'[b] = admin[b]
  BY DEF End, TenancyInv, Kept, TenancyTypeOK
<1>2. OthersStay(a)
  BY <1>1 DEF OthersStay
<1>3. ~Cascading(a)'
  BY <1>1 DEF Cascading
<1> QED BY <1>1, <1>2, <1>3, OnlyReading

LEMMA CallGoesOn ==
  ASSUME TenancyInv, Kept', NEW a \in Admins, UNCHANGED <<tenant, ref, active, home, request, overtaken, left>>,
         admin[a] # Idle, NEW step \in Steps, Continue(a, step), admin[a].kind # "rename",
         a \notin overtaken => Sees([admin[a] EXCEPT !.at = step]),
         \A x \in Refs : Inserting([admin[a] EXCEPT !.at = step], x) => Inserting(admin[a], x)
  PROVE  TenancyInv'
<1>1. /\ admin'[a] = [admin[a] EXCEPT !.at = step] /\ admin'[a].kind = admin[a].kind
      /\ \A b \in Admins : b # a => admin'[b] = admin[b]
  BY CallContinues DEF TenancyInv, Kept
<1>2. OthersStay(a)
  BY <1>1 DEF OthersStay
<1>3. ~Cascading(a) /\ ~Cascading(a)'
  BY <1>1 DEF Cascading
<1>4. a \notin overtaken => Sees(admin[a])'
  BY <1>1 DEF Sees, Named, Referenced
<1>5. \A x \in Refs : Inserting(admin'[a], x) =>
             /\ ref[x] = None
             /\ \A b \in Admins \ {a} : admin[b] # Idle => ~Inserting(admin[b], x)
  BY <1>1 DEF TenancyInv, FreshIds
<1> QED BY <1>2, <1>3, <1>4, <1>5, OnlyReading

LEMMA ReadingStepsKeep ==
  ASSUME TenancyInv, NEW a \in Admins,
         \/ \E t \in Tenants, n \in Names : ReadTenant(a, t, n)
         \/ \E t \in Tenants : ReadDoomed(a, t)
         \/ CountRoutes(a) \/ CountTokens(a)
         \/ \E x \in Refs, t \in Tenants : CheckCreate(a, x, t)
         \/ \E r \in Routes, t \in Tenants : CheckMove(a, r, t)
         \/ \E k, new \in Tokens : ReadOldToken(a, k, new)
         \/ CheckRotated(a)
  PROVE  TenancyInv'
<1>1. Kept' /\ UNCHANGED <<tenant, ref, active, home, request, left>>
  BY ReadingSteps DEF TenancyInv
<1>2. Kept /\ Calls /\ TenancyTypeOK /\ Current
  BY DEF TenancyInv, Kept
<1>3. ASSUME NEW t \in Tenants, NEW n \in Names, ReadTenant(a, t, n) PROVE TenancyInv'
  <2> DEFINE p == NewCall("rename", "tenants", t, t)
             q == [p EXCEPT !.old = tenant[t], !.new = n]
  <2>1. p \in OperatorCall /\ p.kind = "rename" /\ p.row = t /\ p.at = "tenants"
    BY NewCallType DEF Kinds, Steps
  <2>2. tenant[t] \in Names /\ Begin(a, q) /\ UNCHANGED overtaken
    BY <1>3 DEF ReadTenant
  <2> HIDE DEF p
  <2>3. q \in OperatorCall /\ q.kind = "rename" /\ q.at = "tenants" /\ q.row = t /\ q.old = tenant[t]
    BY <2>1, <2>2 DEF OperatorCall
  <2> HIDE DEF q
  <2>4. Sees(q) /\ \A x \in Refs : ~Inserting(q, x)
    BY <2>3 DEF Sees, Inserting
  <2> QED BY <1>1, <2>2, <2>3, <2>4, CallBegins
<1>4. ASSUME NEW t \in Tenants, ReadDoomed(a, t) PROVE TenancyInv'
  <2> DEFINE p == NewCall("delete", "routes", t, t)
             q == [p EXCEPT !.old = tenant[t]]
  <2>1. p \in OperatorCall /\ p.kind = "delete" /\ p.row = t /\ p.at = "routes"
    BY NewCallType DEF Kinds, Steps
  <2>2. tenant[t] \in Names /\ Begin(a, q) /\ UNCHANGED overtaken
    BY <1>4 DEF ReadDoomed
  <2> HIDE DEF p
  <2>3. q \in OperatorCall /\ q.kind = "delete" /\ q.at = "routes" /\ q.row = t /\ q.old = tenant[t]
    BY <2>1, <2>2 DEF OperatorCall
  <2> HIDE DEF q
  <2>4. Sees(q) /\ \A x \in Refs : ~Inserting(q, x)
    BY <2>3 DEF Sees, Inserting
  <2> QED BY <1>1, <2>2, <2>3, <2>4, CallBegins
<1>5. ASSUME NEW x \in Refs, NEW t \in Tenants, NEW kind \in {"create", "move"},
             kind = "create" => Fresh(x), tenant[t] \in Names, UNCHANGED overtaken,
             Begin(a, [NewCall(kind, "write", x, t) EXCEPT !.new = tenant[t]])
      PROVE  TenancyInv'
  <2> DEFINE p == NewCall(kind, "write", x, t)
             q == [p EXCEPT !.new = tenant[t]]
  <2>1. p \in OperatorCall /\ p.kind = kind /\ p.row = x /\ p.at = "write" /\ p.owner = t
    BY NewCallType DEF Kinds, Steps
  <2>2. Begin(a, q)
    BY <1>5
  <2> HIDE DEF p
  <2>3. q \in OperatorCall /\ q.kind = kind /\ q.at = "write" /\ q.row = x /\ q.owner = t /\ q.new = tenant[t]
    BY <2>1, <1>5 DEF OperatorCall
  <2> HIDE DEF q
  <2>4. Sees(q) /\ \A y \in Refs : Inserting(q, y) => Fresh(y)
    BY <1>5, <2>3 DEF Sees, Inserting
  <2> QED BY <1>1, <1>5, <2>2, <2>3, <2>4, CallBegins
<1>6. ASSUME NEW k \in Tokens, NEW new \in Tokens, ReadOldToken(a, k, new) PROVE TenancyInv'
  <2> DEFINE p == NewCall("rotate", "check", k, home[k])
             q == [p EXCEPT !.other = new, !.new = ref[k]]
  <2>1. /\ ref[k] \in Names /\ home[k] \in Tenants /\ Fresh(new) /\ Begin(a, q) /\ UNCHANGED overtaken
        /\ k \in Refs
    BY <1>6 DEF ReadOldToken, TenancyInv, Kept, Owned, Refs
  <2>2. p \in OperatorCall /\ p.kind = "rotate" /\ p.row = k /\ p.at = "check" /\ p.owner = home[k]
    BY <2>1, NewCallType DEF Kinds, Steps, Refs
  <2>3. k \notin left => tenant[home[k]] = ref[k] \/ Named(ref[k]) = {}
    <3>1. ASSUME NEW b \in Admins, Reaching(b), admin[b].old = ref[k] PROVE Named(ref[k]) = {}
      BY <1>2, <3>1 DEF Current, Sees, Reaching, Cascading
    <3> QED BY <2>1, <3>1, RowInPlace DEF TenancyInv
  <2> HIDE DEF p
  <2>4. /\ q \in OperatorCall /\ q.kind = "rotate" /\ q.at = "check" /\ q.row = k /\ q.other = new
        /\ q.new = ref[k] /\ q.owner = home[k]
    BY <2>1, <2>2 DEF OperatorCall
  <2> HIDE DEF q
  <2>5. Sees(q)
    BY <2>3, <2>4 DEF Sees
  <2>6. \A x \in Refs : Inserting(q, x) => Fresh(x)
    BY <2>1, <2>4 DEF Inserting
  <2> QED BY <1>1, <2>1, <2>4, <2>5, <2>6, CallBegins
<1>7. ASSUME admin[a] # Idle, NEW step \in Steps
      PROVE  LET q == [admin[a] EXCEPT !.at = step] IN
             /\ q.at = step /\ q.kind = admin[a].kind /\ q.row = admin[a].row /\ q.other = admin[a].other
             /\ q.old = admin[a].old /\ q.new = admin[a].new /\ q.owner = admin[a].owner
  <2>1. admin[a] \in OperatorCall
    BY <1>2, <1>7, CallType
  <2> QED BY <2>1 DEF OperatorCall
<1>8. ASSUME CountRoutes(a) PROVE TenancyInv'
  <2>1. /\ admin[a] # Idle /\ admin[a].kind = "delete" /\ ~Cascading(a)
        /\ a \notin overtaken => Sees(admin[a])
    BY <1>2, <1>8 DEF CountRoutes, Running, Current, Cascading
  <2>2. CASE ~Referenced(Routes, admin[a].old)
    <3> DEFINE q == [admin[a] EXCEPT !.at = "tokens"]
    <3>1. Continue(a, "tokens") /\ UNCHANGED overtaken
      BY <1>8, <2>2 DEF CountRoutes
    <3>2. q.at = "tokens" /\ q.kind = "delete" /\ q.row = admin[a].row /\ q.old = admin[a].old
      BY <1>7, <2>1 DEF Steps
    <3> HIDE DEF q
    <3>3. /\ a \notin overtaken => Sees(q)
          /\ \A x \in Refs : ~Inserting(q, x)
      BY <2>1, <2>2, <3>2 DEF Sees, Inserting
    <3> QED BY <1>1, <2>1, <3>1, <3>3, CallGoesOn DEF Steps, q
  <2> QED BY <1>1, <1>8, <2>1, <2>2, CallEndsQuietly DEF CountRoutes
<1>9. ASSUME CountTokens(a) PROVE TenancyInv'
  <2>1. /\ admin[a] # Idle /\ admin[a].kind = "delete" /\ admin[a].at = "tokens" /\ ~Cascading(a)
        /\ a \notin overtaken => Sees(admin[a])
    BY <1>2, <1>9 DEF CountTokens, Running, Current, Cascading
  <2>2. CASE ~Referenced(Tokens, admin[a].old)
    <3> DEFINE q == [admin[a] EXCEPT !.at = "write"]
    <3>1. Continue(a, "write") /\ UNCHANGED overtaken
      BY <1>9, <2>2 DEF CountTokens
    <3>2. q.at = "write" /\ q.kind = "delete" /\ q.row = admin[a].row /\ q.old = admin[a].old
      BY <1>7, <2>1 DEF Steps
    <3> HIDE DEF q
    <3>3. a \notin overtaken => ~Referenced(Refs, admin[a].old)
      BY <2>1, <2>2 DEF Sees, Referenced, Refs
    <3>4. /\ a \notin overtaken => Sees(q)
          /\ \A x \in Refs : ~Inserting(q, x)
      BY <2>1, <3>2, <3>3 DEF Sees, Inserting
    <3> QED BY <1>1, <2>1, <3>1, <3>4, CallGoesOn DEF Steps, q
  <2> QED BY <1>1, <1>9, <2>1, <2>2, CallEndsQuietly DEF CountTokens
<1>10. ASSUME CheckRotated(a) PROVE TenancyInv'
  <2>1. /\ admin[a] # Idle /\ admin[a].kind = "rotate" /\ admin[a].at = "check" /\ ~Cascading(a)
        /\ a \notin overtaken => Sees(admin[a])
    BY <1>2, <1>10 DEF CheckRotated, Running, Current, Cascading
  <2>2. CASE Named(admin[a].new) # {}
    <3> DEFINE q == [admin[a] EXCEPT !.at = "write"]
    <3>1. Continue(a, "write") /\ UNCHANGED overtaken
      BY <1>10, <2>2 DEF CheckRotated
    <3>2. /\ q.at = "write" /\ q.kind = "rotate" /\ q.row = admin[a].row /\ q.other = admin[a].other
          /\ q.new = admin[a].new /\ q.owner = admin[a].owner
      BY <1>7, <2>1 DEF Steps
    <3> HIDE DEF q
    <3>3. /\ a \notin overtaken => Sees(q)
          /\ \A x \in Refs : Inserting(q, x) => Inserting(admin[a], x)
      BY <2>1, <2>2, <3>2 DEF Sees, Inserting
    <3> QED BY <1>1, <2>1, <3>1, <3>3, CallGoesOn DEF Steps, q
  <2> QED BY <1>1, <1>10, <2>1, <2>2, CallEndsQuietly DEF CheckRotated
<1>11. ASSUME NEW x \in Refs, NEW t \in Tenants, CheckCreate(a, x, t) PROVE TenancyInv'
  BY <1>5, <1>11 DEF CheckCreate
<1>12. ASSUME NEW r \in Routes, NEW t \in Tenants, CheckMove(a, r, t) PROVE TenancyInv'
  BY <1>5, <1>12 DEF CheckMove, Refs
<1> QED BY <1>3, <1>4, <1>6, <1>8, <1>9, <1>10, <1>11, <1>12

(***************************************************************************)
(* The table of tenants.                                                   *)
(***************************************************************************)
\* The calls that do not rely on what changed keep what they rely on.
LEMMA NamesUndisturbed ==
  ASSUME Kept, NEW a \in Admins, NEW t \in Tenants, NEW n, NameChanges(a, t, n), UNCHANGED ref,
         \A b \in Upset(a, t, n) : b # a => b \in overtaken'
  PROVE  Undisturbed(a)
<1>1. \A u \in Tenants : tenant'[u] = IF u = t THEN n ELSE tenant[u]
  BY DEF NameChanges, Kept, TenancyTypeOK
<1>2. ASSUME NEW b \in Admins, b # a, admin[b] # Idle, b \notin overtaken'
      PROVE  /\ tenant'[admin[b].owner] = tenant[admin[b].owner]
             /\ \A u \in Tenants : tenant'[u] \in {admin[b].old, admin[b].new} => tenant'[u] = tenant[u]
  <2>1. admin[b].owner # t /\ n \notin {admin[b].old, admin[b].new}
    BY <1>2 DEF Upset
  <2>2. admin[b].owner \in Tenants
    BY <1>2, CallType DEF Kept, Calls, CallOK, OperatorCall, Kinds
  <2> QED BY <1>1, <2>1, <2>2
<1> QED BY <1>2 DEF Undisturbed

\* Only requests that met no change of names before may still know a name: it is right, or it
\* was the name of the tenant that changed, and then nobody has it.
LEMMA RequestsNoted ==
  ASSUME Kept, Requests, NEW a \in Admins, NEW t \in Tenants, NEW n, NameChanges(a, t, n),
         \A b \in Admins : Reaching(b)' => Cascading(b) \/ admin'[b].row = t
  PROVE  Requests'
<1>1. ASSUME NEW c \in Clients, request'[c] # Idle, ~request'[c].stray
      PROVE  Near(request[c])'
  <2>1. /\ request[c] # Idle /\ request[c].changes \in 0..2
        /\ request'[c].changes = IF request[c].changes = 2 THEN 2 ELSE request[c].changes + 1
        /\ request'[c].name = request[c].name
        /\ request'[c].owner = request[c].owner /\ request'[c].stray = request[c].stray
        /\ request[c].name \in Names /\ request[c].owner \in Tenants
    BY <1>1, NotedType, RequestType DEF Kept, Owned, Request, NameChanges
  <2>2. request'[c].changes # 0 /\ (request'[c].changes = 1 => request[c].changes = 0)
    BY <2>1
  <2>3. ASSUME request[c].changes = 0
        PROVE  \/ tenant'[request[c].owner] = request[c].name
               \/ /\ \A u \in Tenants : tenant'[u] # request[c].name
                  /\ \A b \in Admins : Reaching(b)' => admin'[b].row = request[c].owner
    <3>1. tenant[request[c].owner] = request[c].name /\ \A b \in Admins : ~Cascading(b)
      BY <1>1, <2>1, <2>3, RenamingIsCascading DEF Requests, Near
    <3>2. \A u \in Tenants : tenant'[u] = IF u = t THEN n ELSE tenant[u]
      BY DEF NameChanges, Kept, TenancyTypeOK
    <3>3. \A u \in Tenants : tenant[u] = request[c].name => u = request[c].owner
      BY <2>1, <3>1 DEF Kept, Unique
    <3>4. CASE request[c].owner # t
      BY <2>1, <3>1, <3>2, <3>4
    <3>5. CASE request[c].owner = t
      BY <2>1, <3>1, <3>2, <3>3, <3>5
    <3> QED BY <3>4, <3>5
  <2>4. Named(request[c].name)' = {} <=> \A u \in Tenants : tenant'[u] # request'[c].name
    BY <2>1 DEF Named
  <2> QED BY <2>1, <2>2, <2>3, <2>4 DEF Near
<1> QED BY <1>1 DEF Requests

\* Rows that named the tenant whose name changes are left, or the rename's to do.
LEMMA NamesRows ==
  ASSUME Kept, ReferencesFollowTenant, NEW a \in Admins, NEW t \in Tenants, NEW n, NameChanges(a, t, n),
         OthersStay(a), UNCHANGED <<ref, home>>, overtaken' \subseteq overtaken \cup Upset(a, t, n),
         ~Cascading(a),
         \A x \in Refs : x \notin left' /\ ref[x] \in Names /\ home[x] = t /\ tenant[t] = ref[x]
            => n = ref[x] \/ (admin'[a] # Idle /\ x \in Behind(a)')
  PROVE  ReferencesFollowTenant'
<1>1. \A u \in Tenants : tenant'[u] = IF u = t THEN n ELSE tenant[u]
  BY DEF NameChanges, Kept, TenancyTypeOK
<1>2. ASSUME NEW x \in Refs, x \notin left', ref[x] \in Names
      PROVE  tenant'[home[x]] = ref[x] \/ \E b \in Admins : admin'[b] # Idle /\ x \in Behind(b)'
  <2>1. x \notin left /\ \A b \in Upset(a, t, n) : x \notin Behind(b)
    BY <1>2, LeftGrows
  <2>2. home[x] \in Tenants
    BY <1>2 DEF Kept, Owned
  <2>3. CASE tenant[home[x]] = ref[x]
    BY <1>1, <1>2, <2>2, <2>3
  <2>4. ASSUME NEW b \in Admins, admin[b] # Idle, x \in Behind(b)
        PROVE  admin'[b] # Idle /\ x \in Behind(b)'
    <3>1. b # a /\ b \notin Upset(a, t, n) /\ b \notin overtaken
      BY <2>1, <2>4, BehindReaching DEF Reaching
    <3>2. admin'[b] = admin[b] /\ b \notin overtaken'
      BY <3>1 DEF OthersStay
    <3> QED BY <2>4, <3>2 DEF Behind
  <2> QED BY <1>2, <2>1, <2>3, <2>4 DEF ReferencesFollowTenant
<1> QED BY <1>2 DEF ReferencesFollowTenant

\* A tenant is created, renamed or removed: the rows that named it still do, are behind
\* the rename, or there were none, or the call was overtaken.
LEMMA TenantStepsKeep ==
  ASSUME TenancyInv, NEW a \in Admins,
         \/ \E t \in Tenants, n \in Names : CreateTenant(a, t, n)
         \/ RenameTenant(a) \/ RemoveTenant(a)
  PROVE  TenancyInv'
<1>1. Kept' /\ UNCHANGED <<ref, active, home>>
  BY TenantSteps DEF TenancyInv
<1>2. /\ Kept /\ TenancyTypeOK /\ Calls /\ Current /\ FreshIds /\ Apart /\ Requests /\ Unique
      /\ ReferencesFollowTenant /\ CrossingTakesTwoChanges /\ SettledHeader
      /\ None \notin Names /\ Gone \notin Names
  BY TenancyAssumption DEF TenancyInv, Kept
\* What the three have in common.
<1>3. ASSUME NEW t \in Tenants, NEW n, NameChanges(a, t, n), OthersStay(a), ~Cascading(a),
             overtaken' \subseteq overtaken \cup Upset(a, t, n),
             \A b \in Upset(a, t, n) : b # a => b \in overtaken',
             admin'[a] # Idle /\ a \notin overtaken' => Sees(admin[a])',
             \A x \in Refs : admin'[a] # Idle => ~Inserting(admin'[a], x),
             Reaching(a)' => admin'[a].row = t,
             Apart',
             \A x \in Refs : x \notin left' /\ ref[x] \in Names /\ home[x] = t /\ tenant[t] = ref[x]
                => n = ref[x] \/ (admin'[a] # Idle /\ x \in Behind(a)')
      PROVE  TenancyInv'
  <2>1. \A x \in left : x \in left'
    BY <1>3, LeftGrows
  <2>2. Current'
    BY <1>1, <1>2, <1>3, <2>1, NamesUndisturbed, CurrentKeeps
  <2>3. FreshIds'
    BY <1>1, <1>2, <1>3, FreshIdsKeep
  <2>4. Requests'
    <3>1. \A b \in Admins : Reaching(b)' => Cascading(b) \/ admin'[b].row = t
      BY <1>3 DEF OthersStay, Reaching, Cascading
    <3> QED BY <1>2, <1>3, <3>1, RequestsNoted
  <2>5. CrossingTakesTwoChanges' /\ SettledHeader'
    BY <1>1, <1>2, <1>3, <2>1, PassedNoted DEF NameChanges
  <2>6. ReferencesFollowTenant'
    BY <1>1, <1>2, <1>3, NamesRows
  <2> QED BY <1>1, <1>3, <2>2, <2>3, <2>4, <2>5, <2>6 DEF TenancyInv
<1>4. ASSUME NEW t \in Tenants, NEW n \in Names, CreateTenant(a, t, n) PROVE TenancyInv'
  <2>1. /\ admin[a] = Idle /\ admin' = admin /\ tenant[t] = None /\ NameChanges(a, t, n)
        /\ overtaken' = overtaken \cup Upset(a, t, n)
    BY <1>4 DEF CreateTenant
  <2>2. OthersStay(a) /\ ~Cascading(a) /\ ~Reaching(a)'
    BY <2>1 DEF OthersStay, Reaching, Cascading
  <2>3. NoneReaches
    BY <2>2, ReachingStays
  <2>4. Apart'
    BY <1>2, <2>3, ApartKeeps
  <2> QED BY <1>2, <1>3, <2>1, <2>2, <2>4
<1>5. ASSUME RenameTenant(a) PROVE TenancyInv'
  <2>1. /\ admin[a] # Idle /\ admin[a].kind = "rename" /\ admin[a].at = "tenants" /\ ~Cascading(a)
        /\ a \notin overtaken => Sees(admin[a])
    BY <1>2, <1>5 DEF RenameTenant, Running, Current, Cascading
  <2>2. CASE ~ (tenant[admin[a].row] \in Names /\ Named(admin[a].new) \subseteq {admin[a].row})
    BY <1>1, <1>5, <2>1, <2>2, CallEndsQuietly DEF RenameTenant
  <2>3. CASE tenant[admin[a].row] \in Names /\ Named(admin[a].new) \subseteq {admin[a].row}
    <3> DEFINE row == admin[a].row
               old == admin[a].old
               new == admin[a].new
    <3>1. /\ NameChanges(a, row, new) /\ Continue(a, "routes")
          /\ overtaken' = overtaken \cup Upset(a, row, new)
      BY <1>5, <2>3 DEF RenameTenant
    <3>2. /\ row \in Tenants /\ old \in Names /\ new \in Names
          /\ a \notin overtaken => tenant[row] = old
      BY <1>2, <2>1 DEF Calls, CallOK, Sees
    <3>3. /\ admin'[a] # Idle /\ admin'[a].kind = "rename" /\ admin'[a].at = "routes"
          /\ admin'[a].row = row /\ admin'[a].old = old /\ admin'[a].new = new
          /\ \A b \in Admins : b # a => admin'[b] = admin[b]
      BY <1>2, <2>1, <3>1, CallContinues DEF Steps
    <3> HIDE DEF row, old, new
    <3>4. a \in overtaken' <=> a \in overtaken
      BY <3>1 DEF Upset
    <3>5. \A u \in Tenants : tenant'[u] = IF u = row THEN new ELSE tenant[u]
      BY <1>2, <3>1 DEF NameChanges, TenancyTypeOK
    <3>6. OthersStay(a) /\ \A x : ~Inserting(admin'[a], x)
      BY <3>1, <3>3 DEF OthersStay, Inserting
    <3>7. a \notin overtaken => (old # new => \A u \in Tenants : tenant'[u] # old)
      BY <1>2, <3>2, <3>5 DEF Unique
    <3>8. a \notin overtaken' => Sees(admin[a])'
      BY <3>2, <3>3, <3>4, <3>5, <3>7 DEF Sees, Named
    <3>9. Apart'
      <4>1. ASSUME NEW b \in Admins, b # a, Reaching(b)'
            PROVE  /\ Reaching(b) /\ admin'[b].old = admin[b].old
                   /\ a \notin overtaken => admin'[b].old # old
        <5>1. Reaching(b) /\ admin'[b].old = admin[b].old
          BY <3>6, <4>1 DEF OthersStay, Reaching, Cascading
        <5>2. Named(admin[b].old) = {}
          BY <1>2, <5>1 DEF Current, Sees, Reaching, Cascading
        <5> QED BY <3>2, <5>1, <5>2 DEF Named
      <4>2. Reaching(a)' => a \notin overtaken
        BY <3>4 DEF Reaching
      <4> QED BY <1>2, <3>3, <4>1, <4>2 DEF Apart
    <3>10. ASSUME NEW x \in Refs, x \notin left', ref[x] \in Names, home[x] = row, tenant[row] = ref[x]
           PROVE  new = ref[x] \/ (admin'[a] # Idle /\ x \in Behind(a)')
      <4>1. a \notin overtaken
        BY <3>1, <3>10, LeftGrows
      <4>2. ref[x] = old
        BY <3>2, <3>10, <4>1
      <4>3. CASE old # new
        BY <1>1, <3>3, <3>4, <3>10, <4>1, <4>2, <4>3 DEF Behind
      <4> QED BY <4>2, <4>3
    <3> QED BY <1>3, <2>1, <3>1, <3>2, <3>3, <3>6, <3>8, <3>9, <3>10
  <2> QED BY <2>2, <2>3
<1>6. ASSUME RemoveTenant(a) PROVE TenancyInv'
  <2>1. /\ admin[a] # Idle /\ admin[a].kind = "delete" /\ admin[a].at = "write" /\ ~Cascading(a)
        /\ a \notin overtaken => Sees(admin[a])
    BY <1>2, <1>6 DEF RemoveTenant, Running, Current, Cascading
  <2>2. CASE tenant[admin[a].row] = Gone
    BY <1>1, <1>6, <2>1, <2>2, CallEndsQuietly DEF RemoveTenant
  <2>3. CASE tenant[admin[a].row] # Gone
    <3> DEFINE row == admin[a].row
    <3>1. /\ NameChanges(a, row, Gone) /\ admin' = [admin EXCEPT ![a] = Idle]
          /\ overtaken' = (overtaken \cup Upset(a, row, Gone)) \ {a}
      BY <1>6, <2>3 DEF RemoveTenant
    <3>2. /\ row \in Tenants
          /\ a \notin overtaken => tenant[row] = admin[a].old /\ ~Referenced(Refs, admin[a].old)
      BY <1>2, <2>1 DEF Calls, CallOK, Sees
    <3> HIDE DEF row
    <3>3. admin'[a] = Idle /\ \A b \in Admins : b # a => admin'[b] = admin[b]
      BY <1>2, <3>1, CallEnds
    <3>4. OthersStay(a) /\ ~Reaching(a)'
      BY <3>1, <3>3 DEF OthersStay, Reaching, Cascading
    <3>5. NoneReaches
      BY <3>4, ReachingStays
    <3>6. Apart'
      BY <1>2, <3>5, ApartKeeps
    <3>7. ASSUME NEW x \in Refs, x \notin left', ref[x] \in Names, home[x] = row, tenant[row] = ref[x]
          PROVE  FALSE
      <4>1. a \notin overtaken
        BY <3>1, <3>7, LeftGrows
      <4> QED BY <3>2, <3>7, <4>1 DEF Referenced
    <3> QED BY <1>3, <2>1, <3>1, <3>2, <3>3, <3>4, <3>6, <3>7
  <2> QED BY <2>2, <2>3
<1> QED BY <1>4, <1>5, <1>6

(***************************************************************************)
(* Requests.                                                               *)
(***************************************************************************)
\* A request reads its route and its token, and takes the header of its tenant.
LEMMA ProxyStepsKeep ==
  ASSUME TenancyInv, NEW c \in Clients, ProxyStep(c)
  PROVE  TenancyInv'
<1>1. Kept' /\ UNCHANGED <<tenant, ref, active, home, admin, overtaken, left>>
  BY ProxySteps DEF TenancyInv
<1>2. /\ Kept /\ TenancyTypeOK /\ Current /\ Requests /\ Unique
      /\ CrossingTakesTwoChanges /\ SettledHeader /\ ReferencesFollowTenant
  BY DEF TenancyInv, Kept
<1>3. /\ Current' /\ FreshIds' /\ Apart' /\ ReferencesFollowTenant'
      /\ \A b \in Admins : Reaching(b)' = Reaching(b)
  <2>1. Current' /\ ReferencesFollowTenant'
    BY <1>1, <1>2 DEF Current, Sees, Named, Referenced, ReferencesFollowTenant, Behind
  <2>2. FreshIds'
    BY <1>1 DEF TenancyInv, FreshIds, Inserting
  <2>3. \A b \in Admins : Reaching(b)' = Reaching(b)
    BY <1>1 DEF Reaching, Cascading
  <2> QED BY <1>1, <2>1, <2>2, <2>3 DEF TenancyInv, Apart
<1>4. \A n : Named(n)' = Named(n)
  BY <1>1 DEF Named
<1>5. /\ Renaming' = Renaming
      /\ \A b \in Admins : admin'[b] = admin[b]
  BY <1>1 DEF Renaming, Running
<1>6. request \in [Clients -> Request \cup {Idle}]
  BY <1>2 DEF TenancyTypeOK
<1>7. request[c] # Idle => request[c] \in Request /\ request[c].owner \in Tenants
  BY <1>2, RequestType DEF Kept, Owned
<1>8. ASSUME NEW q, request' = [request EXCEPT ![c] = q],
             q # Idle /\ ~q.stray => Near(q),
             q # Idle /\ q.at \in {"config", "forwarded"} /\ home[q.token] # q.owner
                      /\ q.token \notin left /\ ~q.stray => q.changes = 2,
             q # Idle /\ q.at = "forwarded" /\ ~q.failed /\ q.changes = 0 /\ ~q.stray
                      => q.header = q.owner
      PROVE  TenancyInv'
  <2>1. \A d \in Clients : request'[d] = IF d = c THEN q ELSE request[d]
    BY <1>6, <1>8
  <2>2. \A d \in Clients : request[d] # Idle /\ ~request[d].stray => Near(request[d])
    BY <1>2 DEF Requests
  <2>3. ASSUME NEW d \in Clients, request'[d] # Idle, ~request'[d].stray
        PROVE  Near(request[d])'
    <3>1. Near(request'[d])
      BY <1>8, <2>1, <2>2, <2>3
    <3>2. /\ \A u \in Tenants : tenant'[u] = tenant[u]
          /\ Named(request[d].name)' = {} <=> Named(request'[d].name) = {}
      BY <1>1 DEF Named
    <3> QED BY <1>3, <1>5, <3>1, <3>2, <1>1 DEF Near
  <2>4. Requests'
    BY <2>3 DEF Requests
  <2>5. CrossingTakesTwoChanges'
    BY <1>1, <1>2, <1>8, <2>1 DEF CrossingTakesTwoChanges
  <2>6. SettledHeader'
    BY <1>1, <1>2, <1>8, <2>1 DEF SettledHeader
  <2> QED BY <1>1, <1>3, <2>4, <2>5, <2>6 DEF TenancyInv
<1>9. ASSUME NEW r \in Routes, NEW k \in Tokens, ReadRoute(c, r, k) PROVE TenancyInv'
  <2> DEFINE n == IF Renaming THEN 1 ELSE 0
             s == r \in left
             q == [at |-> "token", token |-> k, name |-> ref[r], owner |-> home[r], header |-> None,
                   failed |-> FALSE, stray |-> s, changes |-> n]
  <2>1. ref[r] \in Names /\ r \in Refs
    BY <1>9 DEF ReadRoute, Refs
  <2>2. request' = [request EXCEPT ![c] = q]
    BY <1>9 DEF ReadRoute
  <2>3. ~Renaming => n = 0
    OBVIOUS
  <2>4. Renaming => n = 1
    OBVIOUS
  <2>5. ~Renaming => \A b \in Admins : ~Reaching(b)
    BY RenamingIsCascading DEF Reaching
  <2>6. ~s /\ ~Renaming => tenant[home[r]] = ref[r]
    BY <1>2, <2>1, <2>5, RowInPlace
  <2>7. ~s /\ Renaming =>
           \/ tenant[home[r]] = ref[r]
           \/ /\ Named(ref[r]) = {}
              /\ \A b \in Admins : Reaching(b) /\ admin[b].old = ref[r] => admin[b].row = home[r]
    <3>1. ASSUME ~s, NEW b \in Admins, admin[b] # Idle, r \in Behind(b)
          PROVE  /\ Named(ref[r]) = {}
                 /\ \A d \in Admins : Reaching(d) /\ admin[d].old = ref[r] => admin[d].row = home[r]
      <4>1. Reaching(b) /\ ref[r] = admin[b].old /\ home[r] = admin[b].row
        BY <3>1, BehindReaching
      <4>2. Named(admin[b].old) = {}
        BY <1>2, <4>1 DEF Current, Sees, Reaching, Cascading
      <4> QED BY <4>1, <4>2 DEF TenancyInv, Apart
    <3> QED BY <1>2, <2>1, <3>1 DEF ReferencesFollowTenant
  <2> HIDE DEF n, s
  <2>8. ~s => Near(q)
    BY <2>3, <2>4, <2>6, <2>7 DEF Near
  <2>9. q.stray = s /\ q.at = "token"
    OBVIOUS
  <2> HIDE DEF q
  <2> QED BY <1>8, <2>2, <2>8, <2>9
<1>10. ASSUME AcceptToken(c) PROVE TenancyInv'
  <2> DEFINE p == request[c]
             q == [p EXCEPT !.at = "config"]
  <2>1. p # Idle /\ p.at = "token" /\ Accepted(p) /\ request' = [request EXCEPT ![c] = q]
    BY <1>6, <1>10 DEF AcceptToken
  <2>2. p \in Request /\ p.owner \in Tenants /\ p.token \in Tokens /\ p.token \in Refs /\ p.name \in Names
    BY <1>7, <2>1 DEF Request, Refs
  <2>3. ~p.stray => Near(p)
    BY <1>2, <2>1 DEF Requests
  <2>4. home[p.token] \in Tenants /\ ref[p.token] = p.name
    BY <1>2, <2>1, <2>2 DEF Accepted, Kept, Owned
  <2> HIDE DEF p
  <2>5. /\ q \in Request /\ q.owner = p.owner /\ q.token = p.token /\ q.changes = p.changes /\ q.stray = p.stray
        /\ q.name = p.name /\ q.at = "config"
    BY <2>2 DEF Request
  <2> HIDE DEF q
  <2>6. ~q.stray => Near(q)
    BY <2>3, <2>5 DEF Near
  <2>7. ASSUME home[p.token] # p.owner, p.token \notin left, ~p.stray, p.changes # 2 PROVE FALSE
    <3>1. tenant[p.owner] = p.name \/ (p.changes = 1 /\ Named(p.name) = {}
            /\ \A b \in Admins : Reaching(b) /\ admin[b].old = p.name => admin[b].row = p.owner)
      <4>1. p.changes = 0 \/ p.changes = 1
        BY <2>2, <2>7 DEF Request
      <4> QED BY <2>3, <2>7, <4>1 DEF Near
    <3>2. tenant[home[p.token]] # p.name
      BY <1>2, <2>2, <2>4, <2>7, <3>1 DEF Unique, Named
    <3>3. PICK b \in Admins : admin[b] # Idle /\ p.token \in Behind(b)
      BY <1>2, <2>2, <2>4, <2>7, <3>2 DEF ReferencesFollowTenant
    <3>4. Reaching(b) /\ p.name = admin[b].old /\ home[p.token] = admin[b].row
      BY <2>4, <3>3, BehindReaching
    <3>5. Named(p.name) = {}
      BY <1>2, <3>4 DEF Current, Sees, Reaching, Cascading
    <3>6. tenant[p.owner] # p.name
      BY <2>2, <3>5 DEF Named
    <3> QED BY <2>7, <3>1, <3>4, <3>6
  <2>8. q.at # "forwarded"
    BY <2>5
  <2> QED BY <1>8, <2>1, <2>5, <2>6, <2>7, <2>8
<1>11. ASSUME NEW fails \in BOOLEAN, Forward(c, fails) PROVE TenancyInv'
  <2> DEFINE p == request[c]
             h == IF fails THEN None ELSE HeaderOf(p.name)
             q == [p EXCEPT !.at = "forwarded", !.failed = fails, !.header = h]
  <2>1. p # Idle /\ p.at = "config" /\ request' = [request EXCEPT ![c] = q]
    BY <1>6, <1>11 DEF Forward
  <2>2. p \in Request /\ p.owner \in Tenants /\ p.name \in Names
    BY <1>7, <2>1 DEF Request
  <2>3. ~p.stray => Near(p)
    BY <1>2, <2>1 DEF Requests
  <2>4. home[p.token] # p.owner /\ p.token \notin left /\ ~p.stray => p.changes = 2
    BY <1>2, <2>1 DEF CrossingTakesTwoChanges
  <2>5. ~fails => h = HeaderOf(p.name)
    OBVIOUS
  <2> HIDE DEF p, h
  <2>6. /\ q.owner = p.owner /\ q.token = p.token /\ q.changes = p.changes /\ q.stray = p.stray
        /\ q.name = p.name /\ q.at = "forwarded" /\ q.header = h /\ q.failed = fails
    BY <2>2 DEF Request
  <2> HIDE DEF q
  <2>7. ~q.stray => Near(q)
    BY <2>3, <2>6 DEF Near
  <2>8. ASSUME ~fails, p.changes = 0, ~p.stray PROVE h = p.owner
    <3>1. tenant[p.owner] = p.name
      BY <2>3, <2>8 DEF Near
    <3>2. Named(p.name) = {p.owner}
      BY <1>2, <2>2, <3>1 DEF Named, Unique
    <3> QED BY <2>5, <2>8, <3>2 DEF HeaderOf
  <2> QED BY <1>8, <2>1, <2>4, <2>6, <2>7, <2>8
<1>12. ASSUME RejectToken(c) \/ Respond(c) PROVE TenancyInv'
  <2>1. request' = [request EXCEPT ![c] = Idle]
    BY <1>12 DEF RejectToken, Respond
  <2> QED BY <1>8, <2>1
<1> QED BY <1>9, <1>10, <1>11, <1>12 DEF ProxyStep

(***************************************************************************)
(* The tables of routes and tokens.                                        *)
(***************************************************************************)
\* Deletes to whose name a row came are overtaken; the other calls do not rely on rows.
LEMMA RowsUndisturbed ==
  ASSUME NEW a \in Admins, UNCHANGED tenant, Miscounting(a) \subseteq overtaken'
  PROVE  Undisturbed(a)
BY DEF Undisturbed, Miscounting

\* What the steps have in common.
LEMMA RowStepKeeps ==
  ASSUME TenancyInv, Kept', NEW a \in Admins, UNCHANGED <<tenant, request>>, OthersStay(a),
         Miscounting(a) \subseteq overtaken', overtaken' \subseteq overtaken \cup Miscounting(a),
         \A k \in Tokens : ref[k] # None => home'[k] = home[k],
         \A k \in Tokens : k \in left => k \in left',
         \A x \in Refs : ref[x] = None => ref'[x] = None \/ (admin[a] # Idle /\ Inserting(admin[a], x)),
         \A x \in Refs : admin'[a] # Idle => ~Inserting(admin'[a], x),
         Cascading(a)' => Cascading(a) /\ admin'[a].old = admin[a].old /\ admin'[a].row = admin[a].row
                          /\ admin'[a].new = admin[a].new,
         admin'[a] # Idle /\ a \notin overtaken' => Sees(admin[a])',
         \A x \in Refs : x \notin left' /\ ref'[x] \in Names =>
            \/ tenant[home'[x]] = ref'[x]
            \/ admin'[a] # Idle /\ x \in Behind(a)'
            \/ /\ x \notin left /\ ref'[x] = ref[x] /\ home'[x] = home[x]
               /\ admin[a] # Idle => x \notin Behind(a)
  PROVE  TenancyInv'
<1>1. Current'
  BY RowsUndisturbed, CurrentKeeps DEF TenancyInv
<1>2. FreshIds'
  BY FreshIdsKeep DEF TenancyInv
<1>3. NoneReaches
  <2>1. a \notin overtaken' /\ admin'[a] # Idle => a \notin overtaken
    BY DEF OthersStay
  <2> QED BY <2>1, ReachingStays DEF Reaching, Cascading
<1>4. Renaming' => Renaming
  <2>1. Renaming' <=> \E b \in Admins : Cascading(b)'
    BY DEF Renaming, Cascading, Running
  <2>2. \A b \in Admins : Cascading(b)' => Cascading(b)
    BY DEF OthersStay, Cascading
  <2> QED BY <2>1, <2>2, RenamingIsCascading
<1>5. Apart' /\ Requests' /\ CrossingTakesTwoChanges' /\ SettledHeader'
  BY <1>3, <1>4, ApartKeeps, RequestsKeep, PassedKeep DEF TenancyInv
<1>6. \A b \in overtaken' \ overtaken : admin[b] # Idle => admin[b].kind = "delete"
  BY DEF Miscounting
<1>7. ReferencesFollowTenant'
  BY <1>6, RowsKeep DEF TenancyInv
<1> QED BY <1>1, <1>2, <1>5, <1>7 DEF TenancyInv

\* The step of a call that ends.
LEMMA LastStepKeeps ==
  ASSUME TenancyInv, Kept', NEW a \in Admins, UNCHANGED <<tenant, request>>,
         admin' = [admin EXCEPT ![a] = Idle], overtaken' = (overtaken \cup Miscounting(a)) \ {a},
         \A k \in Tokens : ref[k] # None => home'[k] = home[k],
         \A k \in Tokens : k \in left => k \in left',
         \A x \in Refs : ref[x] = None => ref'[x] = None \/ (admin[a] # Idle /\ Inserting(admin[a], x)),
         \A x \in Refs : x \notin left' /\ ref'[x] \in Names =>
            \/ tenant[home'[x]] = ref'[x]
            \/ /\ x \notin left /\ ref'[x] = ref[x] /\ home'[x] = home[x]
               /\ admin[a] # Idle => x \notin Behind(a)
  PROVE  TenancyInv'
<1>1. admin'[a] = Idle /\ \A b \in Admins : b # a => admin'[b] = admin[b]
  BY CallEnds DEF TenancyInv, Kept
<1>2. OthersStay(a) /\ ~Cascading(a)'
  BY <1>1 DEF OthersStay, Cascading
<1>3. Miscounting(a) \subseteq overtaken' /\ overtaken' \subseteq overtaken \cup Miscounting(a)
  BY DEF Miscounting
<1> QED BY <1>1, <1>2, <1>3, RowStepKeeps

\* A rename's rows: those it moves name its tenant, unless it is overtaken; and no other
\* rename that knows its rows takes them from the same name.
LEMMA CascadeRows ==
  ASSUME TenancyInv, NEW a \in Admins, Cascading(a), NEW S, S \subseteq Refs,
         ref' = Cascade(S, admin[a].old, admin[a].new), UNCHANGED home,
         left' = left \cup Misnamed(a)
  PROVE  /\ admin[a].row \in Tenants /\ admin[a].old \in Names /\ admin[a].new \in Names
         /\ \A x \in Refs : ref'[x] = IF x \in S /\ ref[x] = admin[a].old THEN admin[a].new ELSE ref[x]
         /\ \A x \in Refs : x \notin left' /\ ref'[x] \in Names =>
               \/ tenant[home'[x]] = ref'[x]
               \/ x \notin left /\ ref'[x] = ref[x] /\ home'[x] = home[x]
<1> DEFINE row == admin[a].row
           old == admin[a].old
           new == admin[a].new
<1>1. row \in Tenants /\ old \in Names /\ new \in Names
  BY DEF Cascading, TenancyInv, Kept, Calls, CallOK
<1>2. \A x \in Refs : ref'[x] = IF x \in S /\ ref[x] = old THEN new ELSE ref[x]
  BY <1>1, CascadeType DEF TenancyInv
<1>3. ASSUME NEW x \in Refs, x \notin left', ref'[x] # ref[x]
      PROVE  tenant[home[x]] = ref'[x]
  <2>1. x \notin left /\ a \notin overtaken /\ ref[x] = old /\ ref'[x] = new /\ old # new
    BY <1>2, <1>3 DEF Misnamed
  <2>2. Reaching(a)
    BY <2>1 DEF Reaching
  <2>3. tenant[row] = new /\ Named(old) = {}
    BY <2>1, <2>2 DEF Reaching, Cascading, TenancyInv, Current, Sees
  <2>4. home[x] \in Tenants
    BY <1>1, <2>1 DEF TenancyInv, Kept, Owned
  <2>5. tenant[home[x]] # old
    BY <2>3, <2>4 DEF Named
  <2>6. PICK b \in Admins : admin[b] # Idle /\ x \in Behind(b)
    BY <1>1, <2>1, <2>5 DEF TenancyInv, ReferencesFollowTenant
  <2>7. Reaching(b) /\ admin[b].old = old /\ home[x] = admin[b].row
    BY <2>1, <2>6, BehindReaching
  <2>8. b = a
    BY <2>2, <2>7 DEF TenancyInv, Apart
  <2> QED BY <2>1, <2>3, <2>7, <2>8
<1>4. \A x \in Refs : x \notin left' => x \notin left
  OBVIOUS
<1> QED BY <1>1, <1>2, <1>3, <1>4

\* A row is renamed, inserted, moved, deleted or left behind.
LEMMA RowStepsKeep ==
  ASSUME TenancyInv, NEW a \in Admins,
         \/ RenameRoutes(a) \/ RenameTokens(a) \/ InsertRow(a) \/ UpdateRow(a)
         \/ \E x \in Refs : DeleteRow(a, x)
         \/ \E k \in Tokens, on \in BOOLEAN : SetTokenActive(a, k, on)
         \/ InsertRotated(a) \/ RevokeRotated(a) \/ StopHalfway(a)
  PROVE  TenancyInv'
<1>1. Kept' /\ UNCHANGED <<tenant, request>>
  BY RowSteps DEF TenancyInv
<1>2. /\ Kept /\ TenancyTypeOK /\ Calls /\ Current /\ FreshIds
      /\ None \notin Names /\ Gone \notin Names /\ None # Gone /\ Routes \cap Tokens = {}
      /\ ref \in [Refs -> Names \cup {None, Gone}]
  BY TenancyAssumption DEF TenancyInv, Kept, TenancyTypeOK
\* No row's name: nothing to count.
<1>3. UNCHANGED ref => Miscounting(a) = {}
  BY DEF Miscounting
<1>4. \A k \in Tokens : k \in Refs
  BY DEF Refs
<1>5. ASSUME RenameRoutes(a) PROVE TenancyInv'
  <2>1. /\ admin[a] # Idle /\ admin[a].kind = "rename" /\ admin[a].at = "routes" /\ Cascading(a)
        /\ ref' = Cascade(Routes, admin[a].old, admin[a].new) /\ Continue(a, "tokens")
        /\ overtaken' = overtaken \cup Miscounting(a) /\ left' = left \cup Misnamed(a) /\ UNCHANGED home
    BY <1>5 DEF RenameRoutes, Running, Cascading
  <2>2. /\ admin[a].old \in Names
        /\ \A x \in Refs : ref'[x] = IF x \in Routes /\ ref[x] = admin[a].old THEN admin[a].new ELSE ref[x]
        /\ \A x \in Refs : x \notin left' /\ ref'[x] \in Names =>
               \/ tenant[home'[x]] = ref'[x]
               \/ x \notin left /\ ref'[x] = ref[x] /\ home'[x] = home[x]
    BY <2>1, CascadeRows DEF Refs
  <2>3. /\ admin'[a] # Idle /\ admin'[a].kind = "rename" /\ admin'[a].at = "tokens"
        /\ admin'[a].row = admin[a].row /\ admin'[a].old = admin[a].old /\ admin'[a].new = admin[a].new
        /\ \A b \in Admins : b # a => admin'[b] = admin[b]
    BY <1>2, <2>1, CallContinues DEF Steps
  <2>4. OthersStay(a) /\ (a \in overtaken' <=> a \in overtaken) /\ \A x : ~Inserting(admin'[a], x)
    BY <2>1, <2>3 DEF OthersStay, Miscounting, Inserting
  <2>5. a \notin overtaken' => Sees(admin[a])'
    BY <1>1, <1>2, <2>1, <2>3, <2>4 DEF Current, Sees, Named
  <2>6. ASSUME NEW x \in Refs, ref'[x] = ref[x], x \in Behind(a) PROVE x \in Behind(a)'
    <3>1. x \in Tokens
      BY <2>2, <2>6 DEF Behind, Refs
    <3> QED BY <2>1, <2>3, <2>4, <2>6, <3>1 DEF Behind
  <2>7. \A x \in Refs : ref[x] = None => ref'[x] = None
    BY <1>2, <2>2
  <2> QED BY <1>1, <2>1, <2>2, <2>3, <2>4, <2>5, <2>6, <2>7, RowStepKeeps
<1>6. ASSUME RenameTokens(a) PROVE TenancyInv'
  <2>1. /\ admin[a] # Idle /\ admin[a].at = "tokens" /\ Cascading(a)
        /\ ref' = Cascade(Tokens, admin[a].old, admin[a].new) /\ EndWrite(a)
        /\ left' = left \cup Misnamed(a) /\ UNCHANGED home
    BY <1>6 DEF RenameTokens, Running, Cascading
  <2>2. /\ admin[a].old \in Names
        /\ \A x \in Refs : ref'[x] = IF x \in Tokens /\ ref[x] = admin[a].old THEN admin[a].new ELSE ref[x]
        /\ \A x \in Refs : x \notin left' /\ ref'[x] \in Names =>
               \/ tenant[home'[x]] = ref'[x]
               \/ x \notin left /\ ref'[x] = ref[x] /\ home'[x] = home[x]
    BY <2>1, CascadeRows DEF Refs
  <2>3. ASSUME NEW x \in Refs, x \in Behind(a) PROVE ref'[x] # ref[x]
    BY <2>1, <2>2, <2>3 DEF Behind
  <2>4. \A x \in Refs : ref[x] = None => ref'[x] = None
    BY <1>2, <2>2
  <2> QED BY <1>1, <2>1, <2>2, <2>3, <2>4, LastStepKeeps DEF EndWrite
<1>7. ASSUME InsertRow(a) PROVE TenancyInv'
  <2>1. /\ admin[a] # Idle /\ admin[a].kind = "create" /\ ~Cascading(a)
        /\ Insert(admin[a].row, admin[a].new, admin[a].owner) /\ EndWrite(a) /\ left' = left \cup Misnamed(a)
    BY <1>7 DEF InsertRow, Running, Cascading
  <2>2. /\ admin[a].row \in Refs /\ admin[a].new \in Names /\ admin[a].owner \in Tenants
        /\ a \notin overtaken => tenant[admin[a].owner] = admin[a].new
        /\ Inserting(admin[a], admin[a].row) /\ ref[admin[a].row] = None
    BY <1>2, <2>1 DEF Calls, CallOK, Current, Sees, FreshIds, Inserting
  <2>3. /\ \A y \in Refs : ref'[y] = IF y = admin[a].row THEN admin[a].new ELSE ref[y]
        /\ \A y \in Refs : home'[y] = IF y = admin[a].row THEN admin[a].owner ELSE home[y]
    BY <1>2, <2>1, <2>2, InsertType
  <2>4. admin[a].row \notin left' => a \notin overtaken
    BY <1>2, <2>1, <2>2, <2>3 DEF Misnamed
  <2>5. \A x \in Refs : x \notin Behind(a)
    BY <2>1, BehindReaching DEF Reaching
  <2> QED BY <1>1, <1>4, <2>1, <2>2, <2>3, <2>4, <2>5, LastStepKeeps DEF EndWrite
<1>8. ASSUME UpdateRow(a) PROVE TenancyInv'
  <2>1. admin[a] # Idle /\ admin[a].kind = "move" /\ ~Cascading(a) /\ EndWrite(a)
    BY <1>8 DEF UpdateRow, Running, Cascading
  <2>2. /\ admin[a].row \in Routes /\ admin[a].row \in Refs /\ admin[a].owner \in Tenants
        /\ a \notin overtaken => tenant[admin[a].owner] = admin[a].new
    BY <1>2, <2>1 DEF Calls, CallOK, Current, Sees, Refs
  <2>3. \A x \in Refs : x \notin Behind(a)
    BY <2>1, BehindReaching DEF Reaching
  <2>4. CASE ref[admin[a].row] \in Names
    <3>1. /\ left' = IF a \in overtaken THEN left \cup {admin[a].row} ELSE left \ {admin[a].row}
          /\ \A y \in Refs : ref'[y] = IF y = admin[a].row THEN admin[a].new ELSE ref[y]
          /\ \A y \in Refs : home'[y] = IF y = admin[a].row THEN admin[a].owner ELSE home[y]
      BY <1>2, <1>8, <2>4 DEF UpdateRow, TenancyTypeOK
    <3>2. \A k \in Tokens : k # admin[a].row
      BY <1>2, <2>2
    <3>3. /\ \A k \in Tokens : home'[k] = home[k] /\ (k \in left => k \in left')
          /\ \A x \in Refs : ref[x] = None => ref'[x] = None
      BY <1>2, <1>4, <2>4, <3>1, <3>2
    <3>4. ASSUME NEW x \in Refs, x \notin left', x # admin[a].row PROVE x \notin left
      BY <3>1, <3>4
    <3>5. admin[a].row \notin left' => tenant[home'[admin[a].row]] = ref'[admin[a].row]
      BY <2>2, <3>1
    <3> QED BY <1>1, <2>1, <2>3, <3>1, <3>3, <3>4, <3>5, LastStepKeeps DEF EndWrite
  <2>5. CASE ref[admin[a].row] \notin Names
    <3>1. UNCHANGED <<ref, home, left>>
      BY <1>8, <2>5 DEF UpdateRow
    <3> QED BY <1>1, <2>1, <2>3, <3>1, LastStepKeeps DEF EndWrite
  <2> QED BY <2>4, <2>5
\* One statement, by a slot that has no call under way.
<1>9. ASSUME admin[a] = Idle, UNCHANGED <<home, admin, overtaken, left>>,
             \A x \in Refs : ref'[x] = ref[x] \/ (ref[x] \in Names /\ ref'[x] = Gone)
      PROVE  TenancyInv'
  <2>1. Miscounting(a) = {}
    <3>1. \A b \in Admins : admin[b] # Idle /\ admin[b].kind = "delete" => admin[b].old \in Names
      BY <1>2 DEF Calls, CallOK
    <3> QED BY <1>2, <1>9, <3>1 DEF Miscounting
  <2>2. OthersStay(a) /\ ~Cascading(a)'
    BY <1>9 DEF OthersStay, Cascading
  <2> QED BY <1>1, <1>2, <1>9, <2>1, <2>2, RowStepKeeps
<1>10. ASSUME NEW x \in Refs, DeleteRow(a, x) PROVE TenancyInv'
  <2>1. \A y \in Refs : ref'[y] = IF y = x THEN Gone ELSE ref[y]
    BY <1>2, <1>10 DEF DeleteRow
  <2> QED BY <1>9, <1>10, <2>1 DEF DeleteRow
<1>11. ASSUME NEW k \in Tokens, NEW on \in BOOLEAN, SetTokenActive(a, k, on) PROVE TenancyInv'
  BY <1>9, <1>11 DEF SetTokenActive
<1>12. ASSUME InsertRotated(a) PROVE TenancyInv'
  <2>1. /\ admin[a] # Idle /\ admin[a].kind = "rotate" /\ admin[a].at = "write" /\ ~Cascading(a)
        /\ Insert(admin[a].other, admin[a].new, admin[a].owner) /\ Continue(a, "revoke")
        /\ left' = left \cup Misnamed(a) \cup {y \in {admin[a].other} : admin[a].row \in left}
        /\ overtaken' = overtaken \cup Miscounting(a)
    BY <1>12 DEF InsertRotated, Running, Cascading
  <2>2. /\ admin[a].other \in Refs /\ admin[a].new \in Names /\ admin[a].owner \in Tenants
        /\ a \notin overtaken /\ admin[a].row \notin left => tenant[admin[a].owner] = admin[a].new
        /\ Inserting(admin[a], admin[a].other) /\ ref[admin[a].other] = None
    BY <1>2, <1>4, <2>1 DEF Calls, CallOK, Current, Sees, FreshIds, Inserting
  <2>3. /\ \A y \in Refs : ref'[y] = IF y = admin[a].other THEN admin[a].new ELSE ref[y]
        /\ \A y \in Refs : home'[y] = IF y = admin[a].other THEN admin[a].owner ELSE home[y]
    BY <1>2, <2>1, <2>2, InsertType
  <2>4. /\ admin'[a].kind = "rotate" /\ admin'[a].at = "revoke" /\ admin'[a] # Idle
        /\ \A b \in Admins : b # a => admin'[b] = admin[b]
    BY <1>2, <2>1, CallContinues DEF Steps
  <2>5. OthersStay(a) /\ ~Cascading(a)' /\ \A x : ~Inserting(admin'[a], x)
    BY <2>1, <2>4 DEF OthersStay, Cascading, Inserting
  <2>6. Sees(admin[a])'
    BY <2>4 DEF Sees
  <2>7. admin[a].other \notin left' => a \notin overtaken /\ admin[a].row \notin left
    BY <1>2, <2>1, <2>2, <2>3 DEF Misnamed
  <2>8. \A x \in Refs : x \notin Behind(a)
    BY <2>1, BehindReaching DEF Reaching
  <2> QED BY <1>1, <1>4, <2>1, <2>2, <2>3, <2>4, <2>5, <2>6, <2>7, <2>8, RowStepKeeps
<1>13. ASSUME RevokeRotated(a) PROVE TenancyInv'
  <2>1. admin[a] # Idle /\ ~Cascading(a) /\ End(a) /\ UNCHANGED <<ref, home, left>>
    BY <1>13 DEF RevokeRotated, Running, Cascading
  <2> QED BY <1>1, <2>1, LastStepKeeps, <1>3, BehindReaching DEF End, Reaching
<1>14. ASSUME StopHalfway(a) PROVE TenancyInv'
  <2>1. admin[a] # Idle /\ left' = left \cup Behind(a) /\ End(a) /\ UNCHANGED <<ref, home>>
    BY <1>14 DEF StopHalfway
  <2> QED BY <1>1, <1>3, <2>1, LastStepKeeps DEF End
<1> QED BY <1>5, <1>6, <1>7, <1>8, <1>10, <1>11, <1>12, <1>13, <1>14

LEMMA InitTenancyInv == TenancyInit => TenancyInv
<1> SUFFICES ASSUME TenancyInit PROVE TenancyInv
  OBVIOUS
<1>1. Kept
  BY InitKept
<1>2. Current /\ FreshIds /\ Apart /\ Requests
  BY DEF TenancyInit, Current, FreshIds, Apart, Reaching, Cascading, Requests
<1>3. ReferencesFollowTenant /\ CrossingTakesTwoChanges /\ SettledHeader
  BY TenancyAssumption DEF TenancyInit, ReferencesFollowTenant, CrossingTakesTwoChanges, SettledHeader
<1> QED BY <1>1, <1>2, <1>3 DEF TenancyInv

LEMMA StepTenancyInv == TenancyInv /\ [TenancyNext]_tenancyVars => TenancyInv'
<1> SUFFICES ASSUME TenancyInv, [TenancyNext]_tenancyVars PROVE TenancyInv'
  OBVIOUS
<1>1. CASE UNCHANGED tenancyVars
  <2>1. Kept'
    BY <1>1, StepKept DEF TenancyInv
  <2>2. Current' /\ FreshIds' /\ Apart'
    BY <1>1 DEF tenancyVars, TenancyInv, Current, Sees, Named, Referenced, FreshIds, Inserting, Apart, Reaching, Cascading
  <2>3. Requests'
    BY <1>1 DEF tenancyVars, TenancyInv, Requests, Near, Named, Renaming, Running, Reaching, Cascading
  <2>4. ReferencesFollowTenant' /\ CrossingTakesTwoChanges' /\ SettledHeader'
    BY <1>1 DEF tenancyVars, TenancyInv, ReferencesFollowTenant, Behind, CrossingTakesTwoChanges, SettledHeader
  <2> QED BY <2>1, <2>2, <2>3, <2>4 DEF TenancyInv
<1>2. ASSUME NEW a \in Admins, TenantCall(a) PROVE TenancyInv'
  BY <1>2, ReadingStepsKeep, TenantStepsKeep, RowStepsKeep DEF TenantCall
<1>3. ASSUME NEW a \in Admins, RowCall(a) PROVE TenancyInv'
  BY <1>3, ReadingStepsKeep, RowStepsKeep DEF RowCall
<1>4. ASSUME NEW c \in Clients, ProxyStep(c) PROVE TenancyInv'
  BY <1>4, ProxyStepsKeep
<1> QED BY <1>1, <1>2, <1>3, <1>4 DEF TenancyNext

\* Whatever calls overlap: what a call read is still so when it writes unless another overtook
\* it, and what a request read differs from the tables by no more than the changes of names
\* it has met.
THEOREM SpecTenancyInv == TenancySpec => []TenancyInv
<1> QED BY InitTenancyInv, StepTenancyInv, PTL DEF TenancySpec

\* However many operators work at a time, a row names the tenant it was created for, whatever
\* was renamed, deleted and created since, unless a rename still has it to do, or a stopped
\* rename or an overtaken call left it.
THEOREM SpecReferencesFollowTenant == TenancySpec => []ReferencesFollowTenant
<1>1. TenancyInv => ReferencesFollowTenant
  BY DEF TenancyInv
<1> QED BY <1>1, SpecTenancyInv, PTL

\* However many operators work at a time, one change of names, whole or half-done, lets no
\* token through to the route of another tenant, those left aside.
THEOREM SpecCrossingTakesTwoChanges == TenancySpec => []CrossingTakesTwoChanges
<1>1. TenancyInv => CrossingTakesTwoChanges
  BY DEF TenancyInv
<1> QED BY <1>1, SpecTenancyInv, PTL

\* However many operators work at a time, a request that meets no change of names is forwarded
\* with its own tenant's header.
THEOREM SpecSettledHeader == TenancySpec => []SettledHeader
<1>1. TenancyInv => SettledHeader
  BY DEF TenancyInv
<1> QED BY <1>1, SpecTenancyInv, PTL

\* However many operators work at a time, a token in order is turned away from its own tenant's
\* route only because of a change of names that the request met, or that left one of the two.
THEOREM SpecRefusedForCause == TenancySpec => RefusedForCause
<1> DEFINE Cause(c) ==
        LET q == request[c] IN
        \/ ref[q.token] = Gone \/ ~active[q.token]
        \/ home[q.token] # q.owner
        \/ q.token \in left \/ q.stray
        \/ q.changes > 0
<1>1. ASSUME TenancyInv, NEW c \in Clients, RejectToken(c) PROVE Cause(c)
  <2> DEFINE p == request[c]
  <2>1. p # Idle /\ ~Accepted(p)
    BY <1>1 DEF RejectToken
  <2>2. p \in Request /\ p.token \in Refs /\ p.name \in Names /\ p.changes \in 0..2 /\ ref[p.token] # None
    BY <1>1, <2>1, RequestType DEF TenancyInv, Kept, Owned, Request, Refs
  <2>3. ~p.stray => Near(p)
    BY <1>1, <2>1 DEF TenancyInv, Requests
  <2>4. ref[p.token] \in Names \cup {None, Gone}
    BY <1>1, <2>2 DEF TenancyInv, Kept, TenancyTypeOK
  <2> HIDE DEF p
  <2>5. ASSUME ref[p.token] # Gone, active[p.token], home[p.token] = p.owner, p.token \notin left,
               ~p.stray, p.changes = 0
        PROVE  FALSE
    <3>1. tenant[p.owner] = p.name /\ \A a \in Admins : ~Reaching(a)
      BY <2>3, <2>5, RenamingIsCascading DEF Near, Reaching
    <3>2. tenant[home[p.token]] = ref[p.token]
      BY <1>1, <2>2, <2>4, <2>5, <3>1, RowInPlace DEF TenancyInv
    <3> QED BY <2>1, <2>5, <3>1, <3>2 DEF Accepted
  <2>6. p.changes = 0 \/ p.changes > 0
    BY <2>2
  <2> QED BY <2>5, <2>6 DEF p
<1>2. TenancyInv /\ [TenancyNext]_tenancyVars => [\A c \in Clients : RejectToken(c) => Cause(c)]_tenancyVars
  BY <1>1
<1> QED BY <1>2, SpecTenancyInv, PTL DEF TenancySpec, RefusedForCause
===============================================================================
