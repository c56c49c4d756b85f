---------------------------- MODULE Provisioning ----------------------------
(***************************************************************************)
(* Provisioning grants: an operator creates a grant for a number of uses;  *)
(* agents present its secret to POST /provision and receive proxy tokens.  *)
(*                                                                         *)
(* handleProvision runs four statements on a database that other calls, on *)
(* this replica and on others, use meanwhile: it reads the grant, counts a *)
(* use, inserts the token, and leaves a goroutine to record the issuance.  *)
(* Each is an action.  What a token says (name, scopes, lifetime, tenant)  *)
(* is abstracted; that its insert may fail, the tenant having been renamed *)
(* or deleted since the grant was made, is not.                            *)
(***************************************************************************)
EXTENDS Naturals, FiniteSets

CONSTANTS
    Grants,
    Agents,      \* slots for concurrent calls, on all replicas
    Quotas,      \* the maxUses an operator may ask for (0 means 10, see handleCreateGrant)
    NoGrant,     \* not created yet
    Deleted,     \* the row is gone; ids and secrets are never used again
    NoCall

Grant == [maxUses: Nat \ {0}, useCount: Nat, expired: BOOLEAN]
Call == [grant: Grants, maxUses: Nat \ {0}, at: {"read", "counted", "issued"}]

ASSUME ProvisioningAssumption ==
    /\ Quotas \subseteq Nat \ {0}
    /\ IsFiniteSet(Agents)
    /\ NoGrant \notin Grant
    /\ Deleted \notin Grant
    /\ NoGrant # Deleted
    /\ NoCall \notin Call

VARIABLES
    grant,     \* the provisioning_grants rows
    call,      \* per slot: the grant it read, and how far it got
    issued,    \* history: tokens inserted on account of each grant
    trail      \* rows of grant_issuances per grant

vars == <<grant, call, issued, trail>>

Init ==
    /\ grant = [g \in Grants |-> NoGrant]
    /\ call = [c \in Agents |-> NoCall]
    /\ issued = [g \in Grants |-> 0]
    /\ trail = [g \in Grants |-> 0]

Exists(g) == grant[g] \notin {NoGrant, Deleted}

Live(g) == Exists(g) /\ ~grant[g].expired

At(c, place) == call[c] # NoCall /\ call[c].at = place

(***************************************************************************)
(* Operators and time.                                                     *)
(***************************************************************************)
CreateGrant(g, n) ==
    /\ grant[g] = NoGrant
    /\ grant' = [grant EXCEPT ![g] = [maxUses |-> n, useCount |-> 0, expired |-> FALSE]]
    /\ UNCHANGED <<call, issued, trail>>

DeleteGrant(g) ==
    /\ Exists(g)
    /\ grant' = [grant EXCEPT ![g] = Deleted]
    /\ UNCHANGED <<call, issued, trail>>

Expire(g) ==
    /\ Live(g)
    /\ grant' = [grant EXCEPT ![g].expired = TRUE]
    /\ UNCHANGED <<call, issued, trail>>

(***************************************************************************)
(* handleProvision.  A call that is refused leaves nothing behind.         *)
(***************************************************************************)
ReadGrant(c, g) ==
    /\ call[c] = NoCall
    /\ Live(g)
    /\ call' = [call EXCEPT ![c] = [grant |-> g, maxUses |-> grant[g].maxUses, at |-> "read"]]
    /\ UNCHANGED <<grant, issued, trail>>

\* Mutants, for the checks that a property notices a bug in the code.
MutCountUnchecked(c) == Live(call[c].grant)

\* The WHERE clause of IncrementGrantUseCount.
MayCount(c) == Live(call[c].grant) /\ grant[call[c].grant].useCount < call[c].maxUses

CountUse(c) ==
    /\ At(c, "read")
    /\ MayCount(c)
    /\ grant' = [grant EXCEPT ![call[c].grant].useCount = @ + 1]
    /\ call' = [call EXCEPT ![c].at = "counted"]
    /\ UNCHANGED <<issued, trail>>

RefuseUse(c) ==
    /\ At(c, "read")
    /\ ~MayCount(c)
    /\ call' = [call EXCEPT ![c] = NoCall]
    /\ UNCHANGED <<grant, issued, trail>>


CreateToken(c) ==
    /\ At(c, "counted")
    /\ issued' = [issued EXCEPT ![call[c].grant] = @ + 1]
    /\ call' = [call EXCEPT ![c].at = "issued"]
    /\ UNCHANGED <<grant, trail>>

\* RecordGrantIssuance, by the goroutine: nothing asks whether the grant still exists.
RecordIssuance(c) ==
    /\ At(c, "issued")
    /\ trail' = [trail EXCEPT ![call[c].grant] = @ + 1]
    /\ call' = [call EXCEPT ![c] = NoCall]
    /\ UNCHANGED <<grant, issued>>


\* A statement fails, the tenant is gone, the client's disconnect cancels the call, or its
\* replica stops: whatever was written stays, and a counted use is not given back.
GiveUp(c) ==
    /\ call[c] # NoCall
    /\ call' = [call EXCEPT ![c] = NoCall]
    /\ UNCHANGED <<grant, issued, trail>>

Next ==
    \/ \E g \in Grants : (\E n \in Quotas : CreateGrant(g, n)) \/ DeleteGrant(g) \/ Expire(g)
    \/ \E c \in Agents :
          \/ \E g \in Grants : ReadGrant(c, g)
          \/ CountUse(c) \/ RefuseUse(c) \/ CreateToken(c) \/ RecordIssuance(c) \/ GiveUp(c)

Spec == Init /\ [][Next]_vars

-----------------------------------------------------------------------------
TypeOK ==
    /\ grant \in [Grants -> Grant \cup {NoGrant, Deleted}]
    /\ call \in [Agents -> Call \cup {NoCall}]
    /\ issued \in [Grants -> Nat]
    /\ trail \in [Grants -> Nat]

Place(g, place) == {c \in Agents : At(c, place) /\ call[c].grant = g}

\* Tokens that calls in flight may yet insert on a grant.
Pending(g) == Cardinality(Place(g, "counted"))

\* Uses are paid before a token is issued, never twice for one token: what was issued and
\* what calls in flight may still issue fit in the uses counted, and those in the quota,
\* whichever calls race for the last use.
UsesCoverTokens ==
    \A g \in Grants : Exists(g) =>
        /\ issued[g] + Pending(g) <= grant[g].useCount
        /\ grant[g].useCount <= grant[g].maxUses

\* The audit trail of a grant has at most one row per token, written after the token: no
\* row stands for a token that was not issued, deleted grants included.
TrailFollowsTokens ==
    \A g \in Grants : trail[g] + Cardinality(Place(g, "issued")) <= issued[g]

\* The grant's promise, as an abstract specification: a grant issues no more than it was
\* made for, and once deleted or expired what was already paid and nothing more.  Its
\* allowance is what was issued, what is pending and what is left to count.
Left(g) == IF Live(g) THEN grant[g].maxUses - grant[g].useCount ELSE 0

Offered == [g \in Grants |-> grant[g] # NoGrant]
Allowance == [g \in Grants |-> issued[g] + Pending(g) + Left(g)]

Quota == INSTANCE GrantQuota WITH Offers <- Quotas, offered <- Offered, allowance <- Allowance

KeepsQuota == Quota!Spec
=============================================================================
