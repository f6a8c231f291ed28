----------------------- MODULE ServerResourcesProofs -----------------------
(***************************************************************************)
(* What the control plane has a bounded number of: members of a network,   *)
(* log entries in memory, port forwards and event subscribers: Membership, *)
(* LogStore, Forwards and EventHub, each with its constants, what is       *)
(* assumed of them, its instance and the properties that MCServerResources *)
(* checks; and the proofs of the safety properties for every value of the  *)
(* constants: the inductive invariant of each part, that its initial       *)
(* states satisfy it and its steps keep it, and the theorem about its      *)
(* specification.  The parts share no state with each other.               *)
(***************************************************************************)
EXTENDS Integers, Sequences, FiniteSets, FiniteSetTheorems, TLAPS

-----------------------------------------------------------------------------
(* Facts about finite sets.                                                *)

\* One more element.
LEMMA CardAdd ==
    ASSUME NEW S, IsFiniteSet(S), NEW x, x \notin S
    PROVE  Cardinality(S \cup {x}) = Cardinality(S) + 1 /\ IsFiniteSet(S \cup {x})
  BY FS_AddElement, Zenon

\* One element less.
LEMMA CardRemove ==
    ASSUME NEW S, IsFiniteSet(S), NEW x \in S
    PROVE  Cardinality(S \ {x}) = Cardinality(S) - 1 /\ IsFiniteSet(S \ {x})
  BY FS_RemoveElement, Zenon

\* A part of a finite set has no more elements than the whole.
LEMMA CardPart ==
    ASSUME NEW S, IsFiniteSet(S), NEW U \in SUBSET S
    PROVE  IsFiniteSet(U) /\ Cardinality(U) \in 0..Cardinality(S)
<1>1. IsFiniteSet(U) /\ Cardinality(U) <= Cardinality(S)
  BY FS_Subset, Zenon
<1>2. Cardinality(U) \in Nat /\ Cardinality(S) \in Nat
  BY <1>1, FS_CardinalityType, Zenon
<1> QED  BY <1>1, <1>2

-----------------------------------------------------------------------------
(* Membership.                                                             *)

CONSTANTS
  MemberUsers, Invites, Tabs, MaxUses

\* Finitely many requests to accept an invitation.
ASSUME MembershipAssumption ==
  IsFiniteSet(Tabs) /\ MaxUses \in Nat

VARIABLES
  memberNet, memberRole, invite, tab, joined

M == INSTANCE Membership WITH
       Users <- MemberUsers, net <- memberNet, role <- memberRole

memberVars == <<memberNet, memberRole, invite, tab, joined>>

\* An invitation admits no more members than its limit, however many tabs and users
\* accept it at once; every member it admitted used it once (Claim, AcceptInvite).
LimitKept == M!LimitKept

InviteType == [live : BOOLEAN, max : 0..MaxUses, uses : 0..Cardinality(Tabs),
               expired : BOOLEAN, role : M!Roles]
TabType == [pc : {"idle", "read", "check", "add", "done", "refused"},
            u : MemberUsers \cup {"nobody"}, i : Invites \cup {0}, role : M!Roles]
Accepting == {"read", "check", "add"}

\* The requests that have claimed a use of i and not joined yet; those that began.
Claimed(i) == {t \in Tabs : tab[t].pc \in Accepting /\ tab[t].i = i}
Begun == {t \in Tabs : tab[t].pc # "idle"}

MemberTypes ==
  /\ memberNet \in BOOLEAN /\ memberRole \in [MemberUsers -> M!Roles \cup {"none"}]
  /\ invite \in [Invites -> InviteType] /\ tab \in [Tabs -> TabType]
  /\ joined \in [Invites -> 0..Cardinality(Tabs)]
  /\ \A t \in Tabs : tab[t].pc \in Accepting => tab[t].u \in MemberUsers /\ tab[t].i \in Invites

\* Every use is a member, a request on its way to become one, or lost; no invitation was
\* used more often than requests began, or than its limit.
Uses ==
  \A i \in Invites :
    /\ joined[i] + Cardinality(Claimed(i)) <= invite[i].uses
    /\ invite[i].uses <= Cardinality(Begun)
    /\ invite[i].max # 0 => invite[i].uses <= invite[i].max

\* The inductive invariant.
MemberInv == MemberTypes /\ Uses

\* The module's own instance of Cardinality.
LEMMA MemberCardinality == \A S : M!Cardinality(S) = Cardinality(S)
  BY Zenon DEF M!Cardinality, Cardinality

\* Sets of requests are finite.
LEMMA TabSets ==
    ASSUME NEW i
    PROVE  /\ IsFiniteSet(Claimed(i)) /\ Cardinality(Claimed(i)) \in 0..Cardinality(Tabs)
           /\ IsFiniteSet(Begun) /\ Cardinality(Begun) \in 0..Cardinality(Tabs)
           /\ Cardinality(Tabs) \in Nat
<1>1. Claimed(i) \in SUBSET Tabs /\ Begun \in SUBSET Tabs
  BY Zenon DEF Claimed, Begun
<1> QED  BY <1>1, CardPart, FS_CardinalityType, MembershipAssumption, Zenon

\* The invariant contains the type invariant of the module.
LEMMA MemberTypeOK == MemberInv => M!TypeOK
<1> SUFFICES ASSUME MemberInv PROVE M!TypeOK
  BY Zenon
<1> QED  BY MemberCardinality, Zenon DEF MemberInv, MemberTypes, M!TypeOK, InviteType, TabType

\* It implies that limits are kept.
LEMMA MemberLimitKept == MemberInv => M!LimitKept
<1> SUFFICES ASSUME MemberInv, NEW i \in Invites
             PROVE  joined[i] <= invite[i].uses /\ (invite[i].max # 0 => invite[i].uses <= invite[i].max)
  BY Zenon DEF M!LimitKept
<1>1. Cardinality(Claimed(i)) \in Nat /\ joined[i] \in Nat /\ invite[i].uses \in Nat
  BY TabSets DEF MemberInv, MemberTypes, InviteType
<1> QED  BY <1>1 DEF MemberInv, Uses

\* No invitation, no request.
LEMMA MemberInit == M!Init => MemberInv
<1> SUFFICES ASSUME M!Init PROVE MemberInv
  BY Zenon
<1> DEFINE v == [live |-> FALSE, max |-> 0, uses |-> 0, expired |-> FALSE, role |-> "member"]
<1>1. Cardinality(Tabs) \in Nat
  BY TabSets, Zenon
<1>2. v \in InviteType /\ v.uses = 0 /\ v.max = 0 /\ M!NoTab \in TabType /\ M!NoTab.pc = "idle"
  BY <1>1, MembershipAssumption DEF InviteType, TabType, M!NoTab, M!Roles
<1>3. /\ invite = [i \in Invites |-> v] /\ tab = [t \in Tabs |-> M!NoTab]
      /\ joined = [i \in Invites |-> 0] /\ memberNet = TRUE
      /\ memberRole = [u \in MemberUsers |-> "none"]
  BY Zenon DEF M!Init
<1> HIDE DEF v
<1>4. MemberTypes
  BY <1>1, <1>2, <1>3 DEF MemberTypes, Accepting
<1>5. \A i : Claimed(i) = {}
  BY <1>2, <1>3, Zenon DEF Claimed, Accepting
<1>6. Begun = {}
  BY <1>2, <1>3, Zenon DEF Begun
<1>7. Uses
  <2>1. Cardinality(Begun) = 0 /\ \A i \in Invites : Cardinality(Claimed(i)) = 0
    BY <1>5, <1>6, FS_EmptySet, Zenon
  <2>2. \A i \in Invites : joined[i] = 0 /\ invite[i].uses = 0 /\ invite[i].max = 0
    BY <1>2, <1>3, Zenon
  <2> QED  BY <2>1, <2>2, SMTT(20) DEF Uses
<1> QED  BY <1>4, <1>7, Zenon DEF MemberInv

\* Administrators leave the counts alone: a limit is set before the first use.
LEMMA InvitesKept ==
    ASSUME MemberInv, tab' = tab, joined' = joined,
           memberNet' \in BOOLEAN, memberRole' \in [MemberUsers -> M!Roles \cup {"none"}],
           invite' \in [Invites -> InviteType],
           \A i \in Invites : /\ invite'[i].uses = invite[i].uses
                              /\ invite'[i].max = invite[i].max \/ invite[i].uses = 0
    PROVE  MemberInv'
<1>1. MemberTypes'
  BY Zenon DEF MemberInv, MemberTypes
<1>2. Begun' = Begun /\ \A i : Claimed(i)' = Claimed(i)
  BY Zenon DEF Begun, Claimed
<1>3. Uses'
  <2> SUFFICES ASSUME NEW i \in Invites
               PROVE  /\ joined[i] + Cardinality(Claimed(i)) <= invite'[i].uses
                      /\ invite'[i].uses <= Cardinality(Begun)
                      /\ invite'[i].max # 0 => invite'[i].uses <= invite'[i].max
    BY <1>2, Zenon DEF Uses
  <2>1. invite'[i].max \in Nat
    BY MembershipAssumption DEF InviteType
  <2> QED  BY <2>1 DEF MemberInv, Uses
<1> QED  BY <1>1, <1>3, Zenon DEF MemberInv

\* One invitation changes, not its count.
LEMMA OneInvite ==
    ASSUME MemberInv, NEW i \in Invites, NEW v \in InviteType, invite' = [invite EXCEPT ![i] = v],
           memberNet' = memberNet, memberRole' = memberRole, tab' = tab, joined' = joined,
           v.uses = invite[i].uses, v.max = invite[i].max \/ invite[i].uses = 0
    PROVE  MemberInv'
<1>1. /\ memberNet' \in BOOLEAN /\ memberRole' \in [MemberUsers -> M!Roles \cup {"none"}]
  BY Zenon DEF MemberInv, MemberTypes
<1>2. /\ invite' \in [Invites -> InviteType]
      /\ \A j \in Invites : /\ invite'[j].uses = invite[j].uses
                            /\ invite'[j].max = invite[j].max \/ invite[j].uses = 0
  BY Zenon DEF MemberInv, MemberTypes
<1> QED  BY <1>1, <1>2, InvitesKept, Zenon

\* CreateInvite.
LEMMA CreateInviteStep ==
    ASSUME MemberInv, NEW i \in Invites, NEW max \in 0..MaxUses, NEW r \in M!Roles,
           M!CreateInvite(i, max, r)
    PROVE  MemberInv'
<1> DEFINE v == [invite[i] EXCEPT !.live = TRUE, !.max = max, !.role = r]
<1>1. v \in InviteType /\ v.uses = invite[i].uses
  BY Zenon DEF MemberInv, MemberTypes, InviteType
<1> QED  BY <1>1, OneInvite, Zenon DEF M!CreateInvite

\* Time passes for an invitation.
LEMMA ExpireStep == ASSUME MemberInv, NEW i \in Invites, M!Expire(i) PROVE MemberInv'
<1> DEFINE v == [invite[i] EXCEPT !.expired = TRUE]
<1>1. v \in InviteType /\ v.uses = invite[i].uses /\ v.max = invite[i].max
  BY Zenon DEF MemberInv, MemberTypes, InviteType
<1> QED  BY <1>1, OneInvite, Zenon DEF M!Expire

\* DeleteInvite.
LEMMA DeleteInviteStep == ASSUME MemberInv, NEW i \in Invites, M!DeleteInvite(i) PROVE MemberInv'
<1> DEFINE v == [invite[i] EXCEPT !.live = FALSE]
<1>1. v \in InviteType /\ v.uses = invite[i].uses /\ v.max = invite[i].max
  BY Zenon DEF MemberInv, MemberTypes, InviteType
<1> QED  BY <1>1, OneInvite, Zenon DEF M!DeleteInvite

\* RemoveMember.
LEMMA MemberRemovedStep ==
    ASSUME MemberInv, NEW u \in MemberUsers, M!RemoveMember(u) PROVE MemberInv'
<1>1. /\ memberRole' \in [MemberUsers -> M!Roles \cup {"none"}] /\ memberNet' \in BOOLEAN
      /\ tab' = tab /\ joined' = joined /\ invite' = invite
  BY Zenon DEF MemberInv, MemberTypes, M!RemoveMember
<1>2. invite' \in [Invites -> InviteType]
  BY <1>1, Zenon DEF MemberInv, MemberTypes
<1> QED  BY <1>1, <1>2, InvitesKept, Zenon

\* The network goes, its members and invitations stay.
LEMMA MemberNetworkStep == ASSUME MemberInv, M!DeleteNetwork PROVE MemberInv'
<1>1. /\ memberRole' = memberRole /\ memberNet' = FALSE
      /\ tab' = tab /\ joined' = joined /\ invite' = invite
  BY Zenon DEF M!DeleteNetwork
<1>2. /\ memberRole' \in [MemberUsers -> M!Roles \cup {"none"}] /\ memberNet' \in BOOLEAN
      /\ invite' \in [Invites -> InviteType]
  BY <1>1, Zenon DEF MemberInv, MemberTypes
<1> QED  BY <1>1, <1>2, InvitesKept, Zenon

\* A request moves on or ends, and claims nothing.
LEMMA TabMoves ==
    ASSUME MemberInv, NEW t \in Tabs, NEW q \in TabType, tab' = [tab EXCEPT ![t] = q],
           invite' = invite, joined' = joined, memberNet' = memberNet, memberRole' = memberRole,
           q.pc # "idle",
           q.pc \in Accepting => tab[t].pc \in Accepting /\ q.i = tab[t].i /\ q.u = tab[t].u
    PROVE  MemberInv'
<1>1. tab \in [Tabs -> TabType]
  BY Zenon DEF MemberInv, MemberTypes
<1>2. MemberTypes'
  BY Zenon DEF MemberInv, MemberTypes
<1>3. Begun \in SUBSET Begun' /\ Begun' \in SUBSET Tabs
  BY <1>1, Zenon DEF Begun
<1>4. Cardinality(Begun) \in Nat /\ Cardinality(Begun') \in Nat /\ Cardinality(Begun) <= Cardinality(Begun')
  BY <1>3, CardPart, MembershipAssumption
<1>5. Uses'
  <2> SUFFICES ASSUME NEW i \in Invites
               PROVE  /\ joined[i] + Cardinality(Claimed(i)') <= invite[i].uses
                      /\ invite[i].uses <= Cardinality(Begun')
                      /\ invite[i].max # 0 => invite[i].uses <= invite[i].max
    BY Zenon DEF Uses
  <2>1. Claimed(i)' \in SUBSET Claimed(i)
    BY <1>1, Zenon DEF Claimed
  <2>2. Cardinality(Claimed(i)') \in 0..Cardinality(Claimed(i)) /\ Cardinality(Claimed(i)) \in Nat
    BY <2>1, TabSets, CardPart
  <2>3. joined[i] \in Nat /\ invite[i].uses \in Nat
    BY DEF MemberInv, MemberTypes, InviteType
  <2> QED  BY <1>4, <2>2, <2>3 DEF MemberInv, Uses
<1> QED  BY <1>2, <1>5, Zenon DEF MemberInv

\* How a request ends.
LEMMA EndedType ==
    ASSUME NEW pc \in {"done", "refused"}
    PROVE  [M!NoTab EXCEPT !.pc = pc] \in TabType /\ [M!NoTab EXCEPT !.pc = pc].pc = pc
<1>1. M!NoTab \in TabType
  BY Zenon DEF TabType, M!NoTab, M!Roles
<1> QED  BY <1>1, Zenon DEF TabType

\* A request is refused.
LEMMA RefusedStep ==
    ASSUME MemberInv, NEW t \in Tabs, tab' = M!Ended(t, "refused"),
           invite' = invite, joined' = joined, memberNet' = memberNet, memberRole' = memberRole
    PROVE  MemberInv'
<1> DEFINE q == [M!NoTab EXCEPT !.pc = "refused"]
<1>1. q \in TabType /\ q.pc = "refused" /\ tab' = [tab EXCEPT ![t] = q]
  BY EndedType, Zenon DEF M!Ended
<1> HIDE DEF q
<1> QED  BY <1>1, TabMoves, Zenon DEF Accepting

\* Claim: the UPDATE checks the limit and counts the use at once.
LEMMA ClaimStep ==
    ASSUME MemberInv, NEW t \in Tabs, NEW u \in MemberUsers, NEW i \in Invites, M!Claim(t, u, i)
    PROVE  MemberInv'
<1>1. CASE ~M!ClaimValid(i)
  BY <1>1, RefusedStep, Zenon DEF M!Claim
<1>2. CASE M!ClaimValid(i)
  <2> DEFINE q == [tab[t] EXCEPT !.pc = "read", !.u = u, !.i = i]
             v == [invite[i] EXCEPT !.uses = @ + 1]
  <2>1. /\ tab \in [Tabs -> TabType] /\ invite \in [Invites -> InviteType]
        /\ invite[i] \in InviteType /\ tab[t] \in TabType /\ tab[t].pc = "idle"
    BY Zenon DEF MemberInv, MemberTypes, M!Claim
  <2>2. q \in TabType /\ q.pc = "read" /\ q.u = u /\ q.i = i
    BY <2>1, Zenon DEF TabType
  <2>3. /\ tab' = [tab EXCEPT ![t] = q] /\ invite' = [invite EXCEPT ![i] = v]
        /\ joined' = joined /\ memberNet' = memberNet /\ memberRole' = memberRole
    BY <1>2, Zenon DEF M!Claim
  <2> HIDE DEF q
  <2>4. t \notin Begun /\ Begun' = Begun \cup {t}
    BY <2>1, <2>2, <2>3, Zenon DEF Begun
  <2>5. Cardinality(Begun') = Cardinality(Begun) + 1
    BY <2>4, TabSets, CardAdd, Zenon
  <2>6. /\ Cardinality(Begun) \in Nat /\ Cardinality(Tabs) \in Nat
        /\ Cardinality(Begun') <= Cardinality(Tabs)
    <3>1. Begun' \in SUBSET Tabs
      BY Zenon DEF Begun
    <3> QED  BY <3>1, CardPart, MembershipAssumption, TabSets
  <2>7. invite[i].uses \in Nat /\ invite[i].uses <= Cardinality(Begun) /\ invite[i].max \in Nat
    BY <2>1, MembershipAssumption DEF MemberInv, Uses, InviteType
  <2>8. invite[i].uses + 1 \in 0..Cardinality(Tabs)
    BY <2>5, <2>6, <2>7
  <2>9. v \in InviteType /\ v.uses = invite[i].uses + 1 /\ v.max = invite[i].max
    BY <2>1, <2>8, Zenon DEF InviteType
  <2> HIDE DEF v
  <2>10. MemberTypes'
    BY <2>1, <2>2, <2>3, <2>9, Zenon DEF MemberInv, MemberTypes
  <2>11. Claimed(i)' = Claimed(i) \cup {t} /\ t \notin Claimed(i)
    BY <2>1, <2>2, <2>3, Zenon DEF Claimed, Accepting
  <2>12. Cardinality(Claimed(i)') = Cardinality(Claimed(i)) + 1
    BY <2>11, TabSets, CardAdd, Zenon
  <2>13. ASSUME NEW j \in Invites
         PROVE  /\ joined[j] + Cardinality(Claimed(j)') <= invite'[j].uses
                /\ invite'[j].uses <= Cardinality(Begun')
                /\ invite'[j].max # 0 => invite'[j].uses <= invite'[j].max
    <3>1. /\ Cardinality(Claimed(j)) \in Nat /\ joined[j] \in Nat /\ invite[j].uses \in Nat
          /\ joined[j] + Cardinality(Claimed(j)) <= invite[j].uses
          /\ invite[j].uses <= Cardinality(Begun)
          /\ invite[j].max # 0 => invite[j].uses <= invite[j].max
      BY <2>13, TabSets DEF MemberInv, Uses, MemberTypes, InviteType
    <3>2. CASE j = i
      <4>1. invite'[j] = v
        BY <2>1, <2>3, <3>2, Zenon
      <4>2. invite[i].max = 0 \/ invite[i].uses < invite[i].max
        BY <1>2, Zenon DEF M!ClaimValid
      <4> QED  BY <2>5, <2>6, <2>7, <2>9, <2>12, <3>1, <3>2, <4>1, <4>2
    <3>3. CASE j # i
      <4>1. invite'[j] = invite[j] /\ Claimed(j)' = Claimed(j)
        BY <2>1, <2>2, <2>3, <3>3, Zenon DEF Claimed, Accepting
      <4> QED  BY <2>5, <2>6, <3>1, <4>1
    <3> QED  BY <3>2, <3>3, Zenon
  <2> QED  BY <2>3, <2>10, <2>13, Zenon DEF MemberInv, Uses
<1> QED  BY <1>1, <1>2, Zenon

\* Claim reads the invitation back.
LEMMA ReadBackStep == ASSUME MemberInv, NEW t \in Tabs, M!ReadBack(t) PROVE MemberInv'
<1> DEFINE i == tab[t].i
           q == [tab[t] EXCEPT !.pc = "check", !.role = invite[i].role]
<1>1. CASE ~invite[i].live
  BY <1>1, RefusedStep, Zenon DEF M!ReadBack
<1>2. CASE invite[i].live
  <2>1. tab[t] \in TabType /\ tab[t].pc \in Accepting /\ i \in Invites
    BY Zenon DEF MemberInv, MemberTypes, M!ReadBack, Accepting
  <2>2. invite[i].role \in M!Roles
    BY <2>1, Zenon DEF MemberInv, MemberTypes, InviteType
  <2>3. q \in TabType /\ q.pc = "check" /\ q.i = tab[t].i /\ q.u = tab[t].u
    BY <2>1, <2>2, Zenon DEF TabType
  <2>4. tab' = [tab EXCEPT ![t] = q]
    BY <1>2, Zenon DEF M!ReadBack
  <2> HIDE DEF q
  <2> QED  BY <2>1, <2>3, <2>4, TabMoves, Zenon DEF M!ReadBack
<1> QED  BY <1>1, <1>2, Zenon

\* Is the user a member already?
LEMMA CheckMemberStep == ASSUME MemberInv, NEW t \in Tabs, M!CheckMember(t) PROVE MemberInv'
<1> DEFINE q == [tab[t] EXCEPT !.pc = "add"]
<1>1. CASE tab' = M!Ended(t, "refused")
  BY <1>1, RefusedStep, Zenon DEF M!CheckMember
<1>2. CASE tab' = [tab EXCEPT ![t] = q]
  <2>1. tab[t] \in TabType /\ tab[t].pc \in Accepting
    BY Zenon DEF MemberInv, MemberTypes, M!CheckMember, Accepting
  <2>2. q \in TabType /\ q.pc = "add" /\ q.i = tab[t].i /\ q.u = tab[t].u
    BY <2>1, Zenon DEF TabType
  <2> HIDE DEF q
  <2> QED  BY <1>2, <2>1, <2>2, TabMoves, Zenon DEF M!CheckMember
<1> QED  BY <1>1, <1>2, Zenon DEF M!CheckMember

\* Members.Add: a claimed use becomes a member.
LEMMA AddMemberStep == ASSUME MemberInv, NEW t \in Tabs, M!AddMember(t) PROVE MemberInv'
<1> DEFINE q == [M!NoTab EXCEPT !.pc = "done"]
<1>0. tab[t].i \in Invites /\ tab[t].u \in MemberUsers
  BY Zenon DEF MemberInv, MemberTypes, M!AddMember, Accepting
<1>i. PICK i \in Invites : i = tab[t].i
  BY <1>0, Zenon
<1>u. PICK u \in MemberUsers : u = tab[t].u
  BY <1>0, Zenon
<1>1. CASE ~M!CanInsert(u)
  BY <1>u, <1>1, RefusedStep, Zenon DEF M!AddMember
<1>2. CASE M!CanInsert(u)
  <2>1. /\ tab \in [Tabs -> TabType] /\ invite \in [Invites -> InviteType]
        /\ tab[t] \in TabType /\ tab[t].pc \in Accepting
    BY <1>2, Zenon DEF MemberInv, MemberTypes, M!AddMember, Accepting
  <2>2. q \in TabType /\ q.pc = "done"
    BY EndedType, Zenon
  <2>3. /\ tab' = [tab EXCEPT ![t] = q] /\ invite' = invite /\ memberNet' = memberNet
        /\ joined' = [joined EXCEPT ![i] = joined[i] + 1]
        /\ memberRole' = [memberRole EXCEPT ![u] = tab[t].role]
    BY <1>i, <1>u, <1>2, Zenon DEF M!AddMember, M!Ended
  <2> HIDE DEF q
  <2>4. t \in Claimed(i) /\ Claimed(i)' = Claimed(i) \ {t}
    BY <1>i, <2>1, <2>2, <2>3, Zenon DEF Claimed, Accepting
  <2>5. Cardinality(Claimed(i)') = Cardinality(Claimed(i)) - 1
    BY <2>4, TabSets, CardRemove, Zenon
  <2>6. Begun' = Begun
    BY <2>1, <2>2, <2>3, Zenon DEF Begun, Accepting
  <2>7. \A j \in Invites : /\ Cardinality(Claimed(j)) \in Nat /\ joined[j] \in Nat /\ invite[j].uses \in Nat
                           /\ joined[j] + Cardinality(Claimed(j)) <= invite[j].uses
                           /\ invite[j].uses <= Cardinality(Tabs)
    BY TabSets DEF MemberInv, Uses, MemberTypes, InviteType
  <2>8. \A j \in Invites \ {i} : Claimed(j)' = Claimed(j)
    BY <1>i, <2>1, <2>2, <2>3, Zenon DEF Claimed, Accepting
  <2>9. Cardinality(Claimed(i)') \in Nat /\ Cardinality(Tabs) \in Nat
    <3>1. Claimed(i)' \in SUBSET Tabs
      BY Zenon DEF Claimed
    <3> QED  BY <3>1, CardPart, MembershipAssumption, TabSets
  <2>10. joined \in [Invites -> 0..Cardinality(Tabs)]
    BY Zenon DEF MemberInv, MemberTypes
  <2>11. joined[i] + 1 \in 0..Cardinality(Tabs)
    BY <2>1, <2>5, <2>7, <2>9
  <2>12. joined' \in [Invites -> 0..Cardinality(Tabs)]
    BY <2>3, <2>10, <2>11, Zenon
  <2>13. memberRole' \in [MemberUsers -> M!Roles \cup {"none"}]
    BY <2>1, <2>3, Zenon DEF MemberInv, MemberTypes, TabType
  <2>14. MemberTypes'
    BY <2>1, <2>2, <2>3, <2>12, <2>13, Zenon DEF MemberInv, MemberTypes, Accepting
  <2>15. ASSUME NEW j \in Invites
         PROVE  joined'[j] + Cardinality(Claimed(j)') <= invite[j].uses
    BY <2>1, <2>3, <2>5, <2>7, <2>8, <2>9, <2>10, <2>15
  <2> QED  BY <2>3, <2>6, <2>14, <2>15, Zenon DEF MemberInv, Uses
<1> QED  BY <1>1, <1>2, Zenon

\* Every step of Membership keeps the invariant.
LEMMA MemberStep == MemberInv /\ [M!Next]_memberVars => MemberInv'
<1> SUFFICES ASSUME MemberInv, [M!Next]_memberVars PROVE MemberInv'
  BY Zenon
<1>1. CASE UNCHANGED memberVars
  BY <1>1, Zenon DEF MemberInv, MemberTypes, Uses, Claimed, Begun, memberVars
<1>2. CASE M!Next
  BY <1>2, CreateInviteStep, ExpireStep, DeleteInviteStep, MemberRemovedStep, MemberNetworkStep,
     ClaimStep, ReadBackStep, CheckMemberStep, AddMemberStep, Zenon DEF M!Next
<1> QED  BY <1>1, <1>2, Zenon

\* An invitation admits no more members than its limit, for any number of users,
\* invitations and simultaneous requests (Claim, AcceptInvite).
THEOREM MembershipSafe == M!Spec => [](M!TypeOK /\ LimitKept)
<1>1. M!Init => MemberInv
  BY MemberInit, Zenon
<1>2. MemberInv /\ [M!Next]_(M!vars) => MemberInv'
  BY MemberStep, Zenon DEF memberVars, M!vars
<1>3. MemberInv => M!TypeOK /\ LimitKept
  BY MemberTypeOK, MemberLimitKept, Zenon DEF LimitKept
<1> QED  BY <1>1, <1>2, <1>3, PTL DEF M!Spec

-----------------------------------------------------------------------------
(* LogStore.                                                               *)

CONSTANTS
  Entries, BufCap, FlushSize, MaxFails

\* Finitely many entries; a batch holds at least one.
ASSUME LogStoreAssumption ==
  /\ IsFiniteSet(Entries) /\ BufCap \in Nat /\ MaxFails \in Nat
  /\ FlushSize \in Nat \ {0}

VARIABLES
  todo, buf, batch, fl, db, dropped, srv, fails

L == INSTANCE LogStore

logVars == <<todo, buf, batch, fl, db, dropped, srv, fails>>

\* Every entry is in one place: not logged yet, in the channel, in one flusher's batch,
\* in the table once, or given up with a line in the log.  Two flushers that drain the
\* channel at the same time neither write an entry twice nor lose one (flush, writeBatch).
Accounted == L!Accounted

\* Whatever is put into the channel reaches the table or the log's list of dropped
\* entries, all of it at last, as long as the process lives (StartFlusher).
EventuallyWritten == L!EventuallyWritten

\* The places an entry can be in: four sequences and two sets.
SeqPlaces == {"buf", "db"} \cup L!Flushers
Places == SeqPlaces \cup {"todo", "dropped"}

SeqAt(x) == IF x = "buf" THEN buf ELSE IF x = "db" THEN db ELSE batch[x]
At(x) == IF x = "todo" THEN todo ELSE IF x = "dropped" THEN dropped ELSE L!EntriesOf(SeqAt(x))

Injective(s) == \A a, b \in 1..Len(s) : s[a] = s[b] => a = b

LogTypes ==
  /\ todo \subseteq Entries /\ dropped \subseteq Entries
  /\ buf \in Seq(Entries) /\ Len(buf) <= BufCap
  /\ batch \in [L!Flushers -> Seq(Entries)]
  /\ fl \in [L!Flushers -> {"idle", "drain", "write", "full", "over"}]
  /\ db \in Seq(Entries) /\ fails \in 0..MaxFails
  /\ srv \in {"up", "flush", "flushed", "shut", "exited"}

\* A flusher that drains has room; one that does not flush holds nothing.
BatchKept(w) ==
  /\ Len(batch[w]) <= FlushSize
  /\ fl[w] \in {"idle", "over"} => batch[w] = <<>>
  /\ fl[w] = "drain" => Len(batch[w]) < FlushSize

\* Every entry is in one place ...
OnePlace ==
  /\ \A x, y \in Places : x # y => At(x) \cap At(y) = {}
  /\ Entries = UNION {At(x) : x \in Places}

\* ... and there once.  main flushes for the first time after the signal.
LogInv ==
  /\ LogTypes
  /\ \A w \in L!Flushers : BatchKept(w)
  /\ srv = "up" => fl["main"] = "idle"
  /\ \A x \in SeqPlaces : Injective(SeqAt(x))
  /\ OnePlace

\* The members of a sequence without repetition are as many as it is long.
LEMMA InjectiveCount ==
    ASSUME NEW S, NEW s \in Seq(S), Injective(s)
    PROVE  IsFiniteSet(L!EntriesOf(s)) /\ Cardinality(L!EntriesOf(s)) = Len(s)
<1>1. Len(s) \in Nat /\ DOMAIN s = 1..Len(s)
  OBVIOUS
<1>2. s \in Bijection(1..Len(s), L!EntriesOf(s))
  <2>1. s \in [1..Len(s) -> L!EntriesOf(s)]
    BY <1>1 DEF L!EntriesOf
  <2>2. \A a, b \in 1..Len(s) : s[a] = s[b] => a = b
    BY Zenon DEF Injective
  <2>3. \A t \in L!EntriesOf(s) : \E a \in 1..Len(s) : s[a] = t
    BY <1>1, Zenon DEF L!EntriesOf
  <2> QED  BY <2>1, <2>2, <2>3, Zenon DEF Bijection, Injection, Surjection, IsInjective
<1>3. ExistsBijection(1..Len(s), L!EntriesOf(s))
  BY <1>2, Zenon DEF ExistsBijection
<1>4. IsFiniteSet(L!EntriesOf(s))
  BY <1>1, <1>3, FS_NatBijection, Zenon
<1>5. Cardinality(L!EntriesOf(s)) = Len(s)
  BY <1>1, <1>3, FS_CountingElements, Zenon
<1> QED  BY <1>4, <1>5, Zenon

\* One entry more at the end.
LEMMA AppendOne ==
    ASSUME NEW S, NEW s \in Seq(S), Injective(s), NEW e \in S, e \notin L!EntriesOf(s)
    PROVE  /\ Append(s, e) \in Seq(S) /\ Len(Append(s, e)) = Len(s) + 1 /\ Injective(Append(s, e))
           /\ L!EntriesOf(Append(s, e)) = L!EntriesOf(s) \cup {e}
<1> DEFINE t == Append(s, e)
<1>1. /\ t \in Seq(S) /\ Len(t) = Len(s) + 1 /\ Len(s) \in Nat
      /\ \A a \in 1..Len(s) : t[a] = s[a]
      /\ t[Len(s) + 1] = e
  OBVIOUS
<1> HIDE DEF t
<1>2. DOMAIN s = 1..Len(s) /\ DOMAIN t = 1..Len(t) /\ 1..Len(t) = 1..Len(s) \cup {Len(s) + 1}
  BY <1>1
<1>3. \A a \in 1..Len(s) : s[a] # e
  BY <1>2, Zenon DEF L!EntriesOf
<1>4. Injective(t)
  BY <1>1, <1>2, <1>3, Zenon DEF Injective
<1>5. L!EntriesOf(t) = L!EntriesOf(s) \cup {e}
  BY <1>1, <1>2 DEF L!EntriesOf
<1> QED  BY <1>1, <1>4, <1>5, Zenon DEF t

\* One entry less at the front.
LEMMA TakeOne ==
    ASSUME NEW S, NEW s \in Seq(S), Injective(s), s # <<>>
    PROVE  /\ Tail(s) \in Seq(S) /\ Len(Tail(s)) = Len(s) - 1 /\ Injective(Tail(s))
           /\ Head(s) \in S /\ Head(s) \in L!EntriesOf(s) /\ L!EntriesOf(Tail(s)) = L!EntriesOf(s) \ {Head(s)}
<1> DEFINE t == Tail(s)
<1>1. /\ t \in Seq(S) /\ Len(t) = Len(s) - 1 /\ Len(s) \in Nat /\ Len(s) # 0
      /\ \A a \in 1..(Len(s) - 1) : t[a] = s[a + 1]
      /\ Head(s) = s[1]
  OBVIOUS
<1> HIDE DEF t
<1>2. DOMAIN s = 1..Len(s) /\ DOMAIN t = 1..Len(t) /\ Len(t) \in Nat
  BY <1>1
<1>3. Injective(t)
  <2> SUFFICES ASSUME NEW a \in 1..Len(t), NEW b \in 1..Len(t), t[a] = t[b] PROVE a = b
    BY Zenon DEF Injective
  <2>1. s[a + 1] = s[b + 1] /\ a + 1 \in 1..Len(s) /\ b + 1 \in 1..Len(s)
    BY <1>1
  <2>2. a + 1 = b + 1
    BY <2>1, Zenon DEF Injective
  <2> QED  BY <2>2
<1>4. \A a \in 1..Len(t) : t[a] = s[a + 1] /\ a + 1 \in 1..Len(s) /\ a + 1 # 1
  BY <1>1
<1>5. \A b \in 1..Len(s) : b # 1 => b - 1 \in 1..Len(t) /\ t[b - 1] = s[b]
  BY <1>1
<1>6. 1 \in 1..Len(s)
  BY <1>1
<1>7. \A e \in L!EntriesOf(t) : e \in L!EntriesOf(s) \ {s[1]}
  BY <1>2, <1>4, <1>6 DEF L!EntriesOf, Injective
<1>8. \A e \in L!EntriesOf(s) \ {s[1]} : e \in L!EntriesOf(t)
  BY <1>2, <1>5 DEF L!EntriesOf
<1>9. s[1] \in S /\ s[1] \in L!EntriesOf(s)
  BY <1>2, <1>6 DEF L!EntriesOf
<1> QED  BY <1>1, <1>3, <1>7, <1>8, <1>9, Zenon DEF t

\* Two sequences in a row.
LEMMA JoinTwo ==
    ASSUME NEW S, NEW s \in Seq(S), NEW t \in Seq(S)
    PROVE  /\ s \o t \in Seq(S) /\ Len(s \o t) = Len(s) + Len(t)
           /\ L!EntriesOf(s \o t) = L!EntriesOf(s) \cup L!EntriesOf(t)
           /\ (Injective(s) /\ Injective(t) /\ L!EntriesOf(s) \cap L!EntriesOf(t) = {} => Injective(s \o t))
<1> DEFINE u == s \o t
<1>1. /\ u \in Seq(S) /\ Len(u) = Len(s) + Len(t) /\ Len(s) \in Nat /\ Len(t) \in Nat
      /\ \A a \in 1..Len(u) : u[a] = IF a <= Len(s) THEN s[a] ELSE t[a - Len(s)]
  OBVIOUS
<1> HIDE DEF u
<1>2. DOMAIN s = 1..Len(s) /\ DOMAIN t = 1..Len(t) /\ DOMAIN u = 1..Len(u)
  BY <1>1
<1>3. \A a \in 1..Len(s) : a \in 1..Len(u) /\ u[a] = s[a]
  BY <1>1
<1>4. ASSUME NEW a \in 1..Len(t) PROVE a + Len(s) \in 1..Len(u) /\ u[a + Len(s)] = t[a]
  <2>1. a + Len(s) \in 1..Len(u) /\ ~(a + Len(s) <= Len(s)) /\ (a + Len(s)) - Len(s) = a
    BY <1>1
  <2> QED  BY <1>1, <2>1, Zenon
<1>5. ASSUME NEW a \in 1..Len(u)
      PROVE  \/ a \in 1..Len(s) /\ u[a] = s[a]
             \/ a - Len(s) \in 1..Len(t) /\ u[a] = t[a - Len(s)]
  <2>1. CASE a <= Len(s)
    BY <1>1, <2>1
  <2>2. CASE ~(a <= Len(s))
    <3>1. a - Len(s) \in 1..Len(t)
      BY <1>1, <2>2
    <3> QED  BY <1>1, <2>2, <3>1, Zenon
  <2> QED  BY <2>1, <2>2, Zenon
<1>6. L!EntriesOf(u) = L!EntriesOf(s) \cup L!EntriesOf(t)
  <2>1. \A e : e \in L!EntriesOf(u) <=> \E a \in 1..Len(u) : u[a] = e
    BY <1>2, Zenon DEF L!EntriesOf
  <2>2. \A e : e \in L!EntriesOf(s) <=> \E a \in 1..Len(s) : s[a] = e
    BY <1>2, Zenon DEF L!EntriesOf
  <2>3. \A e : e \in L!EntriesOf(t) <=> \E a \in 1..Len(t) : t[a] = e
    BY <1>2, Zenon DEF L!EntriesOf
  <2>4. \A e : e \in L!EntriesOf(u) => e \in L!EntriesOf(s) \cup L!EntriesOf(t)
    BY <1>5, <2>1, <2>2, <2>3, Zenon
  <2>5. \A e : e \in L!EntriesOf(s) \cup L!EntriesOf(t) => e \in L!EntriesOf(u)
    BY <1>3, <1>4, <2>1, <2>2, <2>3, Zenon
  <2> QED  BY <2>4, <2>5, Zenon
<1>7. ASSUME Injective(s), Injective(t), L!EntriesOf(s) \cap L!EntriesOf(t) = {} PROVE Injective(u)
  <2> SUFFICES ASSUME NEW a \in 1..Len(u), NEW b \in 1..Len(u), u[a] = u[b] PROVE a = b
    BY Zenon DEF Injective
  <2>1. \A c \in 1..Len(s), d \in 1..Len(t) : s[c] # t[d]
    BY <1>2, <1>7, Zenon DEF L!EntriesOf
  <2>2. CASE a \in 1..Len(s) /\ b \in 1..Len(s)
    BY <1>3, <1>7, <2>2, Zenon DEF Injective
  <2>3. CASE a - Len(s) \in 1..Len(t) /\ b - Len(s) \in 1..Len(t) /\ u[a] = t[a - Len(s)] /\ u[b] = t[b - Len(s)]
    <3>1. a - Len(s) = b - Len(s)
      BY <1>7, <2>3, Zenon DEF Injective
    <3> QED  BY <1>1, <3>1
  <2> QED  BY <1>5, <2>1, <2>2, <2>3, Zenon
<1> QED  BY <1>1, <1>6, <1>7, Zenon DEF u

\* The sizes of two sets without a common member add up.
LEMMA CardApart ==
    ASSUME NEW S, IsFiniteSet(S), NEW T, IsFiniteSet(T), S \cap T = {}
    PROVE  /\ IsFiniteSet(S \cup T) /\ Cardinality(S \cup T) = Cardinality(S) + Cardinality(T)
           /\ Cardinality(S) \in Nat /\ Cardinality(T) \in Nat
<1>1. Cardinality(S) \in Nat /\ Cardinality(T) \in Nat
  BY FS_CardinalityType, Zenon
<1>2. Cardinality(S \cap T) = 0
  BY FS_EmptySet, Zenon
<1>3. IsFiniteSet(S \cup T) /\ Cardinality(S \cup T) = Cardinality(S) + Cardinality(T) - Cardinality(S \cap T)
  BY FS_Union, Zenon
<1> QED  BY <1>1, <1>2, <1>3

\* The invariant contains the type invariant of the module.
LEMMA LogTypeOK == LogInv => L!TypeOK
  BY Zenon DEF LogInv, LogTypes, BatchKept, L!TypeOK

\* The invariant accounts for every entry.
LEMMA LogAccounted == ASSUME LogInv PROVE Accounted
<1> DEFINE x == batch["ticker"]
           y == batch["main"]
           held == buf \o x \o y \o db
<1>1. /\ "ticker" \in L!Flushers /\ "main" \in L!Flushers /\ x \in Seq(Entries) /\ y \in Seq(Entries)
      /\ buf \in Seq(Entries) /\ db \in Seq(Entries) /\ todo \subseteq Entries /\ dropped \subseteq Entries
  BY Zenon DEF LogInv, LogTypes, L!Flushers
<1>2. Injective(buf) /\ Injective(x) /\ Injective(y) /\ Injective(db)
  <2>1. SeqAt("buf") = buf /\ SeqAt("db") = db /\ SeqAt("ticker") = x /\ SeqAt("main") = y
    BY Zenon DEF SeqAt
  <2>2. {"buf", "db", "ticker", "main"} \subseteq SeqPlaces
    BY <1>1, Zenon DEF SeqPlaces
  <2> QED  BY <2>1, <2>2, Zenon DEF LogInv
<1>3. /\ At("todo") = todo /\ At("dropped") = dropped /\ At("buf") = L!EntriesOf(buf)
      /\ At("db") = L!EntriesOf(db) /\ At("ticker") = L!EntriesOf(x) /\ At("main") = L!EntriesOf(y)
  BY Zenon DEF At, SeqAt
<1>4. Places = {"buf", "db", "ticker", "main", "todo", "dropped"}
  BY Zenon DEF Places, SeqPlaces, L!Flushers
<1> DEFINE B == L!EntriesOf(buf)
           X == L!EntriesOf(x)
           Y == L!EntriesOf(y)
           D == L!EntriesOf(db)
<1>5. /\ B \cap X = {} /\ (B \cup X) \cap Y = {} /\ (B \cup X \cup Y) \cap D = {}
      /\ (B \cup X \cup Y \cup D) \cap todo = {} /\ (B \cup X \cup Y \cup D \cup todo) \cap dropped = {}
  <2>1. \A p, q \in Places : p # q => At(p) \cap At(q) = {}
    BY Zenon DEF LogInv, OnePlace
  <2>2. /\ B \cap X = {} /\ B \cap Y = {} /\ X \cap Y = {} /\ B \cap D = {} /\ X \cap D = {} /\ Y \cap D = {}
    BY <1>3, <1>4, <2>1, Zenon
  <2>3. /\ B \cap todo = {} /\ X \cap todo = {} /\ Y \cap todo = {} /\ D \cap todo = {}
    BY <1>3, <1>4, <2>1, Zenon
  <2>4. /\ B \cap dropped = {} /\ X \cap dropped = {} /\ Y \cap dropped = {} /\ D \cap dropped = {}
        /\ todo \cap dropped = {}
    BY <1>3, <1>4, <2>1, Zenon
  <2> HIDE DEF B, X, Y, D
  <2> QED  BY <2>2, <2>3, <2>4, Zenon
<1>6. B \cup X \cup Y \cup D \cup todo \cup dropped = Entries
  <2>1. Entries = UNION {At(p) : p \in Places}
    BY Zenon DEF LogInv, OnePlace
  <2>2. \A e : e \in UNION {At(p) : p \in Places} <=> \E p \in Places : e \in At(p)
    BY Zenon
  <2> HIDE DEF B, X, Y, D
  <2>3. \A e : (\E p \in Places : e \in At(p)) <=> e \in B \cup X \cup Y \cup D \cup todo \cup dropped
    BY <1>3, <1>4, Zenon DEF B, X, Y, D
  <2> QED  BY <2>1, <2>2, <2>3, Zenon
<1>7. /\ IsFiniteSet(B) /\ Cardinality(B) = Len(buf) /\ IsFiniteSet(X) /\ Cardinality(X) = Len(x)
      /\ IsFiniteSet(Y) /\ Cardinality(Y) = Len(y) /\ IsFiniteSet(D) /\ Cardinality(D) = Len(db)
  BY <1>1, <1>2, InjectiveCount, Zenon
<1>8. /\ L!EntriesOf(held) = B \cup X \cup Y \cup D /\ Len(held) = Len(buf) + Len(x) + Len(y) + Len(db)
  <2> DEFINE u == buf \o x
             v == u \o y
  <2> HIDE DEF x, y, B, X, Y, D
  <2>1. u \in Seq(Entries) /\ Len(u) = Len(buf) + Len(x) /\ L!EntriesOf(u) = B \cup X
    BY <1>1, JoinTwo DEF B, X
  <2> HIDE DEF u
  <2>2. v \in Seq(Entries) /\ Len(v) = Len(u) + Len(y) /\ L!EntriesOf(v) = L!EntriesOf(u) \cup Y
    BY <1>1, <2>1, JoinTwo DEF Y
  <2> HIDE DEF v
  <2>3. Len(v \o db) = Len(v) + Len(db) /\ L!EntriesOf(v \o db) = L!EntriesOf(v) \cup D
    BY <1>1, <2>2, JoinTwo DEF D
  <2>4. held = v \o db
    BY Zenon DEF u, v
  <2> HIDE DEF held
  <2> QED  BY <2>1, <2>2, <2>3, <2>4, Zenon
<1> HIDE DEF B, X, Y, D, x, y, held
<1>9. IsFiniteSet(todo) /\ IsFiniteSet(dropped)
  BY <1>1, FS_Subset, LogStoreAssumption, Zenon
<1>10. Len(held) + Cardinality(todo) + Cardinality(dropped) = Cardinality(Entries)
  <2>1. IsFiniteSet(B \cup X) /\ Cardinality(B \cup X) = Cardinality(B) + Cardinality(X)
    BY <1>5, <1>7, CardApart, Zenon
  <2>2. IsFiniteSet(B \cup X \cup Y) /\ Cardinality(B \cup X \cup Y) = Cardinality(B \cup X) + Cardinality(Y)
    BY <1>5, <1>7, <2>1, CardApart, Zenon
  <2>3. /\ IsFiniteSet(B \cup X \cup Y \cup D)
        /\ Cardinality(B \cup X \cup Y \cup D) = Cardinality(B \cup X \cup Y) + Cardinality(D)
    BY <1>5, <1>7, <2>2, CardApart, Zenon
  <2>4. Cardinality(B \cup X \cup Y \cup D) = Len(held)
    BY <1>7, <1>8, <2>1, <2>2, <2>3, Zenon
  <2>5. /\ IsFiniteSet(B \cup X \cup Y \cup D \cup todo)
        /\ Cardinality(B \cup X \cup Y \cup D \cup todo) = Len(held) + Cardinality(todo)
    BY <1>5, <1>9, <2>3, <2>4, CardApart, Zenon
  <2>6. Cardinality(B \cup X \cup Y \cup D \cup todo \cup dropped) = Len(held) + Cardinality(todo) + Cardinality(dropped)
    BY <1>5, <1>9, <2>5, CardApart, Zenon
  <2> QED  BY <1>6, <2>6, Zenon
<1>11. L!EntriesOf(held) \cup todo \cup dropped = Entries
  BY <1>6, <1>8, Zenon
<1>12. \A S : L!Cardinality(S) = Cardinality(S)
  BY Zenon DEF L!Cardinality, Cardinality
<1> QED  BY <1>10, <1>11, <1>12, Zenon DEF Accounted, L!Accounted, held, x, y

\* What is in a place.
LEMMA AtIs ==
    /\ SeqPlaces = {"buf", "db", "ticker", "main"} /\ Places = {"buf", "db", "ticker", "main", "todo", "dropped"}
    /\ L!Flushers = {"ticker", "main"}
    /\ At("todo") = todo /\ At("dropped") = dropped /\ At("buf") = L!EntriesOf(buf) /\ At("db") = L!EntriesOf(db)
    /\ At("ticker") = L!EntriesOf(batch["ticker"]) /\ At("main") = L!EntriesOf(batch["main"])
    /\ SeqAt("buf") = buf /\ SeqAt("db") = db /\ SeqAt("ticker") = batch["ticker"] /\ SeqAt("main") = batch["main"]
  BY Zenon DEF SeqPlaces, Places, L!Flushers, At, SeqAt

\* Entries move from one place to another.
LEMMA Moved ==
    ASSUME OnePlace, NEW x \in Places, NEW y \in Places, x # y, NEW B \in SUBSET At(x),
           At(x)' = At(x) \ B, At(y)' = At(y) \cup B,
           \A z \in Places \ {x, y} : At(z)' = At(z)
    PROVE  OnePlace'
<1>1. \A p, q \in Places : p # q => At(p) \cap At(q) = {}
  BY Zenon DEF OnePlace
<1>2. ASSUME NEW p \in Places, NEW q \in Places, p # q PROVE At(p)' \cap At(q)' = {}
  <2>1. CASE p \in {x, y} /\ q \in {x, y}
    BY <1>1, <1>2, <2>1
  <2>2. CASE p \in {x, y} /\ q \notin {x, y}
    BY <1>1, <1>2, <2>2
  <2>3. CASE p \notin {x, y} /\ q \in {x, y}
    BY <1>1, <1>2, <2>3
  <2>4. CASE p \notin {x, y} /\ q \notin {x, y}
    BY <1>1, <1>2, <2>4, Zenon
  <2> QED  BY <2>1, <2>2, <2>3, <2>4, Zenon
<1>3. Entries = UNION {At(z)' : z \in Places}
  <2>1. \A e : e \in Entries <=> \E z \in Places : e \in At(z)
    BY DEF OnePlace
  <2>2. \A e : (\E z \in Places : e \in At(z)) <=> (\E z \in Places : e \in At(z)')
    <3>1. ASSUME NEW e, NEW z \in Places, e \in At(z) PROVE \E v \in Places : e \in At(v)'
      <4>1. CASE e \in B
        BY <4>1, Zenon
      <4>2. CASE e \notin B
        BY <3>1, <4>2, Zenon
      <4> QED  BY <4>1, <4>2, Zenon
    <3>2. ASSUME NEW e, NEW z \in Places, e \in At(z)' PROVE \E v \in Places : e \in At(v)
      <4>1. CASE z = y
        BY <3>2, <4>1, Zenon
      <4>2. CASE z # y
        BY <3>2, <4>2, Zenon
      <4> QED  BY <4>1, <4>2, Zenon
    <3> QED  BY <3>1, <3>2, Zenon
  <2> QED  BY <2>1, <2>2, Zenon
<1>4. Places' = Places
  BY Zenon DEF Places, SeqPlaces, L!Flushers
<1> QED  BY <1>2, <1>3, <1>4, Zenon DEF OnePlace

\* Nothing is in the channel or with a flusher; all is to be logged.
LEMMA LogInit == L!Init => LogInv
<1> SUFFICES ASSUME L!Init PROVE LogInv
  OBVIOUS
<1>1. <<>> \in Seq(Entries) /\ Len(<<>>) = 0 /\ Injective(<<>>)
  BY DEF Injective
<1>2. L!EntriesOf(<<>>) = {}
  BY DEF L!EntriesOf
<1>3. /\ todo = Entries /\ buf = <<>> /\ batch = [w \in L!Flushers |-> <<>>] /\ fl = [w \in L!Flushers |-> "idle"]
      /\ db = <<>> /\ dropped = {} /\ srv = "up" /\ fails = 0
  BY Zenon DEF L!Init
<1>4. LogTypes
  BY <1>1, <1>3, LogStoreAssumption DEF LogTypes
<1>5. \A w \in L!Flushers : BatchKept(w)
  BY <1>1, <1>3, LogStoreAssumption DEF BatchKept
<1>6. srv = "up" => fl["main"] = "idle"
  BY <1>3, Zenon DEF L!Flushers
<1>7. batch["ticker"] = <<>> /\ batch["main"] = <<>>
  BY <1>3, Zenon DEF L!Flushers
<1>8. \A x \in SeqPlaces : Injective(SeqAt(x))
  BY <1>1, <1>3, <1>7, AtIs, Zenon
<1>9. OnePlace
  <2>1. At("todo") = Entries /\ \A x \in Places \ {"todo"} : At(x) = {}
    BY <1>2, <1>3, <1>7, AtIs, Zenon
  <2>2. "todo" \in Places
    BY AtIs, Zenon
  <2>3. \A x, y \in Places : x # y => At(x) \cap At(y) = {}
    BY <2>1
  <2>4. UNION {At(x) : x \in Places} = Entries
    BY <2>1, <2>2, Zenon
  <2> QED  BY <2>3, <2>4, Zenon DEF OnePlace
<1> QED  BY <1>4, <1>5, <1>6, <1>8, <1>9, Zenon DEF LogInv

\* Nothing moves.
LEMMA Stays ==
    ASSUME UNCHANGED <<todo, buf, batch, db, dropped>>, LogInv
    PROVE  OnePlace' /\ \A x \in SeqPlaces : Injective(SeqAt(x))'
<1>1. \A x : SeqAt(x)' = SeqAt(x) /\ At(x)' = At(x)
  BY Zenon DEF SeqAt, At
<1>2. OnePlace'
  <2>1. Places' = Places
    BY Zenon DEF Places, SeqPlaces, L!Flushers
  <2> QED  BY <1>1, <2>1, Zenon DEF LogInv, OnePlace
<1>3. \A x \in SeqPlaces : Injective(SeqAt(x))'
  BY <1>1, Zenon DEF LogInv, Injective
<1> QED  BY <1>2, <1>3, Zenon

\* A handler logs an entry.
LEMMA LogOneStep == ASSUME LogInv, NEW e \in Entries, L!Log(e) PROVE LogInv'
<1>1. /\ e \in todo /\ todo' = todo \ {e} /\ UNCHANGED <<batch, fl, db, srv, fails>>
      /\ buf' = IF L!HasRoom THEN Append(buf, e) ELSE buf
      /\ dropped' = IF L!HasRoom THEN dropped ELSE dropped \cup {e}
  BY Zenon DEF L!Log
<1>2. /\ LogTypes /\ OnePlace /\ Injective(buf) /\ Injective(db) /\ Injective(batch["ticker"]) /\ Injective(batch["main"])
      /\ buf \in Seq(Entries) /\ Len(buf) <= BufCap
  BY AtIs, Zenon DEF LogInv, LogTypes
<1>3. e \notin L!EntriesOf(buf)
  BY <1>1, <1>2, AtIs, Zenon DEF OnePlace
<1>4. CASE L!HasRoom
  <2>1. /\ buf' \in Seq(Entries) /\ Len(buf') = Len(buf) + 1 /\ Injective(buf') /\ L!EntriesOf(buf') = L!EntriesOf(buf) \cup {e}
    BY <1>1, <1>2, <1>3, <1>4, AppendOne
  <2>2. Len(buf') <= BufCap
    BY <1>2, <1>4, <2>1, LogStoreAssumption DEF L!HasRoom
  <2>3. LogTypes'
    BY <1>1, <1>2, <1>4, <2>1, <2>2, Zenon DEF LogTypes
  <2>4. OnePlace'
    <3>1. /\ At("todo")' = At("todo") \ {e} /\ At("buf")' = At("buf") \cup {e}
          /\ At("db")' = At("db") /\ At("dropped")' = At("dropped")
          /\ At("ticker")' = At("ticker") /\ At("main")' = At("main")
      BY <1>1, <1>4, <2>1, AtIs, Zenon DEF At, SeqAt
    <3>2. "todo" \in Places /\ "buf" \in Places /\ {e} \in SUBSET At("todo")
      BY <1>1, AtIs, Zenon
    <3>3. \A z \in Places \ {"todo", "buf"} : At(z)' = At(z)
      BY <3>1, AtIs, Zenon
    <3> QED  BY <1>2, <3>1, <3>2, <3>3, Moved, Zenon
  <2>5. \A x \in SeqPlaces : Injective(SeqAt(x))'
    <3>1. SeqAt("buf")' = buf' /\ SeqAt("db")' = db /\ SeqAt("ticker")' = batch["ticker"] /\ SeqAt("main")' = batch["main"]
      BY <1>1, Zenon DEF SeqAt
    <3>2. Injective(buf') /\ Injective(db) /\ Injective(batch["ticker"]) /\ Injective(batch["main"])
      BY <1>2, <2>1, AtIs, Zenon
    <3> QED  BY <3>1, <3>2, AtIs, Zenon
  <2> QED  BY <1>1, <2>3, <2>4, <2>5, Zenon DEF LogInv, BatchKept
<1>5. CASE ~L!HasRoom
  <2>1. LogTypes'
    BY <1>1, <1>2, <1>5, Zenon DEF LogTypes
  <2>2. OnePlace'
    <3>1. /\ At("todo")' = At("todo") \ {e} /\ At("dropped")' = At("dropped") \cup {e}
          /\ At("db")' = At("db") /\ At("buf")' = At("buf")
          /\ At("ticker")' = At("ticker") /\ At("main")' = At("main")
      BY <1>1, <1>5, AtIs, Zenon DEF At, SeqAt
    <3>2. "todo" \in Places /\ "dropped" \in Places /\ {e} \in SUBSET At("todo")
      BY <1>1, AtIs, Zenon
    <3>3. \A z \in Places \ {"todo", "dropped"} : At(z)' = At(z)
      BY <3>1, AtIs, Zenon
    <3> QED  BY <1>2, <3>1, <3>2, <3>3, Moved, Zenon
  <2>3. \A x \in SeqPlaces : Injective(SeqAt(x))'
    <3>1. SeqAt("buf")' = buf /\ SeqAt("db")' = db /\ SeqAt("ticker")' = batch["ticker"] /\ SeqAt("main")' = batch["main"]
      BY <1>1, <1>5, Zenon DEF SeqAt
    <3> QED  BY <1>2, <3>1, AtIs DEF Injective
  <2> QED  BY <1>1, <2>1, <2>2, <2>3 DEF LogInv, BatchKept
<1> QED  BY <1>4, <1>5, Zenon

\* Only where flush and main stand changes.
LEMMA FlChanges ==
    ASSUME LogInv, UNCHANGED <<todo, buf, batch, db, dropped, fails>>,
           fl' \in [L!Flushers -> {"idle", "drain", "write", "full", "over"}],
           srv' \in {"up", "flush", "flushed", "shut", "exited"},
           \A w \in L!Flushers : BatchKept(w)', srv' = "up" => fl'["main"] = "idle"
    PROVE  LogInv'
<1>1. LogTypes'
  BY Zenon DEF LogInv, LogTypes
<1> QED  BY <1>1, Stays, Zenon DEF LogInv, SeqPlaces

\* The ticker starts a flush.
LEMMA LogTickStep == ASSUME LogInv, L!Tick PROVE LogInv'
<1>1. /\ fl["ticker"] = "idle" /\ fl' = [fl EXCEPT !["ticker"] = "drain"]
      /\ UNCHANGED <<todo, buf, batch, db, dropped, srv, fails>>
  BY Zenon DEF L!Tick
<1>2. /\ fl \in [L!Flushers -> {"idle", "drain", "write", "full", "over"}] /\ L!Flushers = {"ticker", "main"}
      /\ \A w \in L!Flushers : BatchKept(w)
  BY AtIs, Zenon DEF LogInv, LogTypes
<1>3. batch["ticker"] = <<>> /\ Len(<<>>) = 0 /\ 0 < FlushSize /\ 0 <= FlushSize
  <2>1. batch["ticker"] = <<>>
    BY <1>1, <1>2, Zenon DEF BatchKept
  <2>2. Len(<<>>) = 0 /\ 0 < FlushSize /\ 0 <= FlushSize
    BY LogStoreAssumption
  <2> QED  BY <2>1, <2>2, Zenon
<1>4. \A w \in L!Flushers : BatchKept(w)'
  BY <1>1, <1>2, <1>3, Zenon DEF BatchKept
<1> QED  BY <1>1, <1>2, <1>4, FlChanges, Zenon DEF LogInv, LogTypes

\* A flush of the ticker returns.
LEMMA FlushReturnsStep == ASSUME LogInv, L!FlushReturns PROVE LogInv'
<1>1. /\ fl["ticker"] = "over" /\ fl' = [fl EXCEPT !["ticker"] = "idle"]
      /\ UNCHANGED <<todo, buf, batch, db, dropped, srv, fails>>
  BY Zenon DEF L!FlushReturns
<1>2. /\ fl \in [L!Flushers -> {"idle", "drain", "write", "full", "over"}] /\ L!Flushers = {"ticker", "main"}
      /\ \A w \in L!Flushers : BatchKept(w)
  BY AtIs DEF LogInv, LogTypes
<1>4. \A w \in L!Flushers : BatchKept(w)'
  BY <1>1, <1>2, Zenon DEF BatchKept
<1> QED  BY <1>1, <1>2, <1>4, FlChanges, Zenon DEF LogInv, LogTypes

\* The signal: main starts its flush.
LEMMA ShutdownStep == ASSUME LogInv, L!Shutdown PROVE LogInv'
<1>1. /\ srv = "up" /\ srv' = "flush" /\ fl' = [fl EXCEPT !["main"] = "drain"]
      /\ UNCHANGED <<todo, buf, batch, db, dropped, fails>>
  BY Zenon DEF L!Shutdown
<1>2. /\ fl \in [L!Flushers -> {"idle", "drain", "write", "full", "over"}] /\ L!Flushers = {"ticker", "main"}
      /\ \A w \in L!Flushers : BatchKept(w)
  BY AtIs DEF LogInv, LogTypes
<1>3. fl["main"] = "idle" /\ batch["main"] = <<>> /\ Len(<<>>) = 0 /\ 0 < FlushSize /\ 0 <= FlushSize
  BY <1>1, <1>2, LogStoreAssumption DEF BatchKept, LogInv
<1>4. \A w \in L!Flushers : BatchKept(w)'
  BY <1>1, <1>2, <1>3, Zenon DEF BatchKept
<1> QED  BY <1>1, <1>2, <1>4, FlChanges, Zenon

\* The rest of the end of main.
LEMMA ShutdownEndsStep == ASSUME LogInv, L!ShutdownHTTP \/ L!Exit PROVE LogInv'
<1>1. /\ srv' \in {"flushed", "shut", "exited"} /\ UNCHANGED <<todo, buf, batch, fl, db, dropped, fails>>
  BY Zenon DEF L!ShutdownHTTP, L!Exit
<1>2. \A w \in L!Flushers : BatchKept(w)'
  BY <1>1, Zenon DEF LogInv, BatchKept
<1> QED  BY <1>1, <1>2, FlChanges, Zenon DEF LogInv, LogTypes

\* A round of the drain loop.
LEMMA ReceiveStep == ASSUME LogInv, NEW w \in L!Flushers, L!Receive(w) PROVE LogInv'
<1>1. fl[w] = "drain" /\ srv # "exited" /\ UNCHANGED <<todo, db, dropped, srv, fails>>
  BY Zenon DEF L!Receive
<1>2. /\ fl \in [L!Flushers -> {"idle", "drain", "write", "full", "over"}] /\ L!Flushers = {"ticker", "main"}
      /\ batch \in [L!Flushers -> Seq(Entries)] /\ (\A v \in L!Flushers : BatchKept(v))
      /\ LogTypes /\ OnePlace /\ Injective(buf) /\ Injective(db) /\ (\A v \in L!Flushers : Injective(batch[v]))
      /\ buf \in Seq(Entries) /\ Len(buf) <= BufCap /\ Len(batch[w]) < FlushSize
  BY <1>1, AtIs, Zenon DEF LogInv, LogTypes, BatchKept
<1>3. srv = "up" => w # "main"
  BY <1>1, Zenon DEF LogInv
<1>4. CASE buf = <<>>
  <2>1. /\ fl' = [fl EXCEPT ![w] = IF batch[w] = <<>> THEN "over" ELSE "write"] /\ UNCHANGED <<buf, batch>>
    BY <1>4, Zenon DEF L!Receive
  <2>2. \A v \in L!Flushers : BatchKept(v)'
    BY <1>1, <1>2, <2>1, Zenon DEF BatchKept
  <2>3. fl' \in [L!Flushers -> {"idle", "drain", "write", "full", "over"}]
    BY <1>2, <2>1, Zenon
  <2>4. srv' = "up" => fl'["main"] = "idle"
    BY <1>1, <1>2, <1>3, <2>1, Zenon DEF LogInv
  <2> QED  BY <1>1, <1>2, <2>1, <2>2, <2>3, <2>4, FlChanges, Zenon DEF LogTypes
<1>5. CASE buf # <<>>
  <2> DEFINE e == Head(buf)
             b == Append(batch[w], e)
  <2>1. /\ buf' = Tail(buf) /\ batch' = [batch EXCEPT ![w] = b]
        /\ fl' = [fl EXCEPT ![w] = IF Len(b) >= FlushSize THEN "full" ELSE "drain"]
    BY <1>5, Zenon DEF L!Receive
  <2>2. /\ buf' \in Seq(Entries) /\ Len(buf') = Len(buf) - 1 /\ Injective(buf')
        /\ e \in Entries /\ e \in L!EntriesOf(buf) /\ L!EntriesOf(buf') = L!EntriesOf(buf) \ {e}
    BY <1>2, <1>5, <2>1, TakeOne, Zenon
  <2> HIDE DEF e
  <2>3. e \notin L!EntriesOf(batch[w])
    BY <1>2, <2>2, AtIs DEF OnePlace
  <2>4. /\ b \in Seq(Entries) /\ Len(b) = Len(batch[w]) + 1 /\ Injective(b) /\ L!EntriesOf(b) = L!EntriesOf(batch[w]) \cup {e}
    <3>1. batch[w] \in Seq(Entries) /\ Injective(batch[w])
      BY <1>2, Zenon
    <3> QED  BY <2>2, <2>3, <3>1, AppendOne
  <2> HIDE DEF b
  <2>5. Len(b) <= FlushSize /\ Len(b) \in Nat /\ (~(Len(b) >= FlushSize) => Len(b) < FlushSize)
    <3>1. Len(batch[w]) \in Nat /\ Len(batch[w]) < FlushSize /\ FlushSize \in Nat
      BY <1>2, LogStoreAssumption
    <3> QED  BY <2>4, <3>1
  <2>6. LogTypes'
    <3>1. Len(buf') <= BufCap
      <4>1. Len(buf) \in Nat /\ Len(buf) <= BufCap /\ BufCap \in Nat
        BY <1>2, LogStoreAssumption
      <4> QED  BY <2>2, <4>1
    <3>2. batch' \in [L!Flushers -> Seq(Entries)] /\ fl' \in [L!Flushers -> {"idle", "drain", "write", "full", "over"}]
      BY <1>2, <2>1, <2>4, Zenon
    <3> QED  BY <1>1, <1>2, <2>2, <3>1, <3>2, Zenon DEF LogTypes
  <2>7. \A v \in L!Flushers : BatchKept(v)'
    BY <1>2, <2>1, <2>5, Zenon DEF BatchKept
  <2>8. srv' = "up" => fl'["main"] = "idle"
    BY <1>1, <1>2, <1>3, <2>1, Zenon DEF LogInv
  <2>9. \A x \in SeqPlaces : Injective(SeqAt(x))'
    <3>1. /\ SeqAt("buf")' = buf' /\ SeqAt("db")' = db /\ SeqAt("ticker")' = batch'["ticker"] /\ SeqAt("main")' = batch'["main"]
      BY <1>1, Zenon DEF SeqAt
    <3>2. \A v \in L!Flushers : Injective(batch'[v])
      BY <1>2, <2>1, <2>4, Zenon
    <3>3. Injective(buf') /\ Injective(db) /\ Injective(batch'["ticker"]) /\ Injective(batch'["main"])
      BY <1>2, <2>2, <3>2, Zenon
    <3> QED  BY <3>1, <3>3, AtIs, Zenon
  <2>10. OnePlace'
    <3>1. /\ At("buf")' = At("buf") \ {e} /\ At("db")' = At("db")
          /\ At("todo")' = At("todo") /\ At("dropped")' = At("dropped")
      BY <1>1, <2>2, AtIs, Zenon DEF At, SeqAt
    <3>2. \A v \in L!Flushers : At(v)' = L!EntriesOf(batch'[v]) /\ At(v) = L!EntriesOf(batch[v])
      BY <1>2, Zenon DEF At, SeqAt
    <3>3. At(w)' = At(w) \cup {e} /\ \A v \in L!Flushers \ {w} : At(v)' = At(v)
      BY <1>2, <2>1, <2>4, <3>2, Zenon
    <3>4. "buf" \in Places /\ w \in Places /\ w # "buf" /\ {e} \in SUBSET At("buf")
      BY <1>2, <2>2, AtIs, Zenon
    <3>5. \A z \in Places \ {"buf", w} : At(z)' = At(z)
      BY <1>2, <3>1, <3>3, AtIs, Zenon
    <3> QED  BY <1>2, <3>1, <3>3, <3>4, <3>5, Moved, Zenon
  <2> QED  BY <2>6, <2>7, <2>8, <2>9, <2>10, Zenon DEF LogInv, SeqPlaces
<1> QED  BY <1>4, <1>5, Zenon

\* A transaction, which may fail.  Its ids are never in the table yet.
LEMMA WriteBatchStep == ASSUME LogInv, NEW w \in L!Flushers, NEW ok \in BOOLEAN, L!WriteBatch(w, ok) PROVE LogInv'
<1>1. /\ fl[w] \in {"write", "full"} /\ srv # "exited" /\ UNCHANGED <<todo, buf, srv>> /\ (~ok => fails < MaxFails)
      /\ fails' = (IF ok THEN fails ELSE fails + 1)
      /\ batch' = [batch EXCEPT ![w] = <<>>] /\ fl' = [fl EXCEPT ![w] = IF fl[w] = "full" THEN "drain" ELSE "over"]
  BY Zenon DEF L!WriteBatch, L!AfterWrite
<1>2. /\ fl \in [L!Flushers -> {"idle", "drain", "write", "full", "over"}] /\ L!Flushers = {"ticker", "main"}
      /\ batch \in [L!Flushers -> Seq(Entries)] /\ (\A v \in L!Flushers : BatchKept(v))
      /\ LogTypes /\ OnePlace /\ Injective(buf) /\ Injective(db) /\ (\A v \in L!Flushers : Injective(batch[v]))
      /\ db \in Seq(Entries) /\ fails \in 0..MaxFails /\ dropped \subseteq Entries
  BY <1>1, AtIs, Zenon DEF LogInv, LogTypes
<1>3. srv = "up" => w # "main"
  BY <1>1, Zenon DEF LogInv
<1>4. L!EntriesOf(batch[w]) \cap L!EntriesOf(db) = {}
  BY <1>2, AtIs, Zenon DEF OnePlace
<1>5. /\ db' = (IF ok THEN db \o batch[w] ELSE db)
      /\ dropped' = (IF ok THEN dropped ELSE dropped \cup L!EntriesOf(batch[w]))
  BY <1>4, Zenon DEF L!WriteBatch
<1>6. batch[w] \in Seq(Entries) /\ Injective(batch[w]) /\ L!EntriesOf(batch[w]) \subseteq Entries
  BY <1>2 DEF L!EntriesOf
<1>7. db' \in Seq(Entries) /\ Injective(db') /\ L!EntriesOf(db') = IF ok THEN L!EntriesOf(db) \cup L!EntriesOf(batch[w]) ELSE L!EntriesOf(db)
  <2>1. CASE ok
    <3>1. /\ db \o batch[w] \in Seq(Entries) /\ Injective(db \o batch[w])
          /\ L!EntriesOf(db \o batch[w]) = L!EntriesOf(db) \cup L!EntriesOf(batch[w])
      BY <1>2, <1>4, <1>6, JoinTwo
    <3> QED  BY <1>5, <2>1, <3>1, Zenon
  <2>2. CASE ~ok
    BY <1>2, <1>5, <2>2, Zenon
  <2> QED  BY <2>1, <2>2, Zenon
<1>8. <<>> \in Seq(Entries) /\ Len(<<>>) = 0 /\ Injective(<<>>) /\ L!EntriesOf(<<>>) = {}
  BY DEF Injective, L!EntriesOf
<1>9. LogTypes'
  <2>1. fails' \in 0..MaxFails
    BY <1>1, <1>2, LogStoreAssumption
  <2>2. batch' \in [L!Flushers -> Seq(Entries)] /\ fl' \in [L!Flushers -> {"idle", "drain", "write", "full", "over"}]
    BY <1>1, <1>2, <1>8, Zenon
  <2> QED  BY <1>1, <1>2, <1>5, <1>6, <1>7, <2>1, <2>2, Zenon DEF LogTypes
<1>10. \A v \in L!Flushers : BatchKept(v)'
  BY <1>1, <1>2, <1>8, LogStoreAssumption DEF BatchKept
<1>11. srv' = "up" => fl'["main"] = "idle"
  BY <1>1, <1>2, <1>3, Zenon DEF LogInv
<1>12. \A x \in SeqPlaces : Injective(SeqAt(x))'
  <2>1. /\ SeqAt("buf")' = buf /\ SeqAt("db")' = db' /\ SeqAt("ticker")' = batch'["ticker"] /\ SeqAt("main")' = batch'["main"]
    BY <1>1, Zenon DEF SeqAt
  <2>2. \A v \in L!Flushers : Injective(batch'[v])
    BY <1>1, <1>2, <1>8, Zenon
  <2>3. Injective(buf) /\ Injective(db') /\ Injective(batch'["ticker"]) /\ Injective(batch'["main"])
    BY <1>2, <1>7, <2>2, Zenon
  <2> QED  BY <2>1, <2>3, AtIs DEF Injective
<1>13. OnePlace'
  <2>1. /\ At("buf")' = At("buf") /\ At("todo")' = At("todo") /\ At("db")' = L!EntriesOf(db') /\ At("dropped")' = dropped'
    BY <1>1, Zenon DEF At, SeqAt
  <2>2. \A v \in L!Flushers : At(v)' = L!EntriesOf(batch'[v]) /\ At(v) = L!EntriesOf(batch[v])
    BY <1>2, Zenon DEF At, SeqAt
  <2>3. At(w)' = At(w) \ At(w) /\ \A v \in L!Flushers \ {w} : At(v)' = At(v)
    BY <1>1, <1>2, <1>8, <2>2, Zenon
  <2>4. "db" \in Places /\ "dropped" \in Places /\ w \in Places /\ w # "db" /\ w # "dropped" /\ At(w) \in SUBSET At(w)
    BY <1>2, AtIs, Zenon
  <2>5. CASE ok
    <3>1. At("db")' = At("db") \cup At(w) /\ At("dropped")' = At("dropped")
      BY <1>5, <1>7, <2>1, <2>2, <2>5, AtIs, Zenon
    <3>2. \A z \in Places \ {w, "db"} : At(z)' = At(z)
      BY <1>2, <2>1, <2>3, <3>1, AtIs, Zenon
    <3> QED  BY <1>2, <2>3, <2>4, <3>1, <3>2, Moved, Zenon
  <2>6. CASE ~ok
    <3>1. At("db")' = At("db") /\ At("dropped")' = At("dropped") \cup At(w)
      BY <1>5, <1>7, <2>1, <2>2, <2>6, AtIs, Zenon
    <3>2. \A z \in Places \ {w, "dropped"} : At(z)' = At(z)
      BY <1>2, <2>1, <2>3, <3>1, AtIs, Zenon
    <3> QED  BY <1>2, <2>3, <2>4, <3>1, <3>2, Moved, Zenon
  <2> QED  BY <2>5, <2>6, Zenon
<1> QED  BY <1>9, <1>10, <1>11, <1>12, <1>13, Zenon DEF LogInv, SeqPlaces

\* Every step of the module, and none.
LEMMA LogStep == LogInv /\ [L!Next]_logVars => LogInv'
<1> SUFFICES ASSUME LogInv, [L!Next]_logVars PROVE LogInv'
  OBVIOUS
<1>1. CASE UNCHANGED logVars
  <2>1. UNCHANGED <<todo, buf, batch, fl, db, dropped, srv, fails>>
    BY <1>1, Zenon DEF logVars
  <2> QED  BY <2>1, Stays, Zenon DEF LogInv, LogTypes, BatchKept, SeqPlaces
<1>2. CASE L!Next
  BY <1>2, LogOneStep, LogTickStep, FlushReturnsStep, ShutdownStep, ShutdownEndsStep, ReceiveStep,
     WriteBatchStep, Zenon DEF L!Next, L!Flush
<1> QED  BY <1>1, <1>2

\* Every entry is accounted for, once, for any entries, capacity and batches, with two
\* flushers that drain the channel at the same time (flush, writeBatch).
THEOREM LogSafe == L!Spec => [](L!TypeOK /\ Accounted)
<1>1. L!Init => LogInv
  BY LogInit
<1>2. LogInv /\ [L!Next]_(L!vars) => LogInv'
  BY LogStep, Zenon DEF logVars, L!vars
<1>3. LogInv => L!TypeOK /\ Accounted
  BY LogTypeOK, LogAccounted, Zenon
<1> QED  BY <1>1, <1>2, <1>3, PTL DEF L!Spec

-----------------------------------------------------------------------------
(* Forwards.                                                               *)

CONSTANTS
  Networks, Fwds, Clients

\* Finitely many connections.
ASSUME ForwardsAssumption ==
  IsFiniteSet(Clients)

VARIABLES
  inst, fwd, conn, stp

F == INSTANCE Forwards

forwardVars == <<inst, fwd, conn, stp>>

\* A listening socket always belongs to a forward that the table lists, that Start is
\* about to list or that a stopper is going to drain: none is left that no request can
\* find (StopForNetwork, StopAllForNetwork, StopAll, reapIdle).
ListenerOwned == F!ListenerOwned

\* Whoever stops forwards gets done with all of them in the end, also when clients keep
\* their connections for ever: a request, the deletion and the shutdown return (drain).
StopsReturn == F!StopsReturn

FwdType == [pc : {"none", "starting", "listed", "removed"}, net : Networks \cup {0},
            open : BOOLEAN, ctx : BOOLEAN, active : 0..Cardinality(Clients), idle : BOOLEAN]
ConnType == [pc : {"none", "queued", "accepted", "dial", "open", "closed"},
             fwd : Fwds \cup {0}, out : BOOLEAN, in : BOOLEAN]
StpType == [todo : SUBSET Fwds, cur : Fwds \cup {0}, net : Networks \cup {0}, over : BOOLEAN]

\* The connections of f that have a handler.
Handled(f) == {c \in Clients : conn[c].fwd = f /\ conn[c].pc \in {"dial", "open"}}

ForwardTypes ==
  /\ inst \in [Networks -> BOOLEAN] /\ fwd \in [Fwds -> FwdType]
  /\ conn \in [Clients -> ConnType] /\ stp \in [F!Stoppers -> StpType]
  /\ \A c \in Clients : conn[c].pc \in {"queued", "accepted", "dial", "open"} => conn[c].fwd \in Fwds

Counted == \A f \in Fwds : fwd[f].active = Cardinality(Handled(f))

\* Nobody is connected to a forward that was not started.
NotStarted ==
  \A f \in Fwds : fwd[f].pc = "none" =>
    /\ ~fwd[f].open
    /\ \A c \in Clients : conn[c].pc \in {"queued", "accepted", "dial", "open"} => conn[c].fwd # f

\* The inductive invariant.
ForwardInv == ForwardTypes /\ Counted /\ NotStarted /\ F!ListenerOwned

\* The module's own instance of Cardinality.
LEMMA ForwardCardinality == \A S : F!Cardinality(S) = Cardinality(S)
  BY DEF F!Cardinality, Cardinality

\* A forward that is not there.
LEMMA NoFwdType == F!NoFwd \in FwdType /\ F!NoFwd.active = 0 /\ ~F!NoFwd.open
<1>1. Cardinality(Clients) \in Nat
  BY ForwardsAssumption, FS_CardinalityType, Zenon
<1> QED  BY <1>1 DEF F!NoFwd, FwdType

\* What the steps of a forward, of a stopper and of a connection keep.
LEMMA CountedKept ==
    ASSUME Counted, \A f \in Fwds : fwd'[f].active = fwd[f].active,
           \A c \in Clients : \/ conn'[c] = conn[c]
                              \/ conn'[c].fwd = conn[c].fwd /\ conn[c].pc \in {"dial", "open"} /\ conn'[c].pc \in {"dial", "open"}
                              \/ conn[c].pc \notin {"dial", "open"} /\ conn'[c].pc \notin {"dial", "open"}
    PROVE  Counted'
<1>1. \A f \in Fwds : Handled(f)' = Handled(f)
  BY Zenon DEF Handled
<1> QED  BY <1>1, Zenon DEF Counted

\* The invariant contains the type invariant of the module.
LEMMA ForwardTypeOK == ForwardInv => F!TypeOK
<1> SUFFICES ASSUME ForwardInv PROVE F!TypeOK
  OBVIOUS
<1>1. \A f \in Fwds : fwd[f].active =
        Cardinality({c \in Clients : conn[c].fwd = f /\ conn[c].pc \in {"dial", "open"}})
  BY Zenon DEF ForwardInv, Counted, Handled
<1>2. inst \in [Networks -> BOOLEAN] /\ fwd \in [Fwds -> FwdType]
  BY Zenon DEF ForwardInv, ForwardTypes
<1>3. conn \in [Clients -> ConnType] /\ stp \in [F!Stoppers -> StpType]
  BY Zenon DEF ForwardInv, ForwardTypes
<1> QED  BY <1>1, <1>2, <1>3, ForwardCardinality, Zenon DEF F!TypeOK, FwdType, ConnType, StpType

\* Nothing listens, nothing runs.
LEMMA ForwardInit == F!Init => ForwardInv
<1> SUFFICES ASSUME F!Init PROVE ForwardInv
  OBVIOUS
<1>1. /\ F!NoFwd \in FwdType /\ F!NoFwd.active = 0 /\ ~F!NoFwd.open
      /\ F!NoConn \in ConnType /\ F!NoConn.pc = "none"
  BY NoFwdType, Zenon DEF F!NoConn, ConnType
<1>2. ForwardTypes
  BY <1>1, Zenon DEF F!Init, ForwardTypes, StpType
<1>3. \A f \in Fwds : Handled(f) = {}
  BY <1>1, Zenon DEF F!Init, Handled
<1>4. Counted
  BY <1>1, <1>3, FS_EmptySet, Zenon DEF F!Init, Counted
<1>5. F!ListenerOwned
  BY <1>1, Zenon DEF F!Init, F!ListenerOwned
<1>6. NotStarted
  BY <1>1, Zenon DEF F!Init, NotStarted
<1> QED  BY <1>2, <1>4, <1>5, <1>6, Zenon DEF ForwardInv

\* Start and the clock change one forward.
LEMMA OneForward ==
    ASSUME ForwardInv, NEW f \in Fwds, NEW r \in FwdType, fwd' = [fwd EXCEPT ![f] = r],
           inst' = inst, conn' = conn, stp' = stp, r.active = fwd[f].active,
           r.pc # "none",
           r.open => r.pc \in {"starting", "listed"} \/ \E s \in F!Stoppers : f \in stp[s].todo
    PROVE  ForwardInv'
<1>1. ForwardTypes'
  BY Zenon DEF ForwardInv, ForwardTypes
<1>2. Counted'
  BY CountedKept, Zenon DEF ForwardInv, ForwardTypes
<1>3. F!ListenerOwned'
  BY Zenon DEF ForwardInv, ForwardTypes, F!ListenerOwned
<1>4. NotStarted'
  BY Zenon DEF ForwardInv, ForwardTypes, NotStarted
<1> QED  BY <1>1, <1>2, <1>3, <1>4, Zenon DEF ForwardInv

\* The first half of Start: the forward had no listener, and no connection.
LEMMA ListenStep ==
    ASSUME ForwardInv, NEW f \in Fwds, NEW n \in Networks, F!Listen(f, n) PROVE ForwardInv'
<1> DEFINE r == [F!NoFwd EXCEPT !.pc = "starting", !.net = n, !.open = TRUE]
<1>1. F!NoFwd \in FwdType /\ F!NoFwd.active = 0
  BY NoFwdType, Zenon
<1>2. r \in FwdType /\ r.pc = "starting" /\ r.active = 0
  BY <1>1, Zenon DEF FwdType
<1>3. Handled(f) = {}
  BY Zenon DEF F!Listen, ForwardInv, NotStarted, Handled
<1>4. fwd[f].active = 0
  BY <1>3, FS_EmptySet, Zenon DEF ForwardInv, Counted
<1> QED  BY <1>2, <1>4, OneForward, Zenon DEF F!Listen

\* The second half of Start.
LEMMA RegisterStep == ASSUME ForwardInv, NEW f \in Fwds, F!Register(f) PROVE ForwardInv'
<1> DEFINE r == [fwd[f] EXCEPT !.pc = "listed"]
<1>1. fwd[f] \in FwdType
  BY Zenon DEF ForwardInv, ForwardTypes
<1>2. r \in FwdType /\ r.pc = "listed" /\ r.active = fwd[f].active
  BY <1>1, Zenon DEF FwdType
<1> QED  BY <1>2, OneForward, Zenon DEF F!Register

\* The clock.
LEMMA TimePassesStep == ASSUME ForwardInv, NEW f \in Fwds, F!TimePasses(f) PROVE ForwardInv'
<1> DEFINE r == [fwd[f] EXCEPT !.idle = TRUE]
<1>1. fwd[f] \in FwdType /\ fwd[f].pc = "listed"
  BY Zenon DEF ForwardInv, ForwardTypes, F!TimePasses
<1>2. r \in FwdType /\ r.pc = "listed" /\ r.active = fwd[f].active
  BY <1>1, Zenon DEF FwdType
<1> QED  BY <1>2, OneForward, Zenon DEF F!TimePasses

\* The stoppers: the forwards of S leave the table and go to the list of s, which was empty.
LEMMA TakeOutStep ==
    ASSUME ForwardInv, NEW s \in F!Stoppers, NEW S \in SUBSET F!Listed(0), F!Free(s),
           NEW p \in StpType, p.todo = S,
           fwd' = F!Removed(S), stp' = [stp EXCEPT ![s] = p], inst' = inst, conn' = conn
    PROVE  ForwardInv'
<1> DEFINE r(f) == [fwd[f] EXCEPT !.pc = "removed", !.idle = FALSE]
<1>1. S \subseteq Fwds /\ \A f \in S : fwd[f].pc = "listed"
  BY Zenon DEF F!Listed
<1>2. \A f \in Fwds : fwd[f] \in FwdType
  BY Zenon DEF ForwardInv, ForwardTypes
<1>3. \A f \in Fwds : /\ r(f) \in FwdType /\ r(f).active = fwd[f].active
                      /\ r(f).open = fwd[f].open /\ r(f).pc = "removed"
  BY <1>2, Zenon DEF FwdType
<1>4. \A f \in Fwds : fwd'[f] = IF f \in S THEN r(f) ELSE fwd[f]
  BY Zenon DEF F!Removed
<1>5. fwd' \in [Fwds -> FwdType]
  BY <1>2, <1>3, Zenon DEF F!Removed
<1> HIDE DEF r
<1>6. ForwardTypes'
  BY <1>5, Zenon DEF ForwardInv, ForwardTypes
<1>7. Counted'
  BY <1>3, <1>4, CountedKept, Zenon DEF ForwardInv
<1>8. NotStarted'
  BY <1>1, <1>3, <1>4, ZenonT(40) DEF ForwardInv, NotStarted
<1>9. F!ListenerOwned'
  <2> SUFFICES ASSUME NEW f \in Fwds, fwd'[f].open
               PROVE  fwd'[f].pc \in {"starting", "listed"} \/ \E q \in F!Stoppers : f \in stp'[q].todo
    BY Zenon DEF F!ListenerOwned
  <2>1. stp'[s].todo = S /\ \A q \in F!Stoppers : q # s => stp'[q] = stp[q]
    BY Zenon DEF ForwardInv, ForwardTypes
  <2>2. stp[s].todo = {}
    BY Zenon DEF F!Free
  <2>3. CASE f \in S
    BY <2>1, <2>3, Zenon
  <2>4. CASE f \notin S
    BY <1>4, <2>1, <2>2, <2>4, Zenon DEF ForwardInv, F!ListenerOwned
  <2> QED  BY <2>3, <2>4, Zenon
<1> QED  BY <1>6, <1>7, <1>8, <1>9, Zenon DEF ForwardInv

\* A user stops a forward.
LEMMA StopForNetworkStep ==
    ASSUME ForwardInv, NEW f \in Fwds, NEW n \in Networks, F!StopForNetwork(n, f) PROVE ForwardInv'
<1> DEFINE p == [stp["user"] EXCEPT !.todo = {f}]
<1>1. stp["user"] \in StpType /\ "user" \in F!Stoppers
  BY Zenon DEF ForwardInv, ForwardTypes, F!Stoppers
<1>2. p \in StpType /\ p.todo = {f}
  BY <1>1, Zenon DEF StpType
<1>3. {f} \in SUBSET F!Listed(0)
  BY Zenon DEF F!StopForNetwork, F!Listed
<1>4. /\ F!Free("user") /\ fwd' = F!Removed({f}) /\ inst' = inst /\ conn' = conn
      /\ stp' = [stp EXCEPT !["user"] = p]
  BY Zenon DEF F!StopForNetwork, F!TakeOut
<1> QED  BY <1>1, <1>2, <1>3, <1>4, TakeOutStep, Zenon

\* The reaper takes what is idle.
LEMMA ReapIdleStep == ASSUME ForwardInv, F!ReapIdle PROVE ForwardInv'
<1> DEFINE p == [stp["reaper"] EXCEPT !.todo = F!Idle]
<1>1. stp["reaper"] \in StpType /\ "reaper" \in F!Stoppers
  BY Zenon DEF ForwardInv, ForwardTypes, F!Stoppers
<1>2. F!Idle \in SUBSET F!Listed(0) /\ F!Idle \in SUBSET Fwds
  BY Zenon DEF F!Idle, F!Listed
<1>3. p \in StpType /\ p.todo = F!Idle
  BY <1>1, <1>2, Zenon DEF StpType
<1>4. /\ F!Free("reaper") /\ fwd' = F!Removed(F!Idle) /\ inst' = inst /\ conn' = conn
      /\ stp' = [stp EXCEPT !["reaper"] = p]
  BY Zenon DEF F!ReapIdle, F!TakeOut
<1> QED  BY <1>1, <1>2, <1>3, <1>4, TakeOutStep, Zenon

\* The deletion of a network takes its forwards.
LEMMA StopAllForNetworkStep ==
    ASSUME ForwardInv, NEW n \in Networks, F!StopAllForNetwork(n) PROVE ForwardInv'
<1> DEFINE p == [stp["delete"] EXCEPT !.todo = F!Listed(n), !.net = n]
<1>1. stp["delete"] \in StpType /\ "delete" \in F!Stoppers
  BY Zenon DEF ForwardInv, ForwardTypes, F!Stoppers
<1>2. F!Listed(n) \in SUBSET F!Listed(0) /\ F!Listed(n) \in SUBSET Fwds
  BY Zenon DEF F!Listed
<1>3. p \in StpType /\ p.todo = F!Listed(n)
  BY <1>1, <1>2, Zenon DEF StpType
<1>4. /\ F!Free("delete") /\ fwd' = F!Removed(F!Listed(n)) /\ inst' = inst /\ conn' = conn
      /\ stp' = [stp EXCEPT !["delete"] = p]
  BY <1>1, Zenon DEF F!StopAllForNetwork, StpType
<1> QED  BY <1>1, <1>2, <1>3, <1>4, TakeOutStep, Zenon

\* The shutdown takes all forwards.
LEMMA StopAllStep == ASSUME ForwardInv, F!StopAll PROVE ForwardInv'
<1> DEFINE p == [stp["shutdown"] EXCEPT !.todo = F!Listed(0), !.over = TRUE]
<1>1. stp["shutdown"] \in StpType /\ "shutdown" \in F!Stoppers
  BY Zenon DEF ForwardInv, ForwardTypes, F!Stoppers
<1>2. F!Listed(0) \in SUBSET F!Listed(0) /\ F!Listed(0) \in SUBSET Fwds
  BY Zenon DEF F!Listed
<1>3. p \in StpType /\ p.todo = F!Listed(0)
  BY <1>1, <1>2, Zenon DEF StpType
<1>4. /\ F!Free("shutdown") /\ fwd' = F!Removed(F!Listed(0)) /\ inst' = inst /\ conn' = conn
      /\ stp' = [stp EXCEPT !["shutdown"] = p]
  BY <1>1, Zenon DEF F!StopAll, StpType
<1> QED  BY <1>1, <1>2, <1>3, <1>4, TakeOutStep, Zenon

\* A forward is drained: its listener closes, connections not accepted are reset.
LEMMA DrainStep ==
    ASSUME ForwardInv, NEW s \in F!Stoppers, NEW f \in Fwds, F!Drain(s, f) PROVE ForwardInv'
<1> DEFINE r == [fwd[f] EXCEPT !.ctx = FALSE, !.open = FALSE]
           p == [stp[s] EXCEPT !.todo = @ \ {f}, !.cur = f]
<1>1. fwd[f] \in FwdType /\ stp[s] \in StpType
  BY Zenon DEF ForwardInv, ForwardTypes
<1>2. r \in FwdType /\ ~r.open /\ r.pc = fwd[f].pc /\ r.active = fwd[f].active
  BY <1>1, Zenon DEF FwdType
<1>3. p \in StpType /\ p.todo = stp[s].todo \ {f}
  BY <1>1, Zenon DEF StpType
<1>4. fwd' = [fwd EXCEPT ![f] = r] /\ stp' = [stp EXCEPT ![s] = p] /\ inst' = inst
  BY Zenon DEF F!Drain
<1>5. F!NoConn \in ConnType /\ [F!NoConn EXCEPT !.pc = "closed"] \in ConnType
      /\ [F!NoConn EXCEPT !.pc = "closed"].pc = "closed"
  BY Zenon DEF F!NoConn, ConnType
<1>6. /\ conn' \in [Clients -> ConnType]
      /\ \A c \in Clients : \/ conn'[c] = conn[c]
                            \/ conn[c].pc = "queued" /\ conn'[c].pc = "closed"
  BY <1>5, Zenon DEF F!Drain, ForwardInv, ForwardTypes
<1> HIDE DEF r, p
<1>7. fwd' \in [Fwds -> FwdType] /\ stp' \in [F!Stoppers -> StpType]
  BY <1>2, <1>3, <1>4, Zenon DEF ForwardInv, ForwardTypes
<1>8. /\ fwd'[f] = r /\ \A g \in Fwds : g # f => fwd'[g] = fwd[g]
      /\ stp'[s] = p /\ \A q \in F!Stoppers : q # s => stp'[q] = stp[q]
  BY <1>4, Zenon DEF ForwardInv, ForwardTypes
<1>9. ForwardTypes'
  BY <1>4, <1>6, <1>7, Zenon DEF ForwardInv, ForwardTypes
<1>10. Counted'
  BY <1>2, <1>6, <1>8, CountedKept, Zenon DEF ForwardInv
<1>11. NotStarted'
  BY <1>2, <1>6, <1>8 DEF ForwardInv, NotStarted
<1>12. F!ListenerOwned'
  BY <1>2, <1>3, <1>8, Zenon DEF ForwardInv, F!ListenerOwned
<1> QED  BY <1>9, <1>10, <1>11, <1>12, Zenon DEF ForwardInv

\* Steps of a stopper that keep its list.
LEMMA OneStopper ==
    ASSUME ForwardInv, NEW s \in F!Stoppers, NEW p \in StpType, p.todo = stp[s].todo,
           stp' = [stp EXCEPT ![s] = p], fwd' = fwd, conn' = conn,
           inst' \in [Networks -> BOOLEAN]
    PROVE  ForwardInv'
<1>1. stp' \in [F!Stoppers -> StpType] /\ \A q \in F!Stoppers : stp'[q].todo = stp[q].todo
  BY Zenon DEF ForwardInv, ForwardTypes
<1>2. ForwardTypes'
  BY <1>1, Zenon DEF ForwardInv, ForwardTypes
<1>3. Counted'
  BY CountedKept, Zenon DEF ForwardInv
<1>4. NotStarted' /\ F!ListenerOwned'
  BY <1>1, Zenon DEF ForwardInv, NotStarted, F!ListenerOwned
<1> QED  BY <1>2, <1>3, <1>4, Zenon DEF ForwardInv

\* The wait in drain ends.
LEMMA DrainReturnsStep ==
    ASSUME ForwardInv, NEW s \in F!Stoppers, NEW timeout \in BOOLEAN, F!DrainReturns(s, timeout)
    PROVE  ForwardInv'
<1> DEFINE p == [stp[s] EXCEPT !.cur = 0]
<1>1. p \in StpType /\ p.todo = stp[s].todo
  BY Zenon DEF ForwardInv, ForwardTypes, StpType
<1>2. inst \in [Networks -> BOOLEAN]
  BY Zenon DEF ForwardInv, ForwardTypes
<1> QED  BY <1>1, <1>2, OneStopper, Zenon DEF F!DrainReturns

\* The network's instance goes.
LEMMA NetworkStoppedStep == ASSUME ForwardInv, F!NetworkStopped PROVE ForwardInv'
<1> DEFINE p == [stp["delete"] EXCEPT !.net = 0]
<1>1. "delete" \in F!Stoppers /\ p \in StpType /\ p.todo = stp["delete"].todo
  BY Zenon DEF ForwardInv, ForwardTypes, StpType, F!Stoppers
<1>2. inst' \in [Networks -> BOOLEAN]
  BY Zenon DEF ForwardInv, ForwardTypes, F!NetworkStopped
<1> QED  BY <1>1, <1>2, OneStopper, Zenon DEF F!NetworkStopped

\* A connection moves on without gaining or losing its handler.
LEMMA OneConnMoves ==
    ASSUME ForwardInv, NEW c \in Clients, NEW q \in ConnType, conn' = [conn EXCEPT ![c] = q],
           inst' = inst, fwd' = fwd, stp' = stp,
           q.pc \in {"queued", "accepted", "dial", "open"}
             => q.fwd \in Fwds /\ fwd[q.fwd].pc # "none",
           \/ q.fwd = conn[c].fwd /\ q.pc \in {"dial", "open"} /\ conn[c].pc \in {"dial", "open"}
           \/ q.pc \notin {"dial", "open"} /\ conn[c].pc \notin {"dial", "open"}
    PROVE  ForwardInv'
<1>1. /\ conn' \in [Clients -> ConnType]
      /\ conn'[c] = q /\ \A d \in Clients : d # c => conn'[d] = conn[d]
  BY Zenon DEF ForwardInv, ForwardTypes
<1>2. ForwardTypes'
  BY <1>1, Zenon DEF ForwardInv, ForwardTypes
<1>3. Counted'
  BY <1>1, CountedKept, Zenon DEF ForwardInv
<1>4. NotStarted' /\ F!ListenerOwned'
  BY <1>1, Zenon DEF ForwardInv, NotStarted, F!ListenerOwned
<1> QED  BY <1>2, <1>3, <1>4, Zenon DEF ForwardInv

\* The connection c of a forward that was started.
LEMMA ConnHasForward ==
    ASSUME ForwardInv, NEW c \in Clients, conn[c].pc \in {"queued", "accepted", "dial", "open"}
    PROVE  conn[c] \in ConnType /\ conn[c].fwd \in Fwds /\ fwd[conn[c].fwd].pc # "none"
  BY Zenon DEF ForwardInv, ForwardTypes, NotStarted

\* A client connects to a listener.
LEMMA ConnectStep ==
    ASSUME ForwardInv, NEW c \in Clients, NEW f \in Fwds, F!Connect(c, f) PROVE ForwardInv'
<1> DEFINE q == [conn[c] EXCEPT !.pc = "queued", !.fwd = f]
<1>1. conn[c] \in ConnType /\ conn[c].pc = "none" /\ fwd[f].pc # "none"
  BY Zenon DEF ForwardInv, ForwardTypes, NotStarted, F!Connect
<1>2. q \in ConnType /\ q.pc = "queued" /\ q.fwd = f
  BY <1>1, Zenon DEF ConnType
<1>3. conn' = [conn EXCEPT ![c] = q] /\ inst' = inst /\ fwd' = fwd /\ stp' = stp
  BY Zenon DEF F!Connect
<1> QED  BY <1>1, <1>2, <1>3, OneConnMoves, Zenon

\* acceptLoop takes it.
LEMMA AcceptStep == ASSUME ForwardInv, NEW c \in Clients, F!Accept(c) PROVE ForwardInv'
<1> DEFINE q == [conn[c] EXCEPT !.pc = "accepted"]
<1>1. /\ conn[c] \in ConnType /\ conn[c].fwd \in Fwds /\ fwd[conn[c].fwd].pc # "none"
      /\ conn[c].pc = "queued"
  BY ConnHasForward, Zenon DEF F!Accept
<1>2. q \in ConnType /\ q.pc = "accepted" /\ q.fwd = conn[c].fwd
  BY <1>1, Zenon DEF ConnType
<1>3. conn' = [conn EXCEPT ![c] = q] /\ inst' = inst /\ fwd' = fwd /\ stp' = stp
  BY Zenon DEF F!Accept
<1> QED  BY <1>1, <1>2, <1>3, OneConnMoves, Zenon

\* The dial succeeds.
LEMMA DialPortStep == ASSUME ForwardInv, NEW c \in Clients, F!DialPort(c) PROVE ForwardInv'
<1> DEFINE q == [conn[c] EXCEPT !.pc = "open", !.out = TRUE, !.in = TRUE]
<1>1. /\ conn[c] \in ConnType /\ conn[c].fwd \in Fwds /\ fwd[conn[c].fwd].pc # "none"
      /\ conn[c].pc = "dial"
  BY ConnHasForward, Zenon DEF F!DialPort
<1>2. q \in ConnType /\ q.pc = "open" /\ q.fwd = conn[c].fwd
  BY <1>1, Zenon DEF ConnType
<1>3. conn' = [conn EXCEPT ![c] = q] /\ inst' = inst /\ fwd' = fwd /\ stp' = stp
  BY Zenon DEF F!DialPort
<1> QED  BY <1>1, <1>2, <1>3, OneConnMoves, Zenon

\* One direction ends.
LEMMA CopyEndsStep ==
    ASSUME ForwardInv, NEW c \in Clients, NEW way \in {"out", "in"}, F!CopyEnds(c, way)
    PROVE  ForwardInv'
<1>1. /\ conn[c] \in ConnType /\ conn[c].fwd \in Fwds /\ fwd[conn[c].fwd].pc # "none"
      /\ conn[c].pc = "open"
  BY ConnHasForward, Zenon DEF F!CopyEnds
<1>2. CASE way = "out"
  <2> DEFINE q == [conn[c] EXCEPT !.out = FALSE]
  <2>1. q \in ConnType /\ q.pc = "open" /\ q.fwd = conn[c].fwd
    BY <1>1, Zenon DEF ConnType
  <2>2. conn' = [conn EXCEPT ![c] = q] /\ inst' = inst /\ fwd' = fwd /\ stp' = stp
    BY <1>1, <1>2, Zenon DEF F!CopyEnds, ConnType
  <2> QED  BY <1>1, <2>1, <2>2, OneConnMoves, Zenon
<1>3. CASE way = "in"
  <2> DEFINE q == [conn[c] EXCEPT !.in = FALSE]
  <2>1. q \in ConnType /\ q.pc = "open" /\ q.fwd = conn[c].fwd
    BY <1>1, Zenon DEF ConnType
  <2>2. conn' = [conn EXCEPT ![c] = q] /\ inst' = inst /\ fwd' = fwd /\ stp' = stp
    BY <1>1, <1>3, Zenon DEF F!CopyEnds, ConnType
  <2> QED  BY <1>1, <2>1, <2>2, OneConnMoves, Zenon
<1> QED  BY <1>2, <1>3, Zenon

\* Connections with a handler are a part of the clients.
LEMMA HandledFinite ==
    ASSUME NEW f PROVE IsFiniteSet(Handled(f)) /\ Cardinality(Handled(f)) \in 0..Cardinality(Clients)
<1>1. Handled(f) \in SUBSET Clients
  BY Zenon DEF Handled
<1> QED  BY <1>1, CardPart, ForwardsAssumption, Zenon

\* A handler starts or ends: active and the connections that have one change together.
LEMMA HandlerChanges ==
    ASSUME ForwardInv, NEW c \in Clients, conn[c].pc \in {"accepted", "dial", "open"},
           NEW q \in ConnType, conn' = [conn EXCEPT ![c] = q], inst' = inst, stp' = stp,
           q.pc \in {"dial", "open"} => q.fwd = conn[c].fwd, q.pc \notin {"queued", "accepted"},
           NEW r \in FwdType,
           fwd' = [fwd EXCEPT ![conn[c].fwd] = r],
           r.pc = fwd[conn[c].fwd].pc /\ r.open = fwd[conn[c].fwd].open,
           r.active = Cardinality({d \in Clients : conn'[d].fwd = conn[c].fwd /\ conn'[d].pc \in {"dial", "open"}})
    PROVE  ForwardInv'
<1>1. /\ conn' \in [Clients -> ConnType]
      /\ conn'[c] = q /\ \A d \in Clients : d # c => conn'[d] = conn[d]
  BY Zenon DEF ForwardInv, ForwardTypes
<1>2. conn[c] \in ConnType /\ conn[c].fwd \in Fwds /\ fwd[conn[c].fwd].pc # "none"
  BY ConnHasForward, Zenon
<1>3. /\ fwd' \in [Fwds -> FwdType]
      /\ fwd'[conn[c].fwd] = r /\ \A g \in Fwds : g # conn[c].fwd => fwd'[g] = fwd[g]
  BY <1>2, Zenon DEF ForwardInv, ForwardTypes
<1>4. ForwardTypes'
  BY <1>1, <1>2, <1>3, Zenon DEF ForwardInv, ForwardTypes
<1>5. ASSUME NEW g \in Fwds, g # conn[c].fwd PROVE Handled(g)' = Handled(g)
  BY <1>1, <1>5, Zenon DEF Handled
<1>6. Counted'
  <2>1. ASSUME NEW g \in Fwds, g # conn[c].fwd PROVE fwd'[g].active = Cardinality(Handled(g)')
    BY <1>3, <1>5, <2>1, Zenon DEF ForwardInv, Counted
  <2>2. ASSUME NEW g \in Fwds, g = conn[c].fwd PROVE fwd'[g].active = Cardinality(Handled(g)')
    BY <1>3, <2>2, Zenon DEF Handled
  <2> QED  BY <2>1, <2>2, Zenon DEF Counted
<1>7. NotStarted' /\ F!ListenerOwned'
  BY <1>1, <1>2, <1>3 DEF ForwardInv, NotStarted, F!ListenerOwned
<1> QED  BY <1>4, <1>6, <1>7, Zenon DEF ForwardInv

\* The handler of an accepted connection starts.
LEMMA CountStep == ASSUME ForwardInv, NEW c \in Clients, F!Count(c) PROVE ForwardInv'
<1> DEFINE f == conn[c].fwd
           q == [conn[c] EXCEPT !.pc = "dial"]
           r == [fwd[f] EXCEPT !.idle = FALSE, !.active = @ + 1]
           H2 == {d \in Clients : conn'[d].fwd = f /\ conn'[d].pc \in {"dial", "open"}}
<1>1. /\ conn[c] \in ConnType /\ f \in Fwds /\ fwd[f] \in FwdType
      /\ conn[c].pc = "accepted" /\ conn \in [Clients -> ConnType]
  BY ConnHasForward, Zenon DEF F!Count, ForwardInv, ForwardTypes
<1>2. q \in ConnType /\ q.pc = "dial" /\ q.fwd = f
  BY <1>1, Zenon DEF ConnType
<1>3. /\ conn' = [conn EXCEPT ![c] = q] /\ inst' = inst /\ stp' = stp
      /\ fwd' = [fwd EXCEPT ![f] = r]
  BY Zenon DEF F!Count
<1> HIDE DEF q
<1>4. c \notin Handled(f) /\ H2 = Handled(f) \cup {c}
  BY <1>1, <1>2, <1>3, Zenon DEF Handled
<1>5. Cardinality(H2) = fwd[f].active + 1
  BY <1>1, <1>4, HandledFinite, CardAdd DEF ForwardInv, Counted
<1>6. Cardinality(H2) \in 0..Cardinality(Clients)
  <2>1. H2 \in SUBSET Clients
    BY Zenon
  <2> QED  BY <2>1, CardPart, ForwardsAssumption, Zenon
<1> HIDE DEF H2
<1>7. r \in FwdType /\ r.pc = fwd[f].pc /\ r.open = fwd[f].open /\ r.active = Cardinality(H2)
  BY <1>1, <1>5, <1>6, Zenon DEF FwdType
<1> HIDE DEF r
<1> QED  BY <1>1, <1>2, <1>3, <1>7, HandlerChanges, Zenon DEF H2

\* A handler ends.
LEMMA FinishedStep ==
    ASSUME ForwardInv, NEW c \in Clients, conn[c].pc \in {"dial", "open"},
           fwd' = F!Finished(conn[c].fwd),
           conn' = [conn EXCEPT ![c] = [F!NoConn EXCEPT !.pc = "closed"]],
           inst' = inst, stp' = stp
    PROVE  ForwardInv'
<1> DEFINE f == conn[c].fwd
           q == [F!NoConn EXCEPT !.pc = "closed"]
           r == [fwd[f] EXCEPT !.active = @ - 1]
           H2 == {d \in Clients : conn'[d].fwd = f /\ conn'[d].pc \in {"dial", "open"}}
<1>1. /\ conn[c] \in ConnType /\ f \in Fwds /\ fwd[f] \in FwdType
      /\ conn \in [Clients -> ConnType]
  BY ConnHasForward, Zenon DEF ForwardInv, ForwardTypes
<1>2. q \in ConnType /\ q.pc = "closed"
  BY Zenon DEF ConnType, F!NoConn
<1>3. /\ conn' = [conn EXCEPT ![c] = q] /\ inst' = inst /\ stp' = stp
      /\ fwd' = [fwd EXCEPT ![f] = r]
  BY Zenon DEF F!Finished
<1> HIDE DEF q
<1>4. c \in Handled(f) /\ H2 = Handled(f) \ {c}
  BY <1>1, <1>2, <1>3, Zenon DEF Handled
<1>5. Cardinality(H2) = fwd[f].active - 1
  BY <1>1, <1>4, HandledFinite, CardRemove DEF ForwardInv, Counted
<1>6. Cardinality(H2) \in 0..Cardinality(Clients)
  <2>1. H2 \in SUBSET Clients
    BY Zenon
  <2> QED  BY <2>1, CardPart, ForwardsAssumption, Zenon
<1> HIDE DEF H2
<1>7. r \in FwdType /\ r.pc = fwd[f].pc /\ r.open = fwd[f].open /\ r.active = Cardinality(H2)
  BY <1>1, <1>5, <1>6, Zenon DEF FwdType
<1> HIDE DEF r
<1> QED  BY <1>1, <1>2, <1>3, <1>7, HandlerChanges, Zenon DEF H2

\* Every step of Forwards keeps the invariant.
LEMMA ForwardStep == ForwardInv /\ [F!Next]_forwardVars => ForwardInv'
<1> SUFFICES ASSUME ForwardInv, [F!Next]_forwardVars PROVE ForwardInv'
  OBVIOUS
<1>1. ASSUME NEW s \in F!Stoppers, F!Draining(s) PROVE ForwardInv'
  BY <1>1, DrainStep, DrainReturnsStep, Zenon DEF F!Draining
<1>2. ASSUME NEW c \in Clients, F!Handler(c) PROVE ForwardInv'
  <2>1. CASE F!DialFails(c)
    BY <2>1, FinishedStep, Zenon DEF F!DialFails
  <2>2. CASE F!HandlerReturns(c)
    BY <2>2, FinishedStep, Zenon DEF F!HandlerReturns
  <2> QED  BY <1>2, <2>1, <2>2, AcceptStep, CountStep, DialPortStep, Zenon DEF F!Handler
<1>3. CASE UNCHANGED forwardVars
  <2>1. Counted'
    BY <1>3, CountedKept, Zenon DEF ForwardInv, forwardVars
  <2> QED  BY <1>3, <2>1, Zenon DEF ForwardInv, ForwardTypes, NotStarted, F!ListenerOwned, forwardVars
<1>4. CASE F!Next
  BY <1>1, <1>2, <1>4, RegisterStep, TimePassesStep, ListenStep, StopForNetworkStep,
     StopAllForNetworkStep, NetworkStoppedStep, StopAllStep, ReapIdleStep, ConnectStep,
     CopyEndsStep, SMTT(20) DEF F!Next
<1> QED  BY <1>3, <1>4

\* No listening socket is lost, for any number of networks, forwards and connections: one
\* that is open is listed, about to be, or on the list of a stopper; and the counter the
\* reaper looks at is the number of handlers (Forwards).
THEOREM ForwardsSafe == F!Spec => [](F!TypeOK /\ ListenerOwned)
<1>1. F!Init => ForwardInv
  BY ForwardInit
<1>2. ForwardInv /\ [F!Next]_(F!vars) => ForwardInv'
  BY ForwardStep, Zenon DEF forwardVars, F!vars
<1>3. ForwardInv => F!TypeOK /\ ListenerOwned
  BY ForwardTypeOK, Zenon DEF ForwardInv, ListenerOwned
<1> QED  BY <1>1, <1>2, <1>3, PTL DEF F!Spec

-----------------------------------------------------------------------------
(* EventHub.                                                               *)

CONSTANTS
  Conns, Publishers, ChanCap

\* Finitely many connections; 0 stands for none.
ASSUME EventHubAssumption ==
  IsFiniteSet(Conns) /\ 0 \notin Conns /\ ChanCap \in Nat

VARIABLES
  maps, cur, ws, ch, pub, missed, got, crashed

H == INSTANCE EventHub

hubVars == <<maps, cur, ws, ch, pub, missed, got, crashed>>

\* When Publish returns, every subscriber that was there all along has the event in
\* its channel, or its channel was full: a slow subscriber, or one that comes or goes
\* meanwhile, takes nothing from the others (Publish's default branch).
Delivered == H!Delivered

PubType == [pc : {"idle", "walk", "done", "panic"}, map : H!Maps \cup {0},
            here : SUBSET Conns, seen : SUBSET Conns, at : Conns \cup {0}]

\* The channels whose Connect has subscribed and not returned; those that ever did; the
\* maps that somebody still holds.
Active == {c \in Conns : ws[c] \in {"open", "left", "returning"}}
Subscribed == {c \in Conns : ws[c] # "none"}
UsedMaps == {g \in H!Maps : g = cur \/ \E p \in Publishers : pub[p].map = g}

HubTypes ==
  /\ maps \in [H!Maps -> SUBSET Conns] /\ cur \in H!Maps \cup {0}
  /\ ws \in [Conns -> {"none", "open", "left", "returning", "closed"}]
  /\ ch \in [Conns -> Seq(Publishers)] /\ \A c \in Conns : Len(ch[c]) <= ChanCap
  /\ pub \in [Publishers -> PubType]
  /\ missed \in [Conns -> SUBSET Publishers] /\ got \in [Conns -> SUBSET Publishers]
  /\ crashed \in BOOLEAN

\* The hub's map holds the active channels, and the hub has none without one.
MapContents ==
  /\ \A g \in H!Maps : maps[g] = IF g = cur THEN Active ELSE {}
  /\ cur = 0 => Active = {}

\* A walk meets every channel that stays; what it has left behind was served.
WalkKnows(p, q) ==
  q.pc = "walk" =>
    /\ q.map \in H!Maps
    /\ q.at # 0 => q.at \in q.seen
    /\ \A c \in q.here : ws[c] # "closed" => c \in maps[q.map]
    /\ \A c \in q.seen : c # q.at => p \in got[c] \cup missed[c]

\* The inductive invariant; every map in use was made by another subscription.
HubInv ==
  /\ HubTypes /\ MapContents
  /\ \A p \in Publishers : WalkKnows(p, pub[p])
  /\ Cardinality(UsedMaps) <= Cardinality(Subscribed)

\* The module's own instance of Cardinality, and the number of maps.
LEMMA HubMaps ==
    /\ H!Maps = 1..Cardinality(Conns) /\ Cardinality(Conns) \in Nat /\ 0 \notin H!Maps
    /\ IsFiniteSet(H!Maps) /\ Cardinality(H!Maps) = Cardinality(Conns)
<1>1. \A S : H!Cardinality(S) = Cardinality(S)
  BY DEF H!Cardinality, Cardinality
<1>2. H!Maps = 1..Cardinality(Conns)
  BY <1>1, Zenon DEF H!Maps
<1>3. Cardinality(Conns) \in Nat
  BY FS_CardinalityType, EventHubAssumption, Zenon
<1>4. IsFiniteSet(1..Cardinality(Conns)) /\ Cardinality(1..Cardinality(Conns)) = Cardinality(Conns)
  BY <1>3, FS_Interval
<1> QED  BY <1>2, <1>3, <1>4

\* Sets of maps and of connections are finite.
LEMMA HubSets ==
    /\ IsFiniteSet(UsedMaps) /\ Cardinality(UsedMaps) \in Nat
    /\ IsFiniteSet(Subscribed) /\ Cardinality(Subscribed) \in 0..Cardinality(Conns)
<1>1. UsedMaps \in SUBSET H!Maps /\ Subscribed \in SUBSET Conns
  BY Zenon DEF UsedMaps, Subscribed
<1> QED  BY <1>1, HubMaps, CardPart, EventHubAssumption, FS_CardinalityType, ZenonT(40)

\* The invariant contains the type invariant of the module.
LEMMA HubTypeOK == HubInv => H!TypeOK
  BY Zenon DEF HubInv, HubTypes, MapContents, Active, H!TypeOK, PubType

\* What a publisher is before.
LEMMA NoPubType == H!NoPub \in PubType /\ H!NoPub.pc = "idle" /\ H!NoPub.map = 0
  BY Zenon DEF H!NoPub, PubType

\* Nobody is there.
LEMMA HubInit == H!Init => HubInv
<1> SUFFICES ASSUME H!Init PROVE HubInv
  OBVIOUS
<1>1. HubTypes
  <2>1. ch \in [Conns -> Seq(Publishers)] /\ \A c \in Conns : Len(ch[c]) <= ChanCap
    <3>1. <<>> \in Seq(Publishers) /\ Len(<<>>) = 0 /\ 0 <= ChanCap
      BY EventHubAssumption
    <3> QED  BY <3>1, Zenon DEF H!Init
  <2>2. maps \in [H!Maps -> SUBSET Conns] /\ cur \in H!Maps \cup {0}
    BY Zenon DEF H!Init
  <2>3. ws \in [Conns -> {"none", "open", "left", "returning", "closed"}] /\ crashed \in BOOLEAN
    BY Zenon DEF H!Init
  <2>4. pub \in [Publishers -> PubType]
    BY NoPubType, Zenon DEF H!Init
  <2>5. missed \in [Conns -> SUBSET Publishers] /\ got \in [Conns -> SUBSET Publishers]
    BY Zenon DEF H!Init
  <2> QED  BY <2>1, <2>2, <2>3, <2>4, <2>5, ZenonT(40) DEF HubTypes
<1>2. Active = {} /\ Subscribed = {}
  BY Zenon DEF Active, Subscribed, H!Init
<1>3. UsedMaps = {}
  BY NoPubType, HubMaps, Zenon DEF UsedMaps, H!Init
<1>4. MapContents
  BY <1>2, HubMaps, Zenon DEF MapContents, H!Init
<1>5. \A p \in Publishers : WalkKnows(p, pub[p])
  BY NoPubType, Zenon DEF WalkKnows, H!Init
<1>6. Cardinality(UsedMaps) <= Cardinality(Subscribed)
  BY <1>2, <1>3, FS_EmptySet
<1> QED  BY <1>1, <1>4, <1>5, <1>6, Zenon DEF HubInv

\* Fewer maps in use, at least as many subscriptions.
LEMMA FewerMaps ==
    ASSUME HubInv, UsedMaps' \in SUBSET UsedMaps, Subscribed' = Subscribed
    PROVE  Cardinality(UsedMaps') <= Cardinality(Subscribed')
<1>1. Cardinality(UsedMaps') \in 0..Cardinality(UsedMaps)
  BY HubSets, CardPart, Zenon
<1> QED  BY <1>1, HubSets DEF HubInv

\* One publisher goes on; events only come to channels.
LEMMA PubChanges ==
    ASSUME HubInv, NEW p \in Publishers, NEW q \in PubType, pub' = [pub EXCEPT ![p] = q],
           UNCHANGED <<maps, cur, ws, crashed>>, q.map \in {0, cur, pub[p].map},
           ch' \in [Conns -> Seq(Publishers)], \A c \in Conns : Len(ch'[c]) <= ChanCap,
           missed' \in [Conns -> SUBSET Publishers], got' \in [Conns -> SUBSET Publishers],
           \A c \in Conns : missed[c] \subseteq missed'[c] /\ got[c] \subseteq got'[c],
           WalkKnows(p, q)'
    PROVE  HubInv'
<1>1. pub \in [Publishers -> PubType]
  BY Zenon DEF HubInv, HubTypes
<1>2. HubTypes'
  BY Zenon DEF HubInv, HubTypes
<1>3. Active' = Active /\ Subscribed' = Subscribed
  BY Zenon DEF Active, Subscribed
<1>4. MapContents'
  BY <1>3, Zenon DEF HubInv, MapContents
<1>5. UsedMaps' \in SUBSET UsedMaps
  BY <1>1, HubMaps, Zenon DEF UsedMaps
<1>6. ASSUME NEW r \in Publishers PROVE WalkKnows(r, pub[r])'
  <2>1. CASE r = p
    <3>1. pub'[r] = q
      BY <1>1, <2>1, Zenon
    <3> QED  BY <2>1, <3>1, Zenon DEF WalkKnows
  <2>2. CASE r # p
    <3>1. pub'[r] = pub[r] /\ pub[r].seen \subseteq Conns
      BY <1>1, <2>2, Zenon DEF PubType
    <3>2. WalkKnows(r, pub[r])
      BY Zenon DEF HubInv
    <3> QED  BY <3>1, <3>2, Zenon DEF WalkKnows
  <2> QED  BY <2>1, <2>2, Zenon
<1> QED  BY <1>2, <1>3, <1>4, <1>5, <1>6, FewerMaps, ZenonT(40) DEF HubInv

\* Publish takes the map.
LEMMA PublishReadStep == ASSUME HubInv, NEW p \in Publishers, H!PublishRead(p) PROVE HubInv'
<1> DEFINE a == [H!NoPub EXCEPT !.pc = "done"]
<1>1. UNCHANGED <<maps, cur, ws, ch, missed, got, crashed>>
  BY Zenon DEF H!PublishRead
<1>2. CASE cur = 0
  <2>1. a \in PubType /\ a.pc = "done" /\ a.map = 0
    BY NoPubType, Zenon DEF PubType
  <2>2. pub' = [pub EXCEPT ![p] = a]
    BY <1>2, Zenon DEF H!PublishRead
  <2> HIDE DEF a
  <2>3. WalkKnows(p, a)'
    BY <2>1, Zenon DEF WalkKnows
  <2> QED  BY <1>1, <2>1, <2>2, <2>3, PubChanges, ZenonT(40) DEF HubInv, HubTypes
<1>3. CASE cur # 0
  <2>1. cur \in H!Maps /\ maps[cur] \in SUBSET Conns
    BY <1>3, Zenon DEF HubInv, HubTypes
  <2> DEFINE q == [H!NoPub EXCEPT !.pc = "walk", !.map = cur, !.here = maps[cur]]
  <2>2. PICK b \in PubType :
          /\ b = q
          /\ b.pc = "walk" /\ b.map = cur /\ b.here = maps[cur] /\ b.seen = {} /\ b.at = 0
    <3>1. H!NoPub.seen = {} /\ H!NoPub.at = 0
      BY Zenon DEF H!NoPub
    <3>2. q \in PubType /\ q.pc = "walk" /\ q.map = cur /\ q.here = maps[cur] /\ q.seen = {} /\ q.at = 0
      BY <2>1, <3>1, NoPubType, Zenon DEF PubType
    <3> HIDE DEF q
    <3> QED  BY <3>2, Zenon
  <2>3. pub' = [pub EXCEPT ![p] = b]
    BY <1>3, <2>2, Zenon DEF H!PublishRead
  <2>4. WalkKnows(p, b)'
    BY <1>1, <2>1, <2>2, Zenon DEF WalkKnows
  <2> QED  BY <1>1, <2>2, <2>3, <2>4, PubChanges, ZenonT(40) DEF HubInv, HubTypes
<1> QED  BY <1>2, <1>3, Zenon

\* The walk yields a channel.
LEMMA PublishNextStep == ASSUME HubInv, NEW p \in Publishers, H!PublishNext(p) PROVE HubInv'
<1>1. PICK c \in maps[pub[p].map] \ pub[p].seen : pub' = [pub EXCEPT ![p].at = c, ![p].seen = @ \cup {c}]
  BY Zenon DEF H!PublishNext
<1>2. /\ UNCHANGED <<maps, cur, ws, ch, missed, got, crashed>> /\ WalkKnows(p, pub[p])
      /\ pub \in [Publishers -> PubType] /\ pub[p] \in PubType /\ pub[p].pc = "walk" /\ pub[p].at = 0
  BY Zenon DEF H!PublishNext, HubInv, HubTypes
<1>3. c \in Conns /\ pub[p].seen \subseteq Conns /\ 0 \notin pub[p].seen
  BY <1>2, EventHubAssumption, Zenon DEF WalkKnows, HubInv, HubTypes, PubType
<1> DEFINE r == [pub[p] EXCEPT !.at = c, !.seen = pub[p].seen \cup {c}]
<1>4. PICK q \in PubType :
        /\ q = r
        /\ q.pc = "walk" /\ q.map = pub[p].map /\ q.here = pub[p].here /\ q.at = c
        /\ q.seen = pub[p].seen \cup {c}
  <2>1. /\ r \in PubType /\ r.pc = "walk" /\ r.map = pub[p].map /\ r.here = pub[p].here /\ r.at = c
        /\ r.seen = pub[p].seen \cup {c}
    BY <1>2, <1>3, Zenon DEF PubType
  <2> HIDE DEF r
  <2> QED  BY <2>1, Zenon
<1>5. pub' = [pub EXCEPT ![p] = q]
  BY <1>1, <1>2, <1>4, ZenonT(40)
<1>6. WalkKnows(p, q)'
  BY <1>2, <1>3, <1>4, ZenonT(40) DEF WalkKnows
<1> QED  BY <1>2, <1>4, <1>5, <1>6, PubChanges, ZenonT(40) DEF HubInv, HubTypes

\* The send.
LEMMA PublishSendStep == ASSUME HubInv, NEW p \in Publishers, H!PublishSend(p) PROVE HubInv'
<1>1. /\ pub \in [Publishers -> PubType] /\ pub[p] \in PubType /\ pub[p].pc = "walk"
      /\ UNCHANGED <<maps, cur, ws, crashed>> /\ WalkKnows(p, pub[p])
      /\ missed \in [Conns -> SUBSET Publishers] /\ got \in [Conns -> SUBSET Publishers]
      /\ ch \in [Conns -> Seq(Publishers)] /\ \A d \in Conns : Len(ch[d]) <= ChanCap
  BY Zenon DEF H!PublishSend, HubInv, HubTypes
<1>2. PICK c \in Conns : c = pub[p].at
  BY <1>1, Zenon DEF H!PublishSend, PubType
<1>3. CASE ws[c] = "closed"
  <2> DEFINE q == [H!NoPub EXCEPT !.pc = "panic"]
  <2>1. q \in PubType /\ q.pc = "panic" /\ q.map = 0
    BY NoPubType, Zenon DEF PubType
  <2>2. pub' = [pub EXCEPT ![p] = q] /\ UNCHANGED <<ch, missed, got>>
    BY <1>2, <1>3, Zenon DEF H!PublishSend
  <2> HIDE DEF q
  <2>3. WalkKnows(p, q)'
    BY <2>1, Zenon DEF WalkKnows
  <2> QED  BY <1>1, <2>1, <2>2, <2>3, PubChanges, ZenonT(40)
<1>4. CASE ws[c] # "closed"
  <2> DEFINE r == [pub[p] EXCEPT !.at = 0]
  <2>1. PICK q \in PubType :
          /\ q = r
          /\ q.pc = "walk" /\ q.map = pub[p].map /\ q.here = pub[p].here /\ q.at = 0
          /\ q.seen = pub[p].seen /\ q.seen \subseteq Conns
    <3>1. /\ r \in PubType /\ r.pc = "walk" /\ r.map = pub[p].map /\ r.here = pub[p].here /\ r.at = 0
          /\ r.seen = pub[p].seen /\ r.seen \subseteq Conns
      BY <1>1, Zenon DEF PubType
    <3> HIDE DEF r
    <3> QED  BY <3>1, Zenon
  <2>2. /\ pub' = [pub EXCEPT ![p] = q]
        /\ ch' = IF Len(ch[c]) = ChanCap THEN ch ELSE [ch EXCEPT ![c] = Append(ch[c], p)]
        /\ got' = IF Len(ch[c]) = ChanCap THEN got ELSE [got EXCEPT ![c] = got[c] \cup {p}]
        /\ missed' = IF Len(ch[c]) = ChanCap THEN [missed EXCEPT ![c] = missed[c] \cup {p}] ELSE missed
    BY <1>2, <1>4, <2>1, ZenonT(40) DEF H!PublishSend
  <2>3. got' \in [Conns -> SUBSET Publishers] /\ missed' \in [Conns -> SUBSET Publishers]
    BY <1>1, <2>2, ZenonT(40)
  <2>4. \A d \in Conns : missed[d] \subseteq missed'[d] /\ got[d] \subseteq got'[d]
    BY <1>1, <2>2, ZenonT(40)
  <2>5. p \in got'[c] \cup missed'[c]
    BY <1>1, <2>2, Zenon
  <2>6. ch' \in [Conns -> Seq(Publishers)] /\ \A d \in Conns : Len(ch'[d]) <= ChanCap
    <3>1. CASE Len(ch[c]) = ChanCap
      BY <1>1, <2>2, <3>1, ZenonT(40)
    <3>2. CASE Len(ch[c]) # ChanCap
      <4>1. Append(ch[c], p) \in Seq(Publishers) /\ Len(Append(ch[c], p)) = Len(ch[c]) + 1 /\ Len(ch[c]) \in Nat
        BY <1>1
      <4>2. Len(Append(ch[c], p)) <= ChanCap
        BY <1>1, <3>2, <4>1, EventHubAssumption, SMTT(20)
      <4> QED  BY <1>1, <2>2, <3>2, <4>1, <4>2, ZenonT(40)
    <3> QED  BY <3>1, <3>2, ZenonT(40)
  <2>7. WalkKnows(p, q)'
    BY <1>1, <1>2, <2>1, <2>4, <2>5, ZenonT(40) DEF WalkKnows
  <2> QED  BY <1>1, <2>1, <2>2, <2>3, <2>4, <2>6, <2>7, PubChanges, ZenonT(40)
<1> QED  BY <1>3, <1>4, Zenon

\* The walk ends.
LEMMA PublishEndsStep == ASSUME HubInv, NEW p \in Publishers, H!PublishEnds(p) PROVE HubInv'
<1> DEFINE q == [H!NoPub EXCEPT !.pc = "done"]
<1>1. q \in PubType /\ q.pc = "done" /\ q.map = 0
  BY NoPubType DEF PubType
<1>2. pub' = [pub EXCEPT ![p] = q] /\ UNCHANGED <<maps, cur, ws, ch, missed, got, crashed>>
  BY Zenon DEF H!PublishEnds
<1> HIDE DEF q
<1>3. WalkKnows(p, q)'
  BY <1>1 DEF WalkKnows
<1> QED  BY <1>1, <1>2, <1>3, PubChanges, ZenonT(40) DEF HubInv, HubTypes

\* The state of one connection changes between open, left and returning.
LEMMA WsChanges ==
    ASSUME HubInv, NEW c \in Conns, NEW v \in {"open", "left", "returning"},
           ws[c] \in {"open", "left", "returning"}, ws' = [ws EXCEPT ![c] = v],
           UNCHANGED <<maps, cur, pub, missed, got, crashed>>,
           ch' \in [Conns -> Seq(Publishers)], \A d \in Conns : Len(ch'[d]) <= ChanCap
    PROVE  HubInv'
<1>1. ws \in [Conns -> {"none", "open", "left", "returning", "closed"}]
  BY Zenon DEF HubInv, HubTypes
<1>2. HubTypes'
  BY <1>1, Zenon DEF HubInv, HubTypes
<1>3. Active' = Active /\ Subscribed' = Subscribed /\ UsedMaps' = UsedMaps
  BY <1>1, Zenon DEF Active, Subscribed, UsedMaps
<1>4. MapContents'
  BY <1>3, Zenon DEF HubInv, MapContents
<1>5. ASSUME NEW r \in Publishers PROVE WalkKnows(r, pub[r])'
  <2>1. WalkKnows(r, pub[r]) /\ pub[r].here \subseteq Conns
    BY Zenon DEF HubInv, HubTypes, PubType
  <2>2. \A d \in Conns : ws'[d] # "closed" => ws[d] # "closed"
    BY <1>1, Zenon
  <2> QED  BY <2>1, <2>2, Zenon DEF WalkKnows
<1> QED  BY <1>2, <1>3, <1>4, <1>5, ZenonT(40) DEF HubInv

\* The dashboard goes away.
LEMMA ClientLeavesStep == ASSUME HubInv, NEW c \in Conns, H!ClientLeaves(c) PROVE HubInv'
  BY WsChanges, Zenon DEF H!ClientLeaves, HubInv, HubTypes

\* A write.
LEMMA WritePumpStep == ASSUME HubInv, NEW c \in Conns, H!WritePump(c) PROVE HubInv'
<1>1. ch \in [Conns -> Seq(Publishers)] /\ (\A d \in Conns : Len(ch[d]) <= ChanCap) /\ ch[c] # <<>>
  BY Zenon DEF H!WritePump, HubInv, HubTypes
<1>2. Tail(ch[c]) \in Seq(Publishers) /\ Len(Tail(ch[c])) = Len(ch[c]) - 1 /\ Len(ch[c]) \in Nat
  BY <1>1
<1>3. ch' = [ch EXCEPT ![c] = Tail(ch[c])]
  BY Zenon DEF H!WritePump
<1>4. ch' \in [Conns -> Seq(Publishers)] /\ \A d \in Conns : Len(ch'[d]) <= ChanCap
  <2>1. Len(Tail(ch[c])) <= ChanCap
    BY <1>1, <1>2, EventHubAssumption
  <2> QED  BY <1>1, <1>2, <1>3, <2>1, ZenonT(40)
<1>5. PICK v \in {"open", "left", "returning"} : v = H!AfterWrite(c)
  BY Zenon DEF H!AfterWrite, H!WritePump
<1>6. /\ ws' = [ws EXCEPT ![c] = v] /\ UNCHANGED <<maps, cur, pub, missed, got, crashed>>
      /\ ws[c] \in {"open", "left", "returning"}
  BY <1>5, Zenon DEF H!WritePump
<1> QED  BY <1>4, <1>6, WsChanges, ZenonT(40)

\* A map is never handed out while somebody holds it: there is one left for a new
\* subscription.
LEMMA FreshExists ==
    ASSUME HubInv, NEW c \in Conns, ws[c] = "none", cur = 0
    PROVE  H!Fresh \in H!Maps /\ H!Fresh \notin UsedMaps
<1>1. Subscribed \in SUBSET (Conns \ {c})
  BY Zenon DEF Subscribed
<1>2. IsFiniteSet(Conns \ {c}) /\ Cardinality(Conns \ {c}) = Cardinality(Conns) - 1
  BY CardRemove, EventHubAssumption, Zenon
<1>3. Cardinality(Subscribed) <= Cardinality(Conns) - 1
  <2>1. Cardinality(Subscribed) \in 0..Cardinality(Conns \ {c})
    BY <1>1, <1>2, CardPart, ZenonT(40)
  <2> QED  BY <1>2, <2>1, HubMaps
<1>4. UsedMaps # H!Maps
  BY <1>3, HubMaps, HubSets DEF HubInv
<1>5. PICK g \in H!Maps : g \notin UsedMaps
  BY <1>4, Zenon DEF UsedMaps
<1>6. g # cur /\ maps[g] = {} /\ \A p \in Publishers : pub[p].map # g
  BY <1>5, Zenon DEF UsedMaps, HubInv, MapContents
<1>7. H!Fresh \in H!Maps /\ H!Fresh # cur /\ \A p \in Publishers : pub[p].map # H!Fresh
  BY <1>6, Zenon DEF H!Fresh
<1> QED  BY <1>7, Zenon DEF UsedMaps

\* A channel joins the map.
LEMMA HubSubscribeStep == ASSUME HubInv, NEW c \in Conns, H!Subscribe(c) PROVE HubInv'
<1>1. PICK g \in H!Maps : g = (IF cur = 0 THEN H!Fresh ELSE cur) /\ (cur = 0 => g \notin UsedMaps)
  BY FreshExists, Zenon DEF H!Subscribe, HubInv, HubTypes
<1>2. /\ ws[c] = "none" /\ crashed' \in BOOLEAN /\ cur' = g /\ maps' = [maps EXCEPT ![g] = maps[g] \cup {c}]
      /\ ws' = [ws EXCEPT ![c] = "open"] /\ UNCHANGED <<ch, pub, missed, got>>
  BY <1>1, Zenon DEF H!Subscribe, H!MapWrite
<1>3. /\ maps \in [H!Maps -> SUBSET Conns] /\ cur \in H!Maps \cup {0}
      /\ ws \in [Conns -> {"none", "open", "left", "returning", "closed"}] /\ pub \in [Publishers -> PubType]
  BY Zenon DEF HubInv, HubTypes
<1>4. HubTypes'
  BY <1>2, <1>3, Zenon DEF HubInv, HubTypes
<1>5. Active' = Active \cup {c} /\ Subscribed' = Subscribed \cup {c} /\ c \notin Subscribed
  BY <1>2, <1>3, Zenon DEF Active, Subscribed
<1>6. MapContents'
  <2>1. g = cur \/ (cur = 0 /\ Active = {} /\ maps[g] = {})
    BY <1>1, HubMaps, Zenon DEF HubInv, MapContents
  <2>2. \A d \in H!Maps : maps[d] = IF d = cur THEN Active ELSE {}
    BY Zenon DEF HubInv, MapContents
  <2>3. \A d \in H!Maps : maps'[d] = IF d = g THEN Active' ELSE {}
    BY <1>2, <1>3, <1>5, <2>1, <2>2, HubMaps, ZenonT(40)
  <2> QED  BY <1>2, <2>3, HubMaps, ZenonT(40) DEF MapContents
<1>7. ASSUME NEW r \in Publishers PROVE WalkKnows(r, pub[r])'
  <2>1. WalkKnows(r, pub[r]) /\ pub[r].here \subseteq Conns
    BY <1>3, Zenon DEF HubInv, PubType
  <2>2. \A d \in Conns : ws'[d] # "closed" => ws[d] # "closed"
    BY <1>2, <1>3, Zenon
  <2>3. \A d \in H!Maps : maps[d] \subseteq maps'[d]
    BY <1>2, <1>3, ZenonT(40)
  <2> QED  BY <1>2, <2>1, <2>2, <2>3, ZenonT(40) DEF WalkKnows
<1>8. Cardinality(UsedMaps') <= Cardinality(Subscribed')
  <2>1. UsedMaps' \in SUBSET (UsedMaps \cup {g})
    BY <1>2, Zenon DEF UsedMaps
  <2>2. Cardinality(Subscribed') = Cardinality(Subscribed) + 1
    BY <1>5, HubSets, CardAdd, ZenonT(40)
  <2>3. IsFiniteSet(UsedMaps \cup {g}) /\ Cardinality(UsedMaps \cup {g}) <= Cardinality(UsedMaps) + 1
    <3>1. CASE g \in UsedMaps
      <4>1. UsedMaps \cup {g} = UsedMaps
        BY <3>1, Zenon
      <4>2. Cardinality(UsedMaps \cup {g}) = Cardinality(UsedMaps) /\ IsFiniteSet(UsedMaps \cup {g})
        BY <4>1, HubSets, Zenon
      <4>3. \A n \in Nat : n <= n + 1
        OBVIOUS
      <4> QED  BY <4>2, <4>3, HubSets, ZenonT(40)
    <3>2. CASE g \notin UsedMaps
      BY <3>2, HubSets, CardAdd
    <3> QED  BY <3>1, <3>2, Zenon
  <2>4. Cardinality(UsedMaps') \in 0..Cardinality(UsedMaps \cup {g})
    BY <2>1, <2>3, CardPart, ZenonT(40)
  <2>5. Cardinality(UsedMaps \cup {g}) \in Nat /\ Cardinality(UsedMaps) \in Nat /\ Cardinality(Subscribed) \in Nat
    BY <2>3, HubSets, FS_CardinalityType, ZenonT(40)
  <2> QED  BY <2>2, <2>3, <2>4, <2>5 DEF HubInv
<1> QED  BY <1>4, <1>6, <1>7, <1>8, ZenonT(40) DEF HubInv

\* A channel leaves the map; an empty map leaves the hub.
LEMMA HubUnsubscribeStep == ASSUME HubInv, NEW c \in Conns, H!Unsubscribe(c) PROVE HubInv'
<1>1. /\ maps \in [H!Maps -> SUBSET Conns] /\ cur \in H!Maps \cup {0}
      /\ ws \in [Conns -> {"none", "open", "left", "returning", "closed"}] /\ pub \in [Publishers -> PubType]
      /\ ch \in [Conns -> Seq(Publishers)] /\ \A d \in Conns : Len(ch[d]) <= ChanCap
  BY Zenon DEF HubInv, HubTypes
<1>2. c \in Active /\ ws[c] = "returning"
  BY Zenon DEF H!Unsubscribe, Active
<1>3. PICK g \in H!Maps : g = cur /\ maps[g] = Active
  BY <1>1, <1>2, Zenon DEF HubInv, MapContents
<1>4. /\ crashed' \in BOOLEAN /\ maps' = [maps EXCEPT ![g] = Active \ {c}]
      /\ cur' = (IF Active \ {c} = {} THEN 0 ELSE g)
      /\ ws' = [ws EXCEPT ![c] = "closed"] /\ ch' = [ch EXCEPT ![c] = <<>>] /\ UNCHANGED <<pub, missed, got>>
  BY <1>3, Zenon DEF H!Unsubscribe, H!MapWrite, H!Without
<1>5. HubTypes'
  <2>1. ch' \in [Conns -> Seq(Publishers)] /\ \A d \in Conns : Len(ch'[d]) <= ChanCap
    <3>1. <<>> \in Seq(Publishers) /\ Len(<<>>) = 0 /\ 0 <= ChanCap
      BY EventHubAssumption
    <3> QED  BY <1>1, <1>4, <3>1, ZenonT(40)
  <2>2. maps' \in [H!Maps -> SUBSET Conns]
    BY <1>1, <1>3, <1>4, ZenonT(40)
  <2> QED  BY <1>1, <1>4, <2>1, <2>2, ZenonT(40) DEF HubInv, HubTypes
<1>6. Active' = Active \ {c} /\ Subscribed' = Subscribed
  BY <1>1, <1>2, <1>4, ZenonT(40) DEF Active, Subscribed
<1>7. MapContents'
  <2>1. \A d \in H!Maps : maps'[d] = IF d = g THEN Active' ELSE {}
    BY <1>1, <1>3, <1>4, <1>6, ZenonT(40) DEF HubInv, MapContents
  <2> QED  BY <1>4, <1>6, <2>1, HubMaps, ZenonT(40) DEF MapContents
<1>8. ASSUME NEW r \in Publishers PROVE WalkKnows(r, pub[r])'
  <2>1. WalkKnows(r, pub[r]) /\ pub[r].here \subseteq Conns
    BY <1>1, Zenon DEF HubInv, PubType
  <2>2. \A d \in Conns : ws'[d] # "closed" => ws[d] # "closed" /\ d # c
    BY <1>1, <1>4, ZenonT(40)
  <2>3. \A d \in H!Maps : maps[d] \ {c} \subseteq maps'[d]
    BY <1>1, <1>3, <1>4, ZenonT(40)
  <2> QED  BY <1>4, <2>1, <2>2, <2>3, ZenonT(40) DEF WalkKnows
<1>9. UsedMaps' \in SUBSET UsedMaps
  BY <1>3, <1>4, HubMaps, ZenonT(40) DEF UsedMaps
<1> QED  BY <1>5, <1>6, <1>7, <1>8, <1>9, FewerMaps, ZenonT(40) DEF HubInv

\* Every step of the module, and none.
LEMMA HubStep == HubInv /\ [H!Next]_hubVars => HubInv'
<1> SUFFICES ASSUME HubInv, [H!Next]_hubVars PROVE HubInv'
  OBVIOUS
<1>1. CASE UNCHANGED hubVars
  <2>1. UNCHANGED <<maps, cur, ws, ch, pub, missed, got, crashed>>
    BY <1>1 DEF hubVars
  <2> QED  BY <2>1, Zenon DEF HubInv, HubTypes, MapContents, Active, Subscribed, UsedMaps, WalkKnows
<1>2. CASE H!Next
  BY <1>2, PublishReadStep, PublishNextStep, PublishSendStep, PublishEndsStep, ClientLeavesStep,
     WritePumpStep, HubSubscribeStep, HubUnsubscribeStep, ZenonT(40) DEF H!Next, H!Publish
<1> QED  BY <1>1, <1>2

\* The hub's invariant is one of the server's, for any connections and publishers.
LEMMA HubAlways == H!Spec => []HubInv
<1>1. H!Init => HubInv
  BY HubInit
<1>2. HubInv /\ [H!Next]_(H!vars) => HubInv'
  BY HubStep DEF hubVars, H!vars
<1> QED  BY <1>1, <1>2, PTL DEF H!Spec

\* Only the end of a walk takes a publisher from its walk to its return.
LEMMA OnlyEndsReturn ==
    ASSUME HubInv, H!Next, NEW p \in Publishers, pub[p].pc = "walk", pub'[p].pc = "done"
    PROVE  H!PublishEnds(p)
<1>1. pub \in [Publishers -> PubType]
  BY Zenon DEF HubInv, HubTypes
<1>2. UNCHANGED pub \/ \E r \in Publishers : H!Publish(r)
  BY Zenon DEF H!Next, H!Subscribe, H!ClientLeaves, H!WritePump, H!Unsubscribe
<1>3. PICK r \in Publishers : H!Publish(r)
  BY <1>2, Zenon
<1>4. r = p
  <2>1. SUFFICES ASSUME r # p PROVE pub'[p] = pub[p]
    BY Zenon
  <2>2. CASE H!PublishRead(r)
    BY <1>1, <2>1, <2>2, ZenonT(40) DEF H!PublishRead
  <2>3. CASE H!PublishNext(r)
    BY <1>1, <2>1, <2>3, ZenonT(40) DEF H!PublishNext
  <2>4. CASE H!PublishSend(r)
    BY <1>1, <2>1, <2>4, ZenonT(40) DEF H!PublishSend
  <2>5. CASE H!PublishEnds(r)
    BY <1>1, <2>1, <2>5, ZenonT(40) DEF H!PublishEnds
  <2> QED  BY <1>3, <2>2, <2>3, <2>4, <2>5, ZenonT(40) DEF H!Publish
<1>5. ~H!PublishRead(p)
  BY Zenon DEF H!PublishRead
<1>6. ~H!PublishNext(p)
  <2>1. SUFFICES ASSUME H!PublishNext(p) PROVE pub'[p].pc = pub[p].pc
    BY Zenon
  <2>2. PICK c : pub' = [pub EXCEPT ![p].at = c, ![p].seen = @ \cup {c}]
    BY <2>1, Zenon DEF H!PublishNext
  <2> QED  BY <1>1, <2>2, Zenon DEF PubType
<1>7. ~H!PublishSend(p)
  <2>1. SUFFICES ASSUME H!PublishSend(p) PROVE pub'[p].pc \in {"walk", "panic"}
    BY Zenon
  <2>2. pub' = [pub EXCEPT ![p] = [H!NoPub EXCEPT !.pc = "panic"]] \/ pub' = [pub EXCEPT ![p] = [pub[p] EXCEPT !.at = 0]]
    BY <2>1, Zenon DEF H!PublishSend
  <2> QED  BY <1>1, <2>2, NoPubType DEF PubType
<1> QED  BY <1>3, <1>4, <1>5, <1>6, <1>7, ZenonT(40) DEF H!Publish

\* Where a walk ends, every subscriber that stayed was served.
LEMMA ServedAtTheEnd ==
    ASSUME HubInv, NEW p \in Publishers, H!PublishEnds(p), NEW c \in pub[p].here, ws[c] # "closed"
    PROVE  p \in got[c] \cup missed[c]
<1>1. WalkKnows(p, pub[p]) /\ pub[p].pc = "walk" /\ pub[p].at = 0 /\ pub[p].here \subseteq Conns
  BY Zenon DEF HubInv, HubTypes, PubType, H!PublishEnds
<1>2. c \in maps[pub[p].map]
  BY <1>1, Zenon DEF WalkKnows
<1>3. c \in pub[p].seen
  BY <1>2, Zenon DEF H!PublishEnds, H!WalkDone
<1>4. c # 0
  BY <1>1, EventHubAssumption, Zenon
<1> QED  BY <1>1, <1>3, <1>4, ZenonT(40) DEF WalkKnows

\* The types of the hub, for any connections, publishers and capacity: its map holds
\* exactly the channels whose Connect has not returned (Subscribe, Unsubscribe).
THEOREM HubTyped == H!Spec => []H!TypeOK
  BY HubAlways, HubTypeOK, PTL

\* A Publish that returns has served every subscriber that was there all along, for any
\* connections, publishers and capacity (Publish against Subscribe and Unsubscribe).
THEOREM HubDelivers == H!Spec => Delivered
<1>1. HubInv /\ [H!Next]_(H!vars) =>
        [\A p \in Publishers : pub[p].pc = "walk" /\ pub'[p].pc = "done" =>
           \A c \in pub[p].here : ws[c] # "closed" => p \in got[c] \cup missed[c]]_(H!vars)
  <2> SUFFICES ASSUME HubInv, H!Next, NEW p \in Publishers, pub[p].pc = "walk", pub'[p].pc = "done",
                      NEW c \in pub[p].here, ws[c] # "closed"
               PROVE  p \in got[c] \cup missed[c]
    BY Zenon
  <2> QED  BY OnlyEndsReturn, ServedAtTheEnd, Zenon
<1> QED  BY <1>1, HubAlways, PTL DEF H!Spec, Delivered, H!Delivered

=============================================================================
