------------------------------ MODULE Membership ------------------------------
(***************************************************************************)
(* Who belongs to a network: internal/api/invites.go and members.go with   *)
(* their stores.  One network; administrators create and revoke            *)
(* invitations and remove members while users accept invitations in        *)
(* several tabs at once.  The foreign keys of the schema are not enforced  *)
(* (db.go:40 passes _foreign_keys=on, which the driver does not read): the *)
(* rows of a deleted network stay, and its invitations still admit users.  *)
(***************************************************************************)
EXTENDS Naturals, FiniteSets

CONSTANTS
  Users,       \* users other than the owner
  Invites,
  Tabs,        \* accept requests, each runs once
  MaxUses      \* the largest limit an invitation is given; 0 is no limit

VARIABLES
  net,       \* the network's row exists
  role,      \* role[u]: membership of u, "none" without a row
  invite,    \* the invitations
  tab,       \* the accept requests
  joined     \* joined[i]: members added through invitation i

vars == <<net, role, invite, tab, joined>>

Roles == {"member", "admin"}
NoTab == [pc |-> "idle", u |-> "nobody", i |-> 0, role |-> "member"]

TypeOK ==
  /\ net \in BOOLEAN /\ role \in [Users -> Roles \cup {"none"}]
  /\ invite \in [Invites -> [live : BOOLEAN, max : 0..MaxUses, uses : 0..Cardinality(Tabs),
                             expired : BOOLEAN, role : Roles]]
  /\ tab \in [Tabs -> [pc : {"idle", "read", "check", "add", "done", "refused"},
                       u : Users \cup {"nobody"}, i : Invites \cup {0}, role : Roles]]
  /\ joined \in [Invites -> 0..Cardinality(Tabs)]

Init ==
  /\ net = TRUE /\ role = [u \in Users |-> "none"]
  /\ invite = [i \in Invites |-> [live |-> FALSE, max |-> 0, uses |-> 0, expired |-> FALSE,
                                  role |-> "member"]]
  /\ tab = [t \in Tabs |-> NoTab]
  /\ joined = [i \in Invites |-> 0]

----------------------------------------------------------------------------
\* Invitations.

CreateInvite(i, max, r) ==
  /\ net /\ ~invite[i].live /\ invite[i].uses = 0
  /\ invite' = [invite EXCEPT ![i] = [@ EXCEPT !.live = TRUE, !.max = max, !.role = r]]
  /\ UNCHANGED <<net, role, tab, joined>>

Expire(i) ==
  /\ invite[i].live /\ ~invite[i].expired
  /\ invite' = [invite EXCEPT ![i].expired = TRUE]
  /\ UNCHANGED <<net, role, tab, joined>>

\* DeleteInvite by an administrator of the network, or DeleteExpired on the hour.
DeleteInvite(i) ==
  /\ invite[i].live /\ (net \/ invite[i].expired)
  /\ invite' = [invite EXCEPT ![i].live = FALSE]
  /\ UNCHANGED <<net, role, tab, joined>>

Ended(t, pc) == [tab EXCEPT ![t] = [NoTab EXCEPT !.pc = pc]]

\* A plausible bug: the limit is compared with the count before this use.
ClaimValidOffByOne(i) ==
  /\ invite[i].live /\ ~invite[i].expired
  /\ invite[i].max = 0 \/ invite[i].uses <= invite[i].max

\* The condition of AtomicClaimInvite's UPDATE.
ClaimValid(i) ==
  /\ invite[i].live /\ ~invite[i].expired
  /\ invite[i].max = 0 \/ invite[i].uses < invite[i].max

\* AcceptInvite, first step: one UPDATE checks and counts the use.
Claim(t, u, i) ==
  /\ tab[t].pc = "idle"
  /\ IF ClaimValid(i)
     THEN /\ invite' = [invite EXCEPT ![i].uses = @ + 1]
          /\ tab' = [tab EXCEPT ![t] = [@ EXCEPT !.pc = "read", !.u = u, !.i = i]]
     ELSE tab' = Ended(t, "refused") /\ UNCHANGED invite
  /\ UNCHANGED <<net, role, joined>>

\* Claim reads the invitation back; it may be gone by now.
ReadBack(t) ==
  LET i == tab[t].i IN
  /\ tab[t].pc = "read"
  /\ tab' = IF invite[i].live
            THEN [tab EXCEPT ![t].pc = "check", ![t].role = invite[i].role]
            ELSE Ended(t, "refused")
  /\ UNCHANGED <<net, role, invite, joined>>

CheckMember(t) ==
  /\ tab[t].pc = "check"
  /\ tab' = IF role[tab[t].u] # "none" THEN Ended(t, "refused") ELSE [tab EXCEPT ![t].pc = "add"]
  /\ UNCHANGED <<net, role, invite, joined>>

\* UNIQUE(network_id, user_id).
CanInsert(u) == role[u] = "none"

\* Members.Add.
AddMember(t) ==
  LET u == tab[t].u IN
  /\ tab[t].pc = "add"
  /\ IF CanInsert(u)
     THEN /\ role' = [role EXCEPT ![u] = tab[t].role]
          /\ joined' = [joined EXCEPT ![tab[t].i] = @ + 1]
          /\ tab' = Ended(t, "done")
     ELSE tab' = Ended(t, "refused") /\ UNCHANGED <<role, joined>>
  /\ UNCHANGED <<net, invite>>

----------------------------------------------------------------------------
\* The other ways rows go.

RemoveMember(u) ==
  /\ net /\ role[u] # "none"
  /\ role' = [role EXCEPT ![u] = "none"]
  /\ UNCHANGED <<net, invite, tab, joined>>

\* The row of the network goes, those that refer to it stay.
DeleteNetwork ==
  /\ net /\ net' = FALSE
  /\ UNCHANGED <<role, invite, tab, joined>>

Next ==
  \/ \E i \in Invites, max \in 0..MaxUses, r \in Roles : CreateInvite(i, max, r)
  \/ \E i \in Invites : Expire(i) \/ DeleteInvite(i)
  \/ \E t \in Tabs, u \in Users, i \in Invites : Claim(t, u, i)
  \/ \E t \in Tabs : ReadBack(t) \/ CheckMember(t) \/ AddMember(t)
  \/ \E u \in Users : RemoveMember(u)
  \/ DeleteNetwork

Spec == Init /\ [][Next]_vars

----------------------------------------------------------------------------
\* An invitation admits no more members than its limit, however many tabs and users
\* accept it at once; every member it admitted used it once (Claim, AcceptInvite).
LimitKept ==
  \A i \in Invites :
    joined[i] <= invite[i].uses /\ (invite[i].max # 0 => invite[i].uses <= invite[i].max)

=============================================================================
