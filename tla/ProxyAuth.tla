------------------------------ MODULE ProxyAuth ------------------------------
(***************************************************************************)
(* The access check of proxied requests and its cache: requireNode and     *)
(* cachedRequireNode in internal/api/proxy.go, the checks of               *)
(* internal/authz, and the requests that change what was cached.  One      *)
(* network with one node; administrators remove members and change or      *)
(* delete the node while requests run.                                     *)
(***************************************************************************)
EXTENDS Naturals

CONSTANTS
  Users,       \* users other than the owner
  Reqs,        \* proxied requests in flight at once
  TTL,         \* proxyAuthTTL in ticks
  MaxChanges   \* bound on changes by administrators

VARIABLES
  net,       \* the network's row exists
  node,      \* the node's row
  role,      \* role[u]: membership of u, "none" without a row
  cache,     \* authCache: per user the entry, left = 0 for none
  req,       \* the proxied requests
  op,        \* the administrator's request in progress
  since,     \* ticks since each user lost the view and the node its capability
  worst,     \* 1 + the ticks after which a request was let in without one of these
  changes

rows == <<net, node, role>>
proxying == <<cache, req, since, worst>>
vars == <<net, node, role, cache, req, op, since, worst, changes>>

Roles == {"member", "admin"}
NoEntry == [left |-> 0, cap |-> FALSE, routes |-> 0]
NoReq == [pc |-> "idle", u |-> "nobody", cap |-> FALSE, routes |-> 0]
NoOp == [pc |-> "idle", all |-> FALSE]

\* The shape of the state; an entry stays no longer than its lifetime.
TypeOK ==
  /\ net \in BOOLEAN /\ node \in [there : BOOLEAN, cap : BOOLEAN, routes : 0..1]
  /\ role \in [Users -> Roles \cup {"none"}]
  /\ cache \in [Users -> [left : 0..TTL, cap : BOOLEAN, routes : 0..1]]
  /\ req \in [Reqs -> [pc : {"idle", "node", "store"}, u : Users \cup {"nobody"},
                       cap : BOOLEAN, routes : 0..1]]
  /\ op \in [pc : {"idle", "invalidate", "delete"}, all : BOOLEAN]
  /\ since \in [view : [Users -> 0..TTL + 1], node : 0..TTL + 1]
  /\ worst \in 0..TTL + 2 /\ changes \in 0..MaxChanges

Init ==
  /\ net = TRUE /\ node = [there |-> TRUE, cap |-> TRUE, routes |-> 0]
  /\ role \in [Users -> {"none", "member"}]
  /\ cache = [u \in Users |-> NoEntry] /\ req = [r \in Reqs |-> NoReq] /\ op = NoOp
  /\ since = [view |-> [u \in Users |-> 0], node |-> 0] /\ worst = 0 /\ changes = 0

----------------------------------------------------------------------------
\* Access.

\* CheckAccess and CanView for a user who is not the owner.
CanView(u) == net /\ role[u] # "none"

\* What NodeProxy asks of the node besides: that it exists and has the capability.
Offered == node.there /\ node.cap

\* AcceptInvite, as far as this module is concerned.
Join(u) ==
  /\ net /\ role[u] = "none" /\ op.pc = "idle" /\ changes < MaxChanges
  /\ role' = [role EXCEPT ![u] = "member"] /\ changes' = changes + 1
  /\ UNCHANGED <<net, node, proxying, op>>

\* Ghost: the clock of a right that is held stands at 0.
Clocks ==
  [view |-> [u \in Users |-> IF CanView(u) THEN 0 ELSE since.view[u]],
   node |-> IF Offered THEN 0 ELSE since.node]

Later(t) == IF t > TTL THEN t ELSE t + 1

\* Ghost: a tick later.
ClocksAfterTick ==
  [view |-> [u \in Users |-> IF CanView(u) THEN 0 ELSE Later(since.view[u])],
   node |-> IF Offered THEN 0 ELSE Later(since.node)]

----------------------------------------------------------------------------
\* Administrators: a write, then the invalidation of the cache.

Change == op.pc = "idle" /\ changes < MaxChanges /\ changes' = changes + 1

\* RemoveMember invalidates the network's entries, the others the node's.
RemoveMember(u) ==
  /\ Change /\ role[u] # "none"
  /\ role' = [role EXCEPT ![u] = "none"]
  /\ op' = [pc |-> "invalidate", all |-> TRUE] /\ since' = Clocks
  /\ UNCHANGED <<net, node, cache, req, worst>>

UpdateCapabilities ==
  /\ Change /\ net /\ node.there
  /\ node' = [node EXCEPT !.cap = ~@]
  /\ op' = [pc |-> "invalidate", all |-> FALSE] /\ since' = Clocks
  /\ UNCHANGED <<net, role, cache, req, worst>>

UpdateRoutes ==
  /\ Change /\ net /\ node.there
  /\ node' = [node EXCEPT !.routes = 1 - @]
  /\ op' = [pc |-> "invalidate", all |-> FALSE]
  /\ UNCHANGED <<net, role, proxying>>

DeleteNode ==
  /\ Change /\ net /\ node.there
  /\ node' = [node EXCEPT !.there = FALSE]
  /\ op' = [pc |-> "invalidate", all |-> FALSE] /\ since' = Clocks
  /\ UNCHANGED <<net, role, cache, req, worst>>

\* InvalidateProxyCache by prefix; with one node both prefixes match every user.
Invalidated(all) == [u \in Users |-> NoEntry]

InvalidateProxyCache ==
  /\ op.pc = "invalidate"
  /\ cache' = Invalidated(op.all) /\ op' = NoOp
  /\ UNCHANGED <<rows, req, since, worst, changes>>

\* DeleteNetwork invalidates first and deletes then, members and invitations with it.
DeleteNetwork ==
  /\ Change /\ net
  /\ cache' = Invalidated(TRUE) /\ op' = [pc |-> "delete", all |-> TRUE]
  /\ UNCHANGED <<rows, req, since, worst>>

NetworkDeleted ==
  /\ op.pc = "delete" /\ net' = FALSE /\ node' = [node EXCEPT !.there = FALSE]
  /\ role' = [u \in Users |-> "none"]
  /\ op' = NoOp /\ since' = Clocks
  /\ UNCHANGED <<cache, req, worst, changes>>

----------------------------------------------------------------------------
\* cachedRequireNode.

\* A plausible bug: every hit renews the entry.
AfterHitRenewed(u) == [cache EXCEPT ![u].left = TTL]

AfterHit(u) == cache

Larger(a, b) == IF a > b THEN a ELSE b

\* Ghost: the request of u is let in now if the entry has the capability.
LetIn(u, cap) ==
  LET lateView == IF CanView(u) THEN 0 ELSE since.view[u] + 1
      lateNode == IF Offered THEN 0 ELSE since.node + 1
  IN worst' = IF cap THEN Larger(worst, Larger(lateView, lateNode)) ELSE worst

\* A valid entry answers without the database.
Hit(r, u) ==
  /\ req[r].pc = "idle" /\ cache[u].left > 0
  /\ cache' = AfterHit(u) /\ LetIn(u, cache[u].cap)
  /\ UNCHANGED <<rows, req, op, since, changes>>

\* requireNode: the network and the membership ...
Miss(r, u) ==
  /\ req[r].pc = "idle" /\ cache[u].left = 0 /\ CanView(u)
  /\ req' = [req EXCEPT ![r] = [NoReq EXCEPT !.pc = "node", !.u = u]]
  /\ UNCHANGED <<rows, cache, op, since, worst, changes>>

\* ... then the node ...
ReadNode(r) ==
  /\ req[r].pc = "node"
  /\ req' = [req EXCEPT ![r] = IF node.there
       THEN [@ EXCEPT !.pc = "store", !.cap = node.cap, !.routes = node.routes] ELSE NoReq]
  /\ UNCHANGED <<rows, cache, op, since, worst, changes>>

\* ... and the entry, valid from now; the handler asks it for the capability.
Store(r) ==
  LET u == req[r].u IN
  /\ req[r].pc = "store"
  /\ cache' = [cache EXCEPT ![u] = [left |-> TTL, cap |-> req[r].cap, routes |-> req[r].routes]]
  /\ LetIn(u, req[r].cap)
  /\ req' = [req EXCEPT ![r] = NoReq]
  /\ UNCHANGED <<rows, op, since, changes>>

\* Time passes; two reads and a store are far shorter than a tick.
Tick ==
  /\ \A r \in Reqs : req[r].pc = "idle"
  /\ \E u \in Users : cache[u].left > 0
  /\ cache' = [u \in Users |-> IF cache[u].left <= 1 THEN NoEntry
                               ELSE [cache[u] EXCEPT !.left = @ - 1]]
  /\ since' = ClocksAfterTick
  /\ UNCHANGED <<rows, req, op, worst, changes>>

----------------------------------------------------------------------------
Next ==
  \/ \E u \in Users : Join(u) \/ RemoveMember(u)
  \/ UpdateCapabilities
  \/ UpdateRoutes
  \/ DeleteNode
  \/ DeleteNetwork
  \/ InvalidateProxyCache
  \/ NetworkDeleted
  \/ \E r \in Reqs, u \in Users : Hit(r, u) \/ Miss(r, u)
  \/ \E r \in Reqs : ReadNode(r) \/ Store(r)
  \/ Tick

Spec == Init /\ [][Next]_vars

----------------------------------------------------------------------------
\* A request that read before a change and stores after its invalidation leaves a stale
\* entry; access ends with it all the same: nobody is let in more than proxyAuthTTL after
\* the membership, the node or its capability went.
RevokedWithinTTL == worst <= TTL

=============================================================================
