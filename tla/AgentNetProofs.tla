--------------------------- MODULE AgentNetProofs ---------------------------
(***************************************************************************)
(* The agent and the network: the Nebula configuration, the HTTP servers   *)
(* it opens, the port mapping of the router and the QUIC session:          *)
(* NebulaConfig, ServerSet, Portmap and QuicSession, each with its         *)
(* constants, what is assumed of them, its instance and the properties     *)
(* that MCAgentNet checks; and the proofs of the safety properties for     *)
(* every value of the constants: the inductive invariant of each part,     *)
(* that its initial states satisfy it and its steps keep it, and the       *)
(* theorem about its specification.  The parts share no state with each    *)
(* other while they run.                                                   *)
(***************************************************************************)
EXTENDS Integers, Sequences, FiniteSets, TLAPS

-----------------------------------------------------------------------------
(* ServerSet.                                                              *)

CONSTANTS
  Threads, MaxInsts, MaxServers

\* There can be a server: RegisterDebugListener's.
ASSUME ServerSetAssumption ==
  MaxServers \in Nat \ {0} /\ MaxInsts \in Nat

VARIABLES
  inst, httpReg, servers, srv, bare, listener, made, th, httpAgent, crossed

H == INSTANCE ServerSet WITH
       reg <- httpReg, agent <- httpAgent

httpVars == <<inst, httpReg, servers, srv, bare, listener, made, th, httpAgent, crossed>>

\* A server whose listener is open can be found by the next shutdownInstance or shutdownAll,
\* or is in the hands of a call that publishes it or shuts it down: whatever disconnects,
\* failed connects, stops and reloads interleave, none is lost.  The code leaves two gaps:
\* an entry that is taken out of the set while rebindMesh works on it, and one that
\* startMeshListener or startOSListener replaces unseen (crossed).
NoLostServer == H!NoLostServer

\* A call of the set's users.
SetCall == [pc : {"idle", "remove", "drop", "take", "bare", "closeall", "add", "mesh", "listen",
                  "undo", "publish", "check", "start", "lookup"} \cup H!Rebinding,
            op : {"none", "connect", "reload", "disconnect", "stop"}, i : H!Insts \cup {0},
            e : H!Servers \cup {0}, s : H!Servers \cup {0}, b : H!Servers \cup {0},
            k : {"mesh", "any"}, next : {"idle", "add", "bare"}]

\* The types of the variables.
SetTypes ==
  /\ inst \in [H!Insts -> {"unused", "down", "up", "closed"}] /\ httpReg \in H!Insts \cup {0}
  /\ servers \in H!Servers \cup {0} /\ srv \in [H!Servers -> H!Servers \cup {0}]
  /\ bare \in H!Servers \cup {0}
  /\ listener \in [H!Servers -> {"mesh", "any", "closed"}] /\ made \in 0..MaxServers
  /\ th \in [Threads -> SetCall]
  /\ httpAgent \in {"runs", "dead"} /\ crossed \in BOOLEAN

\* Servers and entries are numbered as they are made.
SetNumbers ==
  /\ bare <= made /\ servers <= made
  /\ \A x \in H!Servers : srv[x] <= made /\ (srv[x] # 0 => x <= made) /\ (listener[x] # "closed" => x <= made)
  /\ \A t \in Threads : th[t].e <= made /\ th[t].s <= made /\ th[t].b <= made

\* Only its maker knows a server that is not published; its number is no entry's yet.
SetFresh ==
  \A t \in Threads : th[t].pc \in {"publish", "swap"} =>
    /\ th[t].s # 0 /\ bare # th[t].s
    /\ \A x \in H!Servers : srv[x] # th[t].s
    /\ \A u \in Threads : th[u].b # th[t].s
    /\ \A u \in Threads : u # t /\ th[u].pc \in {"publish", "swap"} => th[u].s # th[t].s
    /\ th[t].pc = "publish" =>
         srv[th[t].s] = 0 /\ servers # th[t].s /\ \A u \in Threads : th[u].e # th[t].s

\* One listener has the mesh address; it is that of a call about to swap.
SetOneMesh ==
  /\ \A x, y \in H!Servers : listener[x] = "mesh" /\ listener[y] = "mesh" => x = y
  /\ \A t \in Threads : th[t].pc = "swap" => listener[th[t].s] = "mesh"

\* The entry of a rebind is in the set, that of a shutdown is not.
SetPlace ==
  \A t \in Threads :
    /\ th[t].pc \in H!Rebinding => th[t].e # 0 /\ (~crossed => servers = th[t].e)
    /\ th[t].pc = "take" => th[t].e # 0 /\ servers # th[t].e

\* After its shutdown an entry's server is closed, or another rebind has replaced it.
SetOld ==
  \A t \in Threads : th[t].pc \in {"relisten", "swap"} /\ ~crossed =>
    \A x \in H!Servers : x = srv[th[t].e] => listener[x] # "any"

\* Stop keeps the bare server until it is closed.
SetStops ==
  \A t \in Threads : th[t].op = "stop" =>
    /\ th[t].pc \in {"take", "bare", "closeall"}
    /\ th[t].pc = "take" => th[t].next = "bare"
    /\ th[t].pc = "closeall" => \A x \in H!Servers : x = th[t].b => listener[x] = "closed"

\* An open server is owned.
SetOwned == ~crossed => \A x \in H!Servers : listener[x] # "closed" => H!Owned(x)

\* The inductive invariant.
SetInv == SetTypes /\ SetNumbers /\ SetFresh /\ SetOneMesh /\ SetPlace /\ SetOld /\ SetStops /\ SetOwned

\* The invariant implies the type invariant and the property.
LEMMA SetSays == SetInv => H!TypeOK /\ NoLostServer
<1>1. SetInv => H!TypeOK
  BY Zenon DEF SetInv, SetTypes, SetCall, H!TypeOK
<1>2. SetInv => NoLostServer
  BY Zenon DEF SetInv, SetOwned, NoLostServer, H!NoLostServer
<1> QED  BY <1>1, <1>2, Zenon

\* A call that has not begun.
LEMMA IdleTyped ==
    /\ H!Idle \in SetCall /\ H!Idle.pc = "idle" /\ H!Idle.op = "none"
    /\ H!Idle.e = 0 /\ H!Idle.s = 0 /\ H!Idle.b = 0
  BY Zenon DEF H!Idle, SetCall

\* The invariant holds at first.
LEMMA SetInit == H!Init => SetInv
<1> SUFFICES ASSUME H!Init PROVE SetInv
  BY Zenon
<1>1. 1 \in H!Servers /\ MaxServers \in Nat /\ H!Servers = 1..MaxServers
  BY ServerSetAssumption DEF H!Servers
<1>2. th = [t \in Threads |-> H!Idle] /\ \A t \in Threads : th[t] = H!Idle
  BY Zenon DEF H!Init
<1>3. SetTypes
  <2>1. th \in [Threads -> SetCall]
    BY <1>2, IdleTyped, Zenon
  <2>2. listener \in [H!Servers -> {"mesh", "any", "closed"}]
    BY Zenon DEF H!Init
  <2>3. srv \in [H!Servers -> H!Servers \cup {0}]
    BY Zenon DEF H!Init
  <2>4. inst \in [H!Insts -> {"unused", "down", "up", "closed"}]
    BY Zenon DEF H!Init
  <2>5. bare \in H!Servers \cup {0} /\ made \in 0..MaxServers
    BY <1>1 DEF H!Init
  <2>6. /\ httpReg \in H!Insts \cup {0} /\ servers \in H!Servers \cup {0}
        /\ httpAgent \in {"runs", "dead"} /\ crossed \in BOOLEAN
    BY Zenon DEF H!Init
  <2> QED  BY <2>1, <2>2, <2>3, <2>4, <2>5, <2>6, Zenon DEF SetTypes
<1>4. SetNumbers
  BY <1>1, <1>2, IdleTyped DEF H!Init, SetNumbers
<1>5. SetFresh /\ SetPlace /\ SetOld /\ SetStops
  BY <1>2, IdleTyped, Zenon DEF SetFresh, SetPlace, SetOld, SetStops, H!Rebinding
<1>6. SetOneMesh
  BY <1>2, IdleTyped, Zenon DEF H!Init, SetOneMesh
<1>7. SetOwned
  BY <1>1, Zenon DEF H!Init, SetOwned, H!Owned
<1> QED  BY <1>3, <1>4, <1>5, <1>6, <1>7, Zenon DEF SetInv

\* What a step of one call leaves alone.
LEMMA OneCall ==
    ASSUME SetTypes, NEW t \in Threads, NEW c \in SetCall, th' = [th EXCEPT ![t] = c]
    PROVE  /\ th' \in [Threads -> SetCall] /\ th'[t] = c
           /\ \A u \in Threads : u # t => th'[u] = th[u]
  BY Zenon DEF SetTypes

\* The calls' own steps: the set and the listeners stay, the call owns nothing before or after.
LEMMA CallStep ==
    ASSUME SetInv, NEW t \in Threads, NEW c \in SetCall, th' = [th EXCEPT ![t] = c],
           UNCHANGED <<servers, srv, bare, listener, made, httpAgent, crossed>>,
           inst' \in [H!Insts -> {"unused", "down", "up", "closed"}], httpReg' \in H!Insts \cup {0},
           th[t].pc \notin {"take", "publish", "swap"}, th[t].op = "stop" => th[t].pc = "closeall",
           c.pc \notin {"take", "publish", "relisten", "swap"}, c.op # "stop",
           c.e \in {0, th[t].e, servers}, c.s \in {0, th[t].s}, c.b \in {0, th[t].b},
           c.pc = "old" => c.e = servers /\ servers # 0
    PROVE  SetInv'
<1>1. /\ th' \in [Threads -> SetCall] /\ th'[t] = c /\ \A u \in Threads : u # t => th'[u] = th[u]
  BY OneCall, Zenon DEF SetInv
<1>2. SetTypes'
  BY <1>1, Zenon DEF SetInv, SetTypes
<1>3. SetNumbers'
  <2>1. made \in 0..MaxServers
    BY Zenon DEF SetInv, SetTypes
  <2>2. c.e <= made /\ c.s <= made /\ c.b <= made
    BY <2>1 DEF SetInv, SetNumbers
  <2> QED  BY <1>1, <2>2, Zenon DEF SetInv, SetNumbers
<1>4. SetFresh'
  <2> SUFFICES ASSUME NEW u \in Threads, th'[u].pc \in {"publish", "swap"}
               PROVE  /\ th'[u].s # 0 /\ bare # th'[u].s
                      /\ \A x \in H!Servers : srv[x] # th'[u].s
                      /\ \A v \in Threads : th'[v].b # th'[u].s
                      /\ \A v \in Threads : v # u /\ th'[v].pc \in {"publish", "swap"} => th'[v].s # th'[u].s
                      /\ th'[u].pc = "publish" =>
                           srv[th'[u].s] = 0 /\ servers # th'[u].s /\ \A v \in Threads : th'[v].e # th'[u].s
    BY DEF SetFresh
  <2>1. u # t /\ th'[u] = th[u]
    BY <1>1, Zenon
  <2> QED  BY <1>1, <2>1 DEF SetInv, SetFresh
<1>5. SetOneMesh'
  BY <1>1 DEF SetInv, SetOneMesh
<1>6. SetPlace' /\ SetOld'
  BY <1>1 DEF SetInv, SetPlace, SetOld, H!Rebinding
<1>7. SetStops'
  BY <1>1 DEF SetInv, SetStops
<1>8. SetOwned'
  <2> SUFFICES ASSUME ~crossed, NEW x \in H!Servers, listener[x] # "closed" PROVE H!Owned(x)'
    BY Zenon DEF SetOwned
  <2>1. H!Owned(x)
    BY Zenon DEF SetInv, SetOwned
  <2>2. th[t].op = "stop" => x # th[t].b
    BY Zenon DEF SetInv, SetStops
  <2> QED  BY <1>1, <2>1, <2>2, Zenon DEF H!Owned
<1> QED  BY <1>2, <1>3, <1>4, <1>5, <1>6, <1>7, <1>8, Zenon DEF SetInv

\* Where a call goes on after a shutdown.
LEMMA OnwardTyped ==
    ASSUME SetInv, NEW t \in Threads
    PROVE  /\ H!Onward(t) \in SetCall /\ H!Onward(t).pc \in {"idle", "add", "bare"}
           /\ H!Onward(t).e = 0 /\ H!Onward(t).s = 0 /\ H!Onward(t).b \in {0, th[t].b}
           /\ H!Onward(t).op \in {"none", th[t].op}
           /\ th[t].next = "bare" =>
                H!Onward(t).op = th[t].op /\ H!Onward(t).pc = "bare" /\ H!Onward(t).b = th[t].b
<1>1. th[t] \in SetCall
  BY Zenon DEF SetInv, SetTypes
<1>2. CASE th[t].next = "idle"
  BY <1>2, IdleTyped, Zenon DEF H!Onward
<1>3. CASE th[t].next # "idle"
  <2>1. H!Onward(t) = [H!Idle EXCEPT !.op = th[t].op, !.pc = th[t].next, !.b = th[t].b]
    BY <1>3, Zenon DEF H!Onward
  <2> QED  BY <1>1, <1>3, <2>1, IdleTyped, Zenon DEF SetCall
<1> QED  BY <1>2, <1>3, Zenon

\* A new listener: its maker alone knows the server.
LEMMA BindStep ==
    ASSUME SetInv, NEW t \in Threads, NEW k \in {"mesh", "any"}, NEW pc, H!Bind(t, k, pc),
           \/ pc = "publish" /\ th[t].pc = "listen"
           \/ pc = "swap" /\ k = "mesh" /\ th[t].pc = "relisten",
           UNCHANGED <<inst, httpReg, servers, srv, bare, httpAgent, crossed>>
    PROVE  SetInv'
<1>1. /\ H!CanBind(k) /\ made < MaxServers /\ made' = made + 1
      /\ listener' = [listener EXCEPT ![made + 1] = k]
      /\ th' = [th EXCEPT ![t] = [th[t] EXCEPT !.pc = pc, !.s = made + 1]]
  BY Zenon DEF H!Bind, H!Become
<1>2. /\ th[t] \in SetCall /\ made \in 0..MaxServers /\ MaxServers \in Nat /\ H!Servers = 1..MaxServers
      /\ listener \in [H!Servers -> {"mesh", "any", "closed"}]
  BY ServerSetAssumption, Zenon DEF SetInv, SetTypes, H!Servers
<1>3. made + 1 \in H!Servers /\ made + 1 # 0 /\ made + 1 \in 0..MaxServers
  BY <1>1, <1>2
<1>4. PICK c \in SetCall : c = [th[t] EXCEPT !.pc = pc, !.s = made + 1]
  BY <1>2, <1>3, ZenonT(40) DEF SetCall, H!Rebinding
<1>5. /\ c.pc = pc /\ c.s = made + 1 /\ c.op = th[t].op /\ c.e = th[t].e /\ c.b = th[t].b /\ c.next = th[t].next
  BY <1>2, <1>4 DEF SetCall
<1>6. th' \in [Threads -> SetCall] /\ th'[t] = c /\ \A u \in Threads : u # t => th'[u] = th[u]
  BY <1>1, <1>4, OneCall, Zenon DEF SetInv
<1>7. /\ listener' \in [H!Servers -> {"mesh", "any", "closed"}] /\ listener'[made + 1] = k
      /\ \A x \in H!Servers : x # made + 1 => listener'[x] = listener[x]
  BY <1>1, <1>2, <1>3, Zenon
<1>8. \A n \in H!Servers \cup {0} : n <= made => n # made + 1 /\ n <= made + 1
  BY <1>2
<1>9. /\ bare # made + 1 /\ servers # made + 1 /\ listener[made + 1] = "closed" /\ srv[made + 1] = 0
      /\ \A x \in H!Servers : srv[x] # made + 1
      /\ \A u \in Threads : th[u].e # made + 1 /\ th[u].s # made + 1 /\ th[u].b # made + 1
  <2>1. ~(made + 1 <= made)
    BY <1>2
  <2> QED  BY <1>3, <2>1, Zenon DEF SetInv, SetNumbers
<1>10. SetTypes'
  BY <1>1, <1>3, <1>6, <1>7, Zenon DEF SetInv, SetTypes
<1>11. SetNumbers'
  <2>1. /\ bare <= made + 1 /\ servers <= made + 1
        /\ \A x \in H!Servers : srv[x] <= made + 1 /\ (srv[x] # 0 => x <= made + 1)
    BY <1>8, Zenon DEF SetInv, SetTypes, SetNumbers
  <2>2. \A x \in H!Servers : listener'[x] # "closed" => x <= made + 1
    <3>1. \A x \in H!Servers : listener[x] # "closed" => x <= made + 1
      BY <1>8, Zenon DEF SetInv, SetNumbers
    <3>2. made + 1 <= made + 1
      BY <1>2
    <3> QED  BY <1>7, <3>1, <3>2, Zenon
  <2>3. \A u \in Threads : th[u].e <= made + 1 /\ th[u].s <= made + 1 /\ th[u].b <= made + 1
    BY <1>8, Zenon DEF SetInv, SetTypes, SetNumbers, SetCall
  <2>4. \A u \in Threads : th'[u].e <= made + 1 /\ th'[u].s <= made + 1 /\ th'[u].b <= made + 1
    <3>1. made + 1 <= made + 1
      BY <1>2
    <3> QED  BY <1>5, <1>6, <2>3, <3>1, Zenon
  <2> QED  BY <1>1, <2>1, <2>2, <2>4, Zenon DEF SetNumbers
<1>12. SetFresh'
  <2> SUFFICES ASSUME NEW u \in Threads, th'[u].pc \in {"publish", "swap"}
               PROVE  /\ th'[u].s # 0 /\ bare # th'[u].s
                      /\ \A x \in H!Servers : srv[x] # th'[u].s
                      /\ \A v \in Threads : th'[v].b # th'[u].s
                      /\ \A v \in Threads : v # u /\ th'[v].pc \in {"publish", "swap"} => th'[v].s # th'[u].s
                      /\ th'[u].pc = "publish" =>
                           srv[th'[u].s] = 0 /\ servers # th'[u].s /\ \A v \in Threads : th'[v].e # th'[u].s
    BY Zenon DEF SetFresh
  <2>1. CASE u = t
    BY <1>3, <1>5, <1>6, <1>9, <2>1
  <2>2. CASE u # t
    BY <1>5, <1>6, <1>9, <2>2 DEF SetInv, SetFresh
  <2> QED  BY <2>1, <2>2, Zenon
<1>13. SetOneMesh'
  <2>1. \A x, y \in H!Servers : listener'[x] = "mesh" /\ listener'[y] = "mesh" => x = y
    BY <1>1, <1>7 DEF H!CanBind, SetInv, SetOneMesh
  <2>2. \A u \in Threads : th'[u].pc = "swap" => listener'[th'[u].s] = "mesh"
    <3>1. ASSUME NEW u \in Threads, u # t, th[u].pc = "swap" PROVE listener'[th[u].s] = "mesh"
      <4>1. th[u].s \in H!Servers
        BY <3>1 DEF SetInv, SetTypes, SetCall, SetFresh
      <4> QED  BY <1>7, <1>9, <3>1, <4>1, Zenon DEF SetInv, SetOneMesh
    <3> QED  BY <1>5, <1>6, <1>7, <3>1
  <2> QED  BY <2>1, <2>2, Zenon DEF SetOneMesh
<1>14. SetPlace'
  BY <1>5, <1>6 DEF SetInv, SetPlace, H!Rebinding
<1>15. SetOld'
  <2> SUFFICES ASSUME NEW u \in Threads, th'[u].pc \in {"relisten", "swap"}, ~crossed,
                      NEW x \in H!Servers, x = srv[th'[u].e]
               PROVE  listener'[x] # "any"
    BY Zenon DEF SetOld
  <2>1. th'[u].e = th[u].e /\ th[u].pc \in {"relisten", "swap"}
    BY <1>5, <1>6, Zenon
  <2>2. th[u].e \in H!Servers
    BY <2>1 DEF SetInv, SetTypes, SetCall, SetPlace, H!Rebinding
  <2> QED  BY <1>7, <1>9, <2>1, <2>2, Zenon DEF SetInv, SetOld
<1>16. SetStops'
  <2>1. th[t].op # "stop"
    BY Zenon DEF SetInv, SetStops
  <2> QED  BY <1>5, <1>6, <1>7, <1>9, <2>1 DEF SetInv, SetStops
<1>17. SetOwned'
  <2> SUFFICES ASSUME ~crossed, NEW x \in H!Servers, listener'[x] # "closed" PROVE H!Owned(x)'
    BY Zenon DEF SetOwned
  <2>1. CASE x = made + 1
    BY <1>5, <1>6, <2>1, Zenon DEF H!Owned
  <2>2. CASE x # made + 1
    <3>1. H!Owned(x)
      BY <1>7, <2>2, Zenon DEF SetInv, SetOwned
    <3> QED  BY <1>5, <1>6, <3>1 DEF H!Owned
  <2> QED  BY <2>1, <2>2, Zenon
<1> QED  BY <1>10, <1>11, <1>12, <1>13, <1>14, <1>15, <1>16, <1>17, Zenon DEF SetInv

\* A server is shut down: an open listener was open before, and the listener of a call
\* about to publish or swap stays.
LEMMA ShutdownListener ==
    ASSUME SetInv, NEW n, H!Shutdown(n)
    PROVE  /\ listener' \in [H!Servers -> {"mesh", "any", "closed"}]
           /\ \A x \in H!Servers : x # n => listener'[x] = listener[x]
           /\ \A x \in H!Servers : listener'[x] # "closed" => listener'[x] = listener[x] /\ x # n
           /\ \A x \in H!Servers : listener[x] = "closed" \/ x = n => listener'[x] = "closed"
  BY Zenon DEF SetInv, SetTypes, H!Shutdown

\* A call about to publish or swap has a server.
LEMMA MakerHasServer ==
    ASSUME SetInv, NEW t \in Threads, th[t].pc \in {"publish", "swap"} PROVE th[t].s \in H!Servers
  BY Zenon DEF SetInv, SetTypes, SetCall, SetFresh

\* A call that rebinds or takes an entry has one.
LEMMA CallHasEntry ==
    ASSUME SetInv, NEW t \in Threads, th[t].pc \in {"take", "old", "relisten", "swap"} PROVE th[t].e \in H!Servers
  BY Zenon DEF SetInv, SetTypes, SetCall, SetPlace, H!Rebinding

\* The map gives up its entry, and with Stop the bare server.
LEMMA LeaveSet ==
    ASSUME SetInv, NEW t \in Threads, NEW c \in SetCall, th' = [th EXCEPT ![t] = c],
           UNCHANGED <<inst, httpReg, srv, listener, made, httpAgent>>, servers' = 0,
           crossed' = (crossed \/ H!Crossing(servers)),
           bare' \in {bare, 0}, bare' # bare => c.op = "stop" /\ c.b = bare,
           th[t].pc \in {"idle", "drop"}, th[t].op # "stop",
           c.pc \in {"take", "bare", "idle", "add"}, c.e \in {0, servers},
           servers # 0 => c.pc = "take" /\ c.e = servers, c.pc = "take" => servers # 0,
           c.op = "stop" => c.pc \in {"take", "bare"} /\ (c.pc = "take" => c.next = "bare"),
           c.s \in {0, th[t].s}, c.b \in {0, bare, th[t].b}
    PROVE  SetInv'
<1>1. th' \in [Threads -> SetCall] /\ th'[t] = c /\ \A u \in Threads : u # t => th'[u] = th[u]
  BY OneCall, Zenon DEF SetInv
<1>2. crossed' \in BOOLEAN
  BY Zenon
<1>3. ~crossed' => ~crossed /\ \A u \in Threads : th[u].pc \notin H!Rebinding
  BY Zenon DEF H!Crossing, SetInv, SetPlace
<1>4. SetTypes'
  BY <1>1, <1>2, Zenon DEF SetInv, SetTypes
<1>5. SetNumbers'
  <2>1. made \in 0..MaxServers
    BY Zenon DEF SetInv, SetTypes
  <2>2. c.e <= made /\ c.s <= made /\ c.b <= made /\ bare' <= made /\ 0 <= made
    BY <2>1 DEF SetInv, SetNumbers
  <2> QED  BY <1>1, <2>2, Zenon DEF SetInv, SetNumbers
<1>6. SetFresh'
  <2> SUFFICES ASSUME NEW u \in Threads, th'[u].pc \in {"publish", "swap"}
               PROVE  /\ th'[u].s # 0 /\ bare' # th'[u].s
                      /\ \A x \in H!Servers : srv[x] # th'[u].s
                      /\ \A v \in Threads : th'[v].b # th'[u].s
                      /\ \A v \in Threads : v # u /\ th'[v].pc \in {"publish", "swap"} => th'[v].s # th'[u].s
                      /\ th'[u].pc = "publish" =>
                           srv[th'[u].s] = 0 /\ 0 # th'[u].s /\ \A v \in Threads : th'[v].e # th'[u].s
    BY Zenon DEF SetFresh
  <2>1. u # t /\ th'[u] = th[u]
    BY <1>1, Zenon
  <2> QED  BY <1>1, <2>1 DEF SetInv, SetFresh
<1>7. SetOneMesh'
  BY <1>1, Zenon DEF SetInv, SetOneMesh
<1>8. SetPlace' /\ SetOld'
  BY <1>1, <1>3, Zenon DEF SetInv, SetPlace, SetOld, H!Rebinding
<1>9. SetStops'
  BY <1>1 DEF SetInv, SetStops
<1>10. SetOwned'
  <2> SUFFICES ASSUME ~crossed', NEW x \in H!Servers, listener[x] # "closed" PROVE H!Owned(x)'
    BY Zenon DEF SetOwned
  <2>1. H!Owned(x)
    BY <1>3, Zenon DEF SetInv, SetOwned
  <2>2. CASE x = bare
    BY <1>1, <2>2, Zenon DEF H!Owned
  <2>3. CASE servers # 0 /\ x = srv[servers]
    BY <1>1, <2>3, Zenon DEF H!Owned
  <2>4. CASE \E u \in Threads :
               \/ th[u].pc \in {"publish", "swap"} /\ x = th[u].s
               \/ th[u].pc = "take" /\ x = srv[th[u].e]
               \/ th[u].op = "stop" /\ x = th[u].b
    BY <1>1, <2>4, Zenon DEF H!Owned
  <2> QED  BY <2>1, <2>2, <2>3, <2>4, Zenon DEF H!Owned
<1> QED  BY <1>4, <1>5, <1>6, <1>7, <1>8, <1>9, <1>10, Zenon DEF SetInv

\* A call shuts server n down, and may forget it.
LEMMA ShutStep ==
    ASSUME SetInv, NEW t \in Threads, NEW c \in SetCall, th' = [th EXCEPT ![t] = c], NEW n, H!Shutdown(n),
           UNCHANGED <<inst, httpReg, servers, bare, made, crossed>>, httpAgent' \in {"runs", "dead"},
           srv' \in [H!Servers -> H!Servers \cup {0}],
           \A x \in H!Servers : srv'[x] = srv[x] \/ (srv[x] = n /\ srv'[x] = 0),
           \A u \in Threads : th[u].pc \in {"publish", "swap"} => th[u].s # n,
           th[t].pc \in {"take", "bare", "old"}, th[t].pc = "take" => n = srv[th[t].e],
           c.pc \in {"idle", "add", "bare", "closeall", "relisten"},
           c.e \in {0, th[t].e}, c.s \in {0, th[t].s}, c.b \in {0, th[t].b},
           c.pc = "relisten" => th[t].pc = "old" /\ c.e = th[t].e /\ n = srv[th[t].e],
           th[t].op = "stop" => c.op = "stop" /\ c.b = th[t].b,
           c.op = "stop" => c.pc \in {"bare", "closeall"} /\ (c.pc = "closeall" => n = c.b)
    PROVE  SetInv'
<1>1. th' \in [Threads -> SetCall] /\ th'[t] = c /\ \A u \in Threads : u # t => th'[u] = th[u]
  BY OneCall, Zenon DEF SetInv
<1>2. SetTypes'
  BY <1>1, ShutdownListener, Zenon DEF SetInv, SetTypes
<1>3. SetNumbers'
  <2>1. made \in 0..MaxServers
    BY Zenon DEF SetInv, SetTypes
  <2>2. c.e <= made /\ c.s <= made /\ c.b <= made /\ 0 <= made
    BY <2>1 DEF SetInv, SetNumbers
  <2>3. \A x \in H!Servers : srv'[x] <= made /\ (srv'[x] # 0 => x <= made)
    BY <2>2, Zenon DEF SetInv, SetNumbers
  <2>4. \A x \in H!Servers : listener'[x] # "closed" => x <= made
    BY ShutdownListener, Zenon DEF SetInv, SetNumbers
  <2> QED  BY <1>1, <2>2, <2>3, <2>4, Zenon DEF SetInv, SetNumbers
<1>4. SetFresh'
  <2> SUFFICES ASSUME NEW u \in Threads, th'[u].pc \in {"publish", "swap"}
               PROVE  /\ th'[u].s # 0 /\ bare # th'[u].s
                      /\ \A x \in H!Servers : srv'[x] # th'[u].s
                      /\ \A v \in Threads : th'[v].b # th'[u].s
                      /\ \A v \in Threads : v # u /\ th'[v].pc \in {"publish", "swap"} => th'[v].s # th'[u].s
                      /\ th'[u].pc = "publish" =>
                           srv'[th'[u].s] = 0 /\ servers # th'[u].s /\ \A v \in Threads : th'[v].e # th'[u].s
    BY DEF SetFresh
  <2>1. u # t /\ th'[u] = th[u]
    BY <1>1, Zenon
  <2>2. th[u].s \in H!Servers
    BY <2>1, MakerHasServer, Zenon
  <2> QED  BY <1>1, <2>1, <2>2 DEF SetInv, SetFresh
<1>5. SetOneMesh'
  <2>1. \A x, y \in H!Servers : listener'[x] = "mesh" /\ listener'[y] = "mesh" => x = y
    BY ShutdownListener DEF SetInv, SetOneMesh
  <2>2. ASSUME NEW u \in Threads, th'[u].pc = "swap" PROVE listener'[th'[u].s] = "mesh"
    <3>1. u # t /\ th'[u] = th[u]
      BY <1>1, <2>2, Zenon
    <3>2. th[u].s \in H!Servers
      BY <2>2, <3>1, MakerHasServer, Zenon
    <3> QED  BY <2>2, <3>1, <3>2, ShutdownListener DEF SetInv, SetOneMesh
  <2> QED  BY <2>1, <2>2, Zenon DEF SetOneMesh
<1>6. SetPlace'
  BY <1>1, Zenon DEF SetInv, SetPlace, H!Rebinding
<1>7. SetOld'
  <2> SUFFICES ASSUME NEW u \in Threads, th'[u].pc \in {"relisten", "swap"}, ~crossed,
                      NEW x \in H!Servers, x = srv'[th'[u].e]
               PROVE  listener'[x] # "any"
    BY Zenon DEF SetOld
  <2>1. x # 0
    BY DEF H!Servers
  <2>2. CASE u = t
    <3>1. th[t].e \in H!Servers /\ c.e = th[t].e /\ n = srv[th[t].e]
      BY <1>1, <2>2, CallHasEntry, Zenon
    <3>2. x = n
      BY <1>1, <2>1, <2>2, <3>1
    <3> QED  BY <3>2, ShutdownListener, Zenon
  <2>3. CASE u # t
    <3>1. th[u].e \in H!Servers /\ th'[u] = th[u]
      BY <1>1, <2>3, CallHasEntry, Zenon
    <3>2. x = srv[th[u].e]
      BY <2>1, <3>1, Zenon
    <3> QED  BY <3>1, <3>2, ShutdownListener DEF SetInv, SetOld
  <2> QED  BY <2>2, <2>3, Zenon
<1>8. SetStops'
  <2> SUFFICES ASSUME NEW u \in Threads, th'[u].op = "stop"
               PROVE  /\ th'[u].pc \in {"take", "bare", "closeall"}
                      /\ th'[u].pc = "take" => th'[u].next = "bare"
                      /\ th'[u].pc = "closeall" => \A x \in H!Servers : x = th'[u].b => listener'[x] = "closed"
    BY Zenon DEF SetStops
  <2>1. CASE u = t
    BY <1>1, <2>1, ShutdownListener
  <2>2. CASE u # t
    BY <1>1, <2>2, ShutdownListener DEF SetInv, SetStops
  <2> QED  BY <2>1, <2>2, Zenon
<1>9. SetOwned'
  <2> SUFFICES ASSUME ~crossed, NEW x \in H!Servers, listener'[x] # "closed" PROVE H!Owned(x)'
    BY Zenon DEF SetOwned
  <2>1. H!Owned(x) /\ x # n
    BY ShutdownListener, Zenon DEF SetInv, SetOwned
  <2>2. CASE x = bare
    BY <2>2, Zenon DEF H!Owned
  <2>3. CASE servers # 0 /\ x = srv[servers]
    <3>1. servers \in H!Servers
      BY <2>3, Zenon DEF SetInv, SetTypes
    <3>2. srv'[servers] = x
      BY <2>1, <2>3, <3>1, Zenon
    <3> QED  BY <2>3, <3>2, Zenon DEF H!Owned
  <2>4. CASE \E u \in Threads : th[u].pc \in {"publish", "swap"} /\ x = th[u].s
    BY <1>1, <2>4, Zenon DEF H!Owned
  <2>5. CASE \E u \in Threads : th[u].pc = "take" /\ x = srv[th[u].e]
    <3>1. PICK u \in Threads : th[u].pc = "take" /\ x = srv[th[u].e]
      BY <2>5, Zenon
    <3>2. u # t /\ th'[u] = th[u] /\ th[u].e \in H!Servers
      BY <1>1, <2>1, <3>1, CallHasEntry, Zenon
    <3>3. srv'[th[u].e] = x
      BY <2>1, <3>1, <3>2, Zenon
    <3> QED  BY <3>1, <3>2, <3>3, Zenon DEF H!Owned
  <2>6. CASE \E u \in Threads : th[u].op = "stop" /\ x = th[u].b
    BY <1>1, <2>6 DEF H!Owned
  <2> QED  BY <2>1, <2>2, <2>3, <2>4, <2>5, <2>6, Zenon DEF H!Owned
<1> QED  BY <1>2, <1>3, <1>4, <1>5, <1>6, <1>7, <1>8, <1>9, Zenon DEF SetInv

\* The server of a call is published: the set was empty, or this is a crossing.
LEMMA PublishStep ==
    ASSUME SetInv, NEW t \in Threads, H!Publish(t)
    PROVE  SetInv'
<1>1. PICK n \in H!Servers : n = th[t].s
  BY MakerHasServer, Zenon DEF H!Publish, H!At
<1>2. /\ th[t].pc = "publish" /\ servers' = n /\ srv' = [srv EXCEPT ![n] = n]
      /\ crossed' = (crossed \/ servers # 0)
      /\ UNCHANGED <<inst, httpReg, bare, listener, made, httpAgent>>
  BY <1>1, Zenon DEF H!Publish, H!At, H!objects, H!sockets
<1>3. th[t] \in SetCall /\ srv \in [H!Servers -> H!Servers \cup {0}] /\ th[t].op # "stop"
  BY <1>2, Zenon DEF SetInv, SetTypes, SetStops
<1>4. PICK c \in SetCall :
        /\ th' = [th EXCEPT ![t] = c] /\ c.pc \in {"idle", "check"} /\ c.op \in {"none", th[t].op}
        /\ c.e \in {0, th[t].e} /\ c.s \in {0, th[t].s} /\ c.b \in {0, th[t].b}
  <2>1. CASE th[t].op = "reload"
    <3>1. th' = [th EXCEPT ![t] = H!Idle]
      BY <2>1, Zenon DEF H!Publish, H!Return, H!Become
    <3> QED  BY <3>1, IdleTyped, Zenon
  <2>2. CASE th[t].op # "reload"
    <3>1. th' = [th EXCEPT ![t] = [th[t] EXCEPT !.pc = "check"]]
      BY <2>2, Zenon DEF H!Publish, H!Goto, H!Become
    <3>2. PICK d \in SetCall : d = [th[t] EXCEPT !.pc = "check"]
      BY <1>3, Zenon DEF SetCall
    <3>3. d.pc = "check" /\ d.op = th[t].op /\ d.e = th[t].e /\ d.s = th[t].s /\ d.b = th[t].b
      BY <1>3, <3>2, Zenon DEF SetCall
    <3> QED  BY <3>1, <3>2, <3>3, Zenon
  <2> QED  BY <2>1, <2>2, Zenon
<1>5. th' \in [Threads -> SetCall] /\ th'[t] = c /\ \A u \in Threads : u # t => th'[u] = th[u]
  BY <1>4, OneCall, Zenon DEF SetInv
<1>6. /\ srv' \in [H!Servers -> H!Servers \cup {0}] /\ srv'[n] = n
      /\ \A x \in H!Servers : x # n => srv'[x] = srv[x]
  BY <1>2, <1>3, Zenon
<1>7. /\ bare # n /\ \A u \in Threads : th[u].b # n /\ th[u].e # n
      /\ \A u \in Threads : u # t /\ th[u].pc \in {"publish", "swap"} => th[u].s # n
  BY <1>1, <1>2, Zenon DEF SetInv, SetFresh
<1>8. ~crossed' => ~crossed /\ servers = 0 /\ \A u \in Threads : th[u].pc \notin H!Rebinding
  BY <1>2, Zenon DEF SetInv, SetPlace
<1>9. crossed' \in BOOLEAN
  BY <1>2, Zenon
<1>10. SetTypes'
  BY <1>2, <1>5, <1>6, <1>9, Zenon DEF SetInv, SetTypes
<1>11. SetNumbers'
  <2>1. made \in 0..MaxServers /\ n <= made
    BY <1>1, Zenon DEF SetInv, SetTypes, SetNumbers
  <2>2. c.e <= made /\ c.s <= made /\ c.b <= made
    BY <1>4, <2>1 DEF SetInv, SetNumbers
  <2>3. \A x \in H!Servers : srv'[x] <= made /\ (srv'[x] # 0 => x <= made)
    BY <1>6, <2>1, Zenon DEF SetInv, SetNumbers
  <2> QED  BY <1>2, <1>5, <2>1, <2>2, <2>3, Zenon DEF SetInv, SetNumbers
<1>12. SetFresh'
  <2> SUFFICES ASSUME NEW u \in Threads, th'[u].pc \in {"publish", "swap"}
               PROVE  /\ th'[u].s # 0 /\ bare # th'[u].s
                      /\ \A x \in H!Servers : srv'[x] # th'[u].s
                      /\ \A v \in Threads : th'[v].b # th'[u].s
                      /\ \A v \in Threads : v # u /\ th'[v].pc \in {"publish", "swap"} => th'[v].s # th'[u].s
                      /\ th'[u].pc = "publish" =>
                           srv'[th'[u].s] = 0 /\ n # th'[u].s /\ \A v \in Threads : th'[v].e # th'[u].s
    BY <1>2, Zenon DEF SetFresh
  <2>1. u # t /\ th'[u] = th[u]
    BY <1>4, <1>5, Zenon
  <2>2. th[u].s \in H!Servers /\ th[u].s # n
    BY <1>7, <2>1, MakerHasServer, Zenon
  <2>3. \A x \in H!Servers : srv'[x] # th[u].s
    BY <1>6, <2>1, <2>2 DEF SetInv, SetFresh
  <2>4. th[u].s # 0 /\ bare # th[u].s /\ \A v \in Threads : th'[v].b # th[u].s
    BY <1>4, <1>5, <2>1 DEF SetInv, SetFresh
  <2>5. \A v \in Threads : v # u /\ th'[v].pc \in {"publish", "swap"} => th'[v].s # th[u].s
    BY <1>4, <1>5, <2>1 DEF SetInv, SetFresh
  <2>6. th[u].pc = "publish" => srv'[th[u].s] = 0 /\ \A v \in Threads : th'[v].e # th[u].s
    BY <1>4, <1>5, <1>6, <2>1, <2>2, <2>4 DEF SetInv, SetFresh
  <2> QED  BY <2>1, <2>2, <2>3, <2>4, <2>5, <2>6, Zenon
<1>13. SetOneMesh'
  BY <1>2, <1>4, <1>5, Zenon DEF SetInv, SetOneMesh
<1>14. SetPlace' /\ SetOld'
  BY <1>2, <1>4, <1>5, <1>7, <1>8, Zenon DEF SetInv, SetPlace, SetOld, H!Rebinding
<1>15. SetStops'
  BY <1>2, <1>3, <1>4, <1>5 DEF SetInv, SetStops
<1>16. SetOwned'
  <2> SUFFICES ASSUME ~crossed', NEW x \in H!Servers, listener[x] # "closed" PROVE H!Owned(x)'
    BY <1>2, Zenon DEF SetOwned
  <2>1. H!Owned(x) /\ servers = 0
    BY <1>8, Zenon DEF SetInv, SetOwned
  <2>2. CASE x = n
    <3>1. n # 0
      BY DEF H!Servers
    <3> QED  BY <1>2, <1>6, <2>2, <3>1, Zenon DEF H!Owned
  <2>3. CASE x = bare
    BY <1>2, <2>3, Zenon DEF H!Owned
  <2>4. CASE \E u \in Threads : th[u].pc \in {"publish", "swap"} /\ x = th[u].s /\ x # n
    BY <1>1, <1>5, <2>4, Zenon DEF H!Owned
  <2>5. CASE \E u \in Threads : th[u].pc = "take" /\ x = srv[th[u].e]
    <3>1. PICK u \in Threads : th[u].pc = "take" /\ x = srv[th[u].e]
      BY <2>5, Zenon
    <3>2. u # t /\ th'[u] = th[u] /\ th[u].e \in H!Servers /\ th[u].e # n
      BY <1>2, <1>5, <1>7, <3>1, CallHasEntry, Zenon
    <3> QED  BY <1>6, <3>1, <3>2, Zenon DEF H!Owned
  <2>6. CASE \E u \in Threads : th[u].op = "stop" /\ x = th[u].b
    BY <1>3, <1>5, <2>6, Zenon DEF H!Owned
  <2> QED  BY <2>1, <2>2, <2>3, <2>4, <2>5, <2>6, Zenon DEF H!Owned
<1> QED  BY <1>10, <1>11, <1>12, <1>13, <1>14, <1>15, <1>16, Zenon DEF SetInv

\* rebindMesh puts its server into the entry: the entry's old server is closed.
LEMMA SwapStep ==
    ASSUME SetInv, NEW t \in Threads, H!Swap(t)
    PROVE  SetInv'
<1>1. th[t].pc = "swap"
  BY Zenon DEF H!Swap, H!At
<1>2. PICK n \in H!Servers : n = th[t].s
  BY <1>1, MakerHasServer, Zenon
<1>3. PICK e \in H!Servers : e = th[t].e
  BY <1>1, CallHasEntry, Zenon
<1>4. /\ srv' = [srv EXCEPT ![e] = n] /\ th' = [th EXCEPT ![t] = H!Idle]
      /\ UNCHANGED <<inst, httpReg, servers, bare, listener, made, httpAgent, crossed>>
  BY <1>2, <1>3, Zenon DEF H!Swap, H!Return, H!Become, H!objects, H!sockets, H!ghosts
<1>5. th' \in [Threads -> SetCall] /\ th'[t] = H!Idle /\ \A u \in Threads : u # t => th'[u] = th[u]
  BY <1>4, OneCall, IdleTyped, Zenon DEF SetInv
<1>6. /\ srv' \in [H!Servers -> H!Servers \cup {0}] /\ srv'[e] = n
      /\ \A x \in H!Servers : x # e => srv'[x] = srv[x]
  BY <1>4, Zenon DEF SetInv, SetTypes
<1>7. ~crossed => servers = e
  BY <1>1, <1>3, Zenon DEF SetInv, SetPlace, H!Rebinding
<1>8. listener[n] = "mesh"
  BY <1>1, <1>2, Zenon DEF SetInv, SetOneMesh
<1>9. SetTypes'
  BY <1>4, <1>5, <1>6, Zenon DEF SetInv, SetTypes
<1>10. SetNumbers'
  <2>1. made \in 0..MaxServers /\ n <= made /\ e <= made /\ 0 <= made
    BY <1>2, <1>3 DEF SetInv, SetTypes, SetNumbers
  <2>2. \A x \in H!Servers : srv'[x] <= made /\ (srv'[x] # 0 => x <= made)
    BY <1>6, <2>1, Zenon DEF SetInv, SetNumbers
  <2> QED  BY <1>4, <1>5, <2>1, <2>2, IdleTyped, Zenon DEF SetInv, SetNumbers
<1>11. SetFresh'
  <2> SUFFICES ASSUME NEW u \in Threads, th'[u].pc \in {"publish", "swap"}
               PROVE  /\ th'[u].s # 0 /\ bare # th'[u].s
                      /\ \A x \in H!Servers : srv'[x] # th'[u].s
                      /\ \A v \in Threads : th'[v].b # th'[u].s
                      /\ \A v \in Threads : v # u /\ th'[v].pc \in {"publish", "swap"} => th'[v].s # th'[u].s
                      /\ th'[u].pc = "publish" =>
                           srv'[th'[u].s] = 0 /\ servers # th'[u].s /\ \A v \in Threads : th'[v].e # th'[u].s
    BY <1>4, Zenon DEF SetFresh
  <2>1. u # t /\ th'[u] = th[u]
    BY <1>5, IdleTyped, Zenon
  <2>2. th[u].s \in H!Servers /\ th[u].s # n
    BY <1>1, <1>2, <2>1, MakerHasServer, Zenon DEF SetInv, SetFresh
  <2>3. \A x \in H!Servers : srv'[x] # th[u].s
    BY <1>6, <2>1, <2>2 DEF SetInv, SetFresh
  <2>4. th[u].s # 0 /\ bare # th[u].s /\ \A v \in Threads : th'[v].b # th[u].s
    BY <1>5, <2>1, IdleTyped DEF SetInv, SetFresh
  <2>5. \A v \in Threads : v # u /\ th'[v].pc \in {"publish", "swap"} => th'[v].s # th[u].s
    BY <1>5, <2>1, IdleTyped DEF SetInv, SetFresh
  <2>6. th[u].pc = "publish" => srv'[th[u].s] = 0 /\ servers # th[u].s /\ \A v \in Threads : th'[v].e # th[u].s
    BY <1>3, <1>5, <1>6, <2>1, <2>2, <2>4, IdleTyped DEF SetInv, SetFresh
  <2> QED  BY <2>1, <2>3, <2>4, <2>5, <2>6, Zenon
<1>12. SetOneMesh' /\ SetPlace'
  BY <1>4, <1>5, IdleTyped, Zenon DEF SetInv, SetOneMesh, SetPlace, H!Rebinding
<1>13. SetOld'
  <2> SUFFICES ASSUME NEW u \in Threads, th'[u].pc \in {"relisten", "swap"}, ~crossed,
                      NEW x \in H!Servers, x = srv'[th'[u].e]
               PROVE  listener[x] # "any"
    BY <1>4, Zenon DEF SetOld
  <2>1. th'[u] = th[u] /\ servers = th[u].e
    BY <1>5, IdleTyped, Zenon DEF SetInv, SetPlace, H!Rebinding
  <2> QED  BY <1>6, <1>7, <1>8, <2>1, Zenon
<1>14. SetStops'
  BY <1>4, <1>5, IdleTyped DEF SetInv, SetStops
<1>15. SetOwned'
  <2> SUFFICES ASSUME ~crossed, NEW x \in H!Servers, listener[x] # "closed" PROVE H!Owned(x)'
    BY <1>4, Zenon DEF SetOwned
  <2>1. H!Owned(x) /\ servers = e /\ e # 0
    BY <1>7, <1>8 DEF SetInv, SetOwned, H!Servers
  <2>2. CASE x = bare
    BY <1>4, <2>2, Zenon DEF H!Owned
  <2>3. CASE x = n
    BY <1>4, <1>6, <2>1, <2>3, Zenon DEF H!Owned
  <2>4. x # srv[servers]
    <3>1. srv[e] # n
      BY <1>1, <1>2, Zenon DEF SetInv, SetFresh
    <3>2. x = srv[e] => listener[x] = "mesh"
      BY <1>1, <1>3, Zenon DEF SetInv, SetOld, SetTypes
    <3> QED  BY <1>8, <2>1, <3>1, <3>2, Zenon DEF SetInv, SetOneMesh
  <2>5. CASE \E u \in Threads : th[u].pc \in {"publish", "swap"} /\ x = th[u].s /\ x # n
    BY <1>2, <1>5, <2>5, Zenon DEF H!Owned
  <2>6. CASE \E u \in Threads : th[u].pc = "take" /\ x = srv[th[u].e]
    <3>1. PICK u \in Threads : th[u].pc = "take" /\ x = srv[th[u].e]
      BY <2>6, Zenon
    <3>2. u # t /\ th'[u] = th[u] /\ th[u].e \in H!Servers /\ th[u].e # e
      BY <1>1, <1>5, <2>1, <3>1, CallHasEntry, Zenon DEF SetInv, SetPlace
    <3> QED  BY <1>6, <3>1, <3>2, Zenon DEF H!Owned
  <2>7. CASE \E u \in Threads : th[u].op = "stop" /\ x = th[u].b
    <3>1. th[t].op # "stop"
      BY <1>1, Zenon DEF SetInv, SetStops
    <3> QED  BY <1>5, <2>7, <3>1, Zenon DEF H!Owned
  <2> QED  BY <2>1, <2>2, <2>3, <2>4, <2>5, <2>6, <2>7, Zenon DEF H!Owned
<1> QED  BY <1>9, <1>10, <1>11, <1>12, <1>13, <1>14, <1>15, Zenon DEF SetInv

\* Where a call owns nothing.
Plain == {"remove", "drop", "add", "mesh", "listen", "undo", "check", "start", "lookup"}

\* How the calls' own steps change a call.
Goes(t, c) ==
  \/ c = H!Idle
  \/ c = H!Onward(t)
  \/ \E p \in Plain :
       \/ c = [th[t] EXCEPT !.pc = p]
       \/ \E n \in H!Retry :
            \/ c = [th[t] EXCEPT !.pc = p, !.next = n]
            \/ \E op \in {"connect", "disconnect"} : c = [H!Idle EXCEPT !.op = op, !.pc = p, !.next = n]
       \/ \E i \in H!Insts :
            c = [th[t] EXCEPT !.pc = p, !.i = i] \/ c = [H!Idle EXCEPT !.op = "reload", !.pc = p, !.i = i]
       \/ \E k \in {"mesh", "any"} : c = [th[t] EXCEPT !.pc = p, !.k = k]

\* The call stays one, and keeps what it knows or forgets it.
LEMMA GoesTyped ==
    ASSUME SetInv, NEW t \in Threads, th[t].op # "stop", NEW c, Goes(t, c)
    PROVE  /\ c \in SetCall /\ c.pc \in Plain \cup {"idle", "bare"} /\ c.op # "stop"
           /\ c.e \in {0, th[t].e} /\ c.s \in {0, th[t].s} /\ c.b \in {0, th[t].b}
<1>1. th[t] \in SetCall
  BY Zenon DEF SetInv, SetTypes
<1>2. CASE c = H!Idle
  BY <1>2, IdleTyped, Zenon
<1>3. CASE c = H!Onward(t)
  BY <1>1, <1>3, OnwardTyped, Zenon DEF Plain
<1>4. CASE \E p \in Plain : c = [th[t] EXCEPT !.pc = p]
  BY <1>1, <1>4 DEF SetCall, Plain
<1>5. CASE \E p \in Plain, n \in H!Retry : c = [th[t] EXCEPT !.pc = p, !.next = n]
  <2>1. PICK p \in Plain, n \in H!Retry : c = [th[t] EXCEPT !.pc = p, !.next = n]
    BY <1>5, Zenon
  <2>2. n \in {"idle", "add", "bare"} /\ th[t].op # "stop"
    BY Zenon DEF H!Retry
  <2> QED  BY <1>1, <2>1, <2>2, Zenon DEF SetCall, Plain
<1>6. CASE \E p \in Plain, n \in H!Retry, op \in {"connect", "disconnect"} :
             c = [H!Idle EXCEPT !.op = op, !.pc = p, !.next = n]
  <2>1. PICK p \in Plain, n \in H!Retry, op \in {"connect", "disconnect"} :
          c = [H!Idle EXCEPT !.op = op, !.pc = p, !.next = n]
    BY <1>6, Zenon
  <2>2. n \in {"idle", "add", "bare"} /\ op # "stop"
    BY <2>1, Zenon DEF H!Retry
  <2>3. H!Idle \in SetCall /\ H!Idle.e = 0 /\ H!Idle.s = 0 /\ H!Idle.b = 0
    BY IdleTyped DEF H!Idle
  <2> HIDE DEF H!Idle
  <2> QED  BY <2>1, <2>2, <2>3, Zenon DEF SetCall, Plain
<1>7. CASE \E p \in Plain, i \in H!Insts : c = [th[t] EXCEPT !.pc = p, !.i = i]
  <2>1. PICK p \in Plain, i \in H!Insts \cup {0} : c = [th[t] EXCEPT !.pc = p, !.i = i]
    BY <1>7, Zenon
  <2> QED  BY <1>1, <2>1, Zenon DEF SetCall, Plain
<1>8. CASE \E p \in Plain, i \in H!Insts : c = [H!Idle EXCEPT !.op = "reload", !.pc = p, !.i = i]
  BY <1>8, IdleTyped, ZenonT(40) DEF SetCall, Plain
<1>9. CASE \E p \in Plain, k \in {"mesh", "any"} : c = [th[t] EXCEPT !.pc = p, !.k = k]
  <2>1. PICK p \in Plain, k \in {"mesh", "any"} : c = [th[t] EXCEPT !.pc = p, !.k = k]
    BY <1>9, Zenon
  <2> QED  BY <1>1, <2>1, ZenonT(40) DEF SetCall, Plain
<1> QED  BY <1>2, <1>3, <1>4, <1>5, <1>6, <1>7, <1>8, <1>9, Zenon DEF Goes

\* Such a step keeps the invariant.
LEMMA CallGoes ==
    ASSUME SetInv, NEW t \in Threads, th[t].pc \notin {"take", "bare", "closeall", "publish", "swap"},
           UNCHANGED <<servers, srv, bare, listener, made, httpAgent, crossed>>,
           inst' \in [H!Insts -> {"unused", "down", "up", "closed"}], httpReg' \in H!Insts \cup {0},
           NEW c, th' = [th EXCEPT ![t] = c], Goes(t, c)
    PROVE  SetInv'
<1>1. th[t].op # "stop"
  BY Zenon DEF SetInv, SetStops
<1>2. /\ c \in SetCall /\ c.pc \in Plain \cup {"idle", "bare"} /\ c.op # "stop"
      /\ c.e \in {0, th[t].e} /\ c.s \in {0, th[t].s} /\ c.b \in {0, th[t].b}
  BY <1>1, GoesTyped, Zenon
<1>3. c.pc \notin {"take", "publish", "relisten", "swap", "old"}
  BY <1>2, Zenon DEF Plain
<1> QED  BY <1>1, <1>2, <1>3, CallStep, Zenon

\* Closing an instance, or none.
LEMMA CloseTyped ==
    ASSUME SetInv, NEW i \in H!Insts \cup {0}, H!Close(i)
    PROVE  inst' \in [H!Insts -> {"unused", "down", "up", "closed"}]
  BY Zenon DEF SetInv, SetTypes, H!Close

\* The map gives up its entry.
LEMMA LeavingStep ==
    ASSUME SetInv, NEW t \in Threads, H!Drop(t) \/ H!Stop(t)
    PROVE  SetInv'
<1>1. /\ th[t] \in SetCall /\ bare \in H!Servers \cup {0} /\ servers \in H!Servers \cup {0}
      /\ th[t].pc \in {"idle", "drop"} /\ th[t].op # "stop"
  BY Zenon DEF SetInv, SetTypes, SetStops, H!Drop, H!Stop, H!At
<1>2. /\ UNCHANGED <<inst, httpReg, srv, listener, made, httpAgent>> /\ servers' = 0
      /\ crossed' = (crossed \/ H!Crossing(servers))
  BY Zenon DEF H!Drop, H!Stop, H!objects, H!sockets
<1>3. CASE H!Drop(t) /\ servers = 0
  <2>1. PICK c \in SetCall : c = H!Onward(t)
    BY OnwardTyped, Zenon
  <2>2. th' = [th EXCEPT ![t] = c] /\ bare' = bare
    BY <1>3, <2>1, Zenon DEF H!Drop, H!Become
  <2>3. /\ c.pc \in {"idle", "add", "bare"} /\ c.e = 0 /\ c.s = 0 /\ c.b \in {0, th[t].b} /\ c.op # "stop"
    BY <1>1, <2>1, OnwardTyped, Zenon
  <2> QED  BY <1>1, <1>2, <1>3, <2>2, <2>3, LeaveSet, Zenon
<1>4. CASE H!Drop(t) /\ servers # 0
  <2>1. PICK c \in SetCall : c = [th[t] EXCEPT !.pc = "take", !.e = servers]
    BY <1>1, Zenon DEF SetCall
  <2>2. th' = [th EXCEPT ![t] = c] /\ bare' = bare
    BY <1>4, <2>1, Zenon DEF H!Drop, H!Become
  <2>3. c.pc = "take" /\ c.e = servers /\ c.s = th[t].s /\ c.b = th[t].b /\ c.op = th[t].op
    BY <1>1, <2>1 DEF SetCall
  <2> QED  BY <1>1, <1>2, <1>4, <2>2, <2>3, LeaveSet, Zenon
<1>5. CASE H!Stop(t)
  <2>1. PICK c \in SetCall :
          c = [H!Idle EXCEPT !.op = "stop", !.pc = IF servers = 0 THEN "bare" ELSE "take",
                             !.e = servers, !.b = bare, !.next = "bare"]
    <3>1. PICK p \in {"bare", "take"} : p = IF servers = 0 THEN "bare" ELSE "take"
      BY Zenon
    <3>2. PICK e \in H!Servers \cup {0}, b \in H!Servers \cup {0} : e = servers /\ b = bare
      BY <1>1, Zenon
    <3>3. [H!Idle EXCEPT !.op = "stop", !.pc = p, !.e = e, !.b = b, !.next = "bare"] \in SetCall
      BY IdleTyped, ZenonT(40) DEF SetCall
    <3> QED  BY <3>1, <3>2, <3>3, Zenon
  <2>2. th' = [th EXCEPT ![t] = c] /\ bare' = 0
    BY <1>5, <2>1, Zenon DEF H!Stop, H!Become
  <2>3. /\ c.pc = (IF servers = 0 THEN "bare" ELSE "take") /\ c.e = servers /\ c.s = 0 /\ c.b = bare
        /\ c.op = "stop" /\ c.next = "bare"
    BY <2>1, IdleTyped DEF SetCall
  <2> QED  BY <1>1, <1>2, <2>2, <2>3, LeaveSet, Zenon
<1> QED  BY <1>3, <1>4, <1>5, Zenon

\* A server is shut down.
LEMMA ShuttingStep ==
    ASSUME SetInv, NEW t \in Threads, H!Take(t) \/ H!ShutBare(t) \/ H!ShutOld(t)
    PROVE  SetInv'
<1>1. /\ th[t] \in SetCall /\ srv \in [H!Servers -> H!Servers \cup {0}]
      /\ httpAgent \in {"runs", "dead"}
  BY Zenon DEF SetInv, SetTypes
<1>2. CASE H!Take(t)
  <2>1. th[t].pc = "take"
    BY <1>2, Zenon DEF H!Take, H!At
  <2>2. PICK e \in H!Servers : e = th[t].e
    BY <2>1, CallHasEntry, Zenon
  <2>3. PICK n : n = srv[e]
    BY Zenon
  <2>4. PICK c \in SetCall : c = H!Onward(t)
    BY OnwardTyped, Zenon
  <2>5. /\ srv' = [srv EXCEPT ![e] = 0] /\ H!Shutdown(n) /\ th' = [th EXCEPT ![t] = c]
        /\ UNCHANGED <<inst, httpReg, servers, bare, made, httpAgent, crossed>>
    BY <1>2, <2>2, <2>3, <2>4, Zenon DEF H!Take, H!Become, H!objects, H!ghosts
  <2>6. /\ srv' \in [H!Servers -> H!Servers \cup {0}]
        /\ \A x \in H!Servers : srv'[x] = srv[x] \/ (srv[x] = n /\ srv'[x] = 0)
    BY <1>1, <2>3, <2>5, Zenon
  <2>7. \A u \in Threads : th[u].pc \in {"publish", "swap"} => th[u].s # n
    BY <2>3, Zenon DEF SetInv, SetFresh
  <2>8. /\ c.pc \in {"idle", "add", "bare"} /\ c.e = 0 /\ c.s = 0 /\ c.b \in {0, th[t].b}
        /\ c.op \in {"none", th[t].op}
        /\ th[t].op = "stop" => c.op = "stop" /\ c.pc = "bare" /\ c.b = th[t].b
    BY <2>1, <2>4, OnwardTyped, Zenon DEF SetInv, SetStops
  <2>9. c.op = "stop" => c.pc \in {"bare", "closeall"} /\ c.pc # "closeall"
    BY <2>8, Zenon
  <2> QED  BY <1>1, <2>1, <2>2, <2>3, <2>5, <2>6, <2>7, <2>8, <2>9, ShutStep, Zenon
<1>3. CASE H!ShutBare(t)
  <2>1. PICK n : n = th[t].b
    BY Zenon
  <2>2. PICK c \in SetCall : c = [th[t] EXCEPT !.pc = "closeall"]
    BY <1>1, Zenon DEF SetCall
  <2>3. /\ th[t].pc = "bare" /\ H!Shutdown(n) /\ th' = [th EXCEPT ![t] = c]
        /\ UNCHANGED <<inst, httpReg, servers, srv, bare, made, httpAgent, crossed>>
    BY <1>3, <2>1, <2>2, Zenon DEF H!ShutBare, H!At, H!Goto, H!Become, H!objects, H!set, H!ghosts
  <2>4. \A u \in Threads : th[u].pc \in {"publish", "swap"} => th[u].s # n
    BY <2>1, Zenon DEF SetInv, SetFresh
  <2>5. c.pc = "closeall" /\ c.e = th[t].e /\ c.s = th[t].s /\ c.b = th[t].b /\ c.op = th[t].op
    BY <1>1, <2>2, Zenon DEF SetCall
  <2>6. srv' \in [H!Servers -> H!Servers \cup {0}] /\ \A x \in H!Servers : srv'[x] = srv[x]
    BY <1>1, <2>3, Zenon
  <2> QED  BY <1>1, <2>1, <2>3, <2>4, <2>5, <2>6, ShutStep, Zenon
<1>4. CASE H!ShutOld(t)
  <2>1. PICK n : n = srv[th[t].e]
    BY Zenon
  <2>2. PICK c \in SetCall : c = [th[t] EXCEPT !.pc = "relisten"]
    BY <1>1, ZenonT(40) DEF SetCall, H!Rebinding
  <2>3. /\ th[t].pc = "old" /\ H!Shutdown(n) /\ th' = [th EXCEPT ![t] = c]
        /\ UNCHANGED <<inst, httpReg, servers, srv, bare, made, crossed>>
        /\ httpAgent' = IF srv[th[t].e] = 0 THEN "dead" ELSE httpAgent
    BY <1>4, <2>1, <2>2, Zenon DEF H!ShutOld, H!At, H!Goto, H!Become, H!objects, H!set
  <2>4. th[t].e \in H!Servers /\ th[t].op # "stop"
    BY <2>3, CallHasEntry, Zenon DEF SetInv, SetStops
  <2>5. \A u \in Threads : th[u].pc \in {"publish", "swap"} => th[u].s # n
    BY <2>1, <2>4, Zenon DEF SetInv, SetFresh
  <2>6. c.pc = "relisten" /\ c.e = th[t].e /\ c.s = th[t].s /\ c.b = th[t].b /\ c.op = th[t].op
    BY <1>1, <2>2, Zenon DEF SetCall
  <2>7. srv' \in [H!Servers -> H!Servers \cup {0}] /\ \A x \in H!Servers : srv'[x] = srv[x]
    BY <1>1, <2>3, Zenon
  <2>8. httpAgent' \in {"runs", "dead"}
    BY <1>1, <2>3, Zenon
  <2> QED  BY <1>1, <2>1, <2>3, <2>4, <2>5, <2>6, <2>7, <2>8, ShutStep, Zenon
<1> QED  BY <1>2, <1>3, <1>4, Zenon

\* The steps of the calls that own nothing.
LEMMA PlainStep ==
    ASSUME SetInv, NEW t \in Threads,
           \/ H!Disconnect(t) \/ H!Connect(t) \/ H!Remove(t) \/ H!Add(t) \/ H!StartInstance(t)
           \/ H!Undo(t) \/ H!Check(t) \/ (\E i \in H!Insts : H!Reload(t, i)) \/ H!StartNew(t)
    PROVE  SetInv'
<1>1. th[t] \in SetCall /\ inst \in [H!Insts -> {"unused", "down", "up", "closed"}] /\ httpReg \in H!Insts \cup {0}
  BY Zenon DEF SetInv, SetTypes
<1>2. th[t].i \in H!Insts \cup {0}
  BY <1>1, Zenon DEF SetCall
<1>3. UNCHANGED <<servers, srv, bare, listener, made, httpAgent, crossed>>
  BY Zenon DEF H!Disconnect, H!Connect, H!Remove, H!Add, H!StartInstance, H!Undo, H!Check, H!Reload, H!StartNew,
         H!set, H!sockets, H!ghosts
<1>4. th[t].pc \notin {"take", "bare", "closeall", "publish", "swap"}
  BY Zenon DEF H!Disconnect, H!Connect, H!Remove, H!Add, H!StartInstance, H!Undo, H!Check, H!Reload, H!StartNew,
         H!Begin, H!At
<1>5. inst' \in [H!Insts -> {"unused", "down", "up", "closed"}] /\ httpReg' \in H!Insts \cup {0}
  <2>1. CASE H!Disconnect(t) \/ H!Remove(t)
    BY <1>1, <2>1, CloseTyped, Zenon DEF H!Disconnect, H!Remove
  <2>2. CASE H!Connect(t)
    BY <1>1, <2>2, Zenon DEF H!Connect, H!objects
  <2>3. CASE H!Add(t)
    BY <1>1, <2>3, Zenon DEF H!Add
  <2>4. CASE H!StartInstance(t)
    BY <1>1, <2>4, Zenon DEF H!StartInstance
  <2>5. CASE H!Undo(t)
    BY <1>2, <2>5, CloseTyped, Zenon DEF H!Undo
  <2>6. CASE H!Check(t)
    BY <1>1, <1>2, <2>6, CloseTyped, Zenon DEF H!Check, H!objects
  <2>7. CASE \E i \in H!Insts : H!Reload(t, i)
    BY <1>1, <2>7, Zenon DEF H!Reload
  <2>8. CASE H!StartNew(t)
    BY <1>1, <2>8, Zenon DEF H!StartNew
  <2> QED  BY <2>1, <2>2, <2>3, <2>4, <2>5, <2>6, <2>7, <2>8, Zenon
<1>6. \E c : th' = [th EXCEPT ![t] = c] /\ Goes(t, c)
  <2>1. CASE H!Disconnect(t)
    BY <2>1, ZenonT(40) DEF H!Disconnect, H!Begin, H!Become, Goes, Plain, H!Retry
  <2>2. CASE H!Connect(t)
    BY <2>2, ZenonT(40) DEF H!Connect, H!Begin, H!Become, Goes, Plain, H!Retry
  <2>3. CASE H!Remove(t)
    BY <2>3, Zenon DEF H!Remove, H!Goto, H!Become, Goes, Plain
  <2>4. CASE H!Add(t)
    <3>1. PICK i \in H!Insts : th' = [th EXCEPT ![t] = [th[t] EXCEPT !.pc = "mesh", !.i = i]]
      BY <2>4, Zenon DEF H!Add, H!Become
    <3>2. Goes(t, [th[t] EXCEPT !.pc = "mesh", !.i = i])
      BY Zenon DEF Goes, Plain
    <3> QED  BY <3>1, <3>2, Zenon
  <2>5. CASE H!StartInstance(t)
    BY <2>5, Zenon DEF H!StartInstance, H!Become, Goes, Plain, H!Retry
  <2>6. CASE H!Undo(t)
    BY <2>6, Zenon DEF H!Undo, H!Become, Goes
  <2>7. CASE H!Check(t)
    <3>1. CASE H!Return(t)
      BY <3>1, Zenon DEF H!Return, H!Become, Goes
    <3>2. CASE \E n \in H!Retry :
                 H!Become(t, [H!Idle EXCEPT !.op = "connect", !.pc = "drop", !.next = n])
      <4>1. PICK n \in H!Retry :
              H!Become(t, [H!Idle EXCEPT !.op = "connect", !.pc = "drop", !.next = n])
        BY <3>2, Zenon
      <4> DEFINE c == [H!Idle EXCEPT !.op = "connect", !.pc = "drop", !.next = n]
      <4>2. "drop" \in Plain /\ "connect" \in {"connect", "disconnect"}
        BY Zenon DEF Plain
      <4>3. Goes(t, c)
        BY <4>2, Zenon DEF Goes
      <4>4. th' = [th EXCEPT ![t] = c]
        BY <4>1, ZenonT(40) DEF H!Become
      <4> QED  BY <4>3, <4>4, Zenon
    <3> QED  BY <2>7, <3>1, <3>2, Zenon DEF H!Check
  <2>8. CASE \E i \in H!Insts : H!Reload(t, i)
    BY <2>8, ZenonT(40) DEF H!Reload, H!Become, Goes, Plain
  <2>9. CASE H!StartNew(t)
    BY <2>9, Zenon DEF H!StartNew, H!Goto, H!Return, H!Become, Goes, Plain
  <2> QED  BY <2>1, <2>2, <2>3, <2>4, <2>5, <2>6, <2>7, <2>8, <2>9, Zenon
<1>7. PICK c : th' = [th EXCEPT ![t] = c] /\ Goes(t, c)
  BY <1>6, Zenon
<1> QED  BY <1>3, <1>4, <1>5, <1>7, CallGoes, Zenon

\* startMeshListener, startOSListener and rebindMesh ask for a listener, and get it or not.
LEMMA ListenStep ==
    ASSUME SetInv, NEW t \in Threads, H!Listen(t) \/ H!Relisten(t)
    PROVE  SetInv'
<1>1. th[t] \in SetCall /\ inst \in [H!Insts -> {"unused", "down", "up", "closed"}] /\ httpReg \in H!Insts \cup {0}
  BY Zenon DEF SetInv, SetTypes
<1>2. PICK k \in {"mesh", "any"} : k = th[t].k
  BY <1>1, Zenon DEF SetCall
<1>3. UNCHANGED <<inst, httpReg, servers, srv, bare, httpAgent, crossed>> /\ th[t].pc \in {"listen", "relisten"}
  BY Zenon DEF H!Listen, H!Relisten, H!At, H!objects, H!set
<1>4. CASE H!Listen(t) /\ H!Bind(t, th[t].k, "publish")
  <2>1. H!Bind(t, k, "publish") /\ th[t].pc = "listen"
    BY <1>2, <1>4, Zenon DEF H!Listen, H!At
  <2> QED  BY <1>3, <2>1, BindStep, Zenon
<1>5. CASE H!Relisten(t) /\ H!Bind(t, "mesh", "swap")
  <2>1. th[t].pc = "relisten"
    BY <1>5, Zenon DEF H!Relisten, H!At
  <2> QED  BY <1>3, <1>5, <2>1, BindStep, Zenon
<1>6. CASE \/ H!Listen(t) /\ ~H!Bind(t, th[t].k, "publish")
           \/ H!Relisten(t) /\ ~H!Bind(t, "mesh", "swap")
  <2>1. UNCHANGED <<listener, made>>
    BY <1>6, Zenon DEF H!Listen, H!Relisten, H!sockets
  <2>2. \E c : th' = [th EXCEPT ![t] = c] /\ Goes(t, c)
    <3>1. CASE H!Relisten(t)
      BY <1>6, <3>1, <1>3, Zenon DEF H!Relisten, H!Listen, H!At, H!Return, H!Become, Goes
    <3>2. CASE H!Listen(t)
      <4>1. ~H!Bind(t, th[t].k, "publish")
        BY <1>6, <3>2, Zenon DEF H!Listen, H!Relisten, H!At
      <4>2. CASE th[t].op = "reload"
        <5>1. H!Return(t)
          BY <3>2, <4>1, <4>2, Zenon DEF H!Listen
        <5> QED  BY <5>1, Zenon DEF H!Return, H!Become, Goes
      <4>3. CASE th[t].op # "reload" /\ th[t].k = "mesh"
        BY <3>2, <4>1, <4>3, ZenonT(40) DEF H!Listen, H!Become, Goes, Plain
      <4>4. CASE th[t].op # "reload" /\ th[t].k # "mesh"
        BY <3>2, <4>1, <4>4, Zenon DEF H!Listen, H!Goto, H!Become, Goes, Plain
      <4> QED  BY <4>2, <4>3, <4>4, Zenon
    <3> QED  BY <1>6, <3>1, <3>2, Zenon
  <2>3. PICK c : th' = [th EXCEPT ![t] = c] /\ Goes(t, c)
    BY <2>2, Zenon
  <2>4. /\ th[t].pc \notin {"take", "bare", "closeall", "publish", "swap"}
        /\ inst' \in [H!Insts -> {"unused", "down", "up", "closed"}] /\ httpReg' \in H!Insts \cup {0}
    BY <1>1, <1>3, Zenon
  <2> QED  BY <1>3, <2>1, <2>3, <2>4, CallGoes, Zenon
<1> QED  BY <1>4, <1>5, <1>6, Zenon

\* closeAll: the call of Stop ends.
LEMMA CloseAllStep ==
    ASSUME SetInv, NEW t \in Threads, H!CloseAll(t)
    PROVE  SetInv'
<1>1. httpReg \in H!Insts \cup {0}
  BY Zenon DEF SetInv, SetTypes
<1>2. inst' \in [H!Insts -> {"unused", "down", "up", "closed"}] /\ httpReg' \in H!Insts \cup {0}
  BY <1>1, CloseTyped, Zenon DEF H!CloseAll
<1>3. /\ th[t].pc = "closeall" /\ th' = [th EXCEPT ![t] = H!Idle]
      /\ UNCHANGED <<servers, srv, bare, listener, made, httpAgent, crossed>>
  BY Zenon DEF H!CloseAll, H!At, H!Return, H!Become, H!set, H!sockets, H!ghosts
<1>4. PICK c \in SetCall : c = H!Idle
  BY IdleTyped, Zenon
<1>5. c.pc = "idle" /\ c.op = "none" /\ c.e = 0 /\ c.s = 0 /\ c.b = 0
  BY <1>4, IdleTyped, Zenon
<1> QED  BY <1>2, <1>3, <1>4, <1>5, CallStep, Zenon

\* The lookup of rebindMesh: what it finds is the entry in the set.
LEMMA LookupStep ==
    ASSUME SetInv, NEW t \in Threads, H!Lookup(t)
    PROVE  SetInv'
<1>1. /\ th[t] \in SetCall /\ servers \in H!Servers \cup {0} /\ httpReg \in H!Insts \cup {0}
      /\ inst \in [H!Insts -> {"unused", "down", "up", "closed"}]
  BY Zenon DEF SetInv, SetTypes
<1>2. PICK p \in {"listen", "old"} : p = IF servers = 0 THEN "listen" ELSE "old"
  BY Zenon
<1>3. PICK c \in SetCall : c = [th[t] EXCEPT !.pc = p, !.e = servers]
  BY <1>1, <1>2, ZenonT(40) DEF SetCall, H!Rebinding
<1>4. /\ th[t].pc = "lookup" /\ th' = [th EXCEPT ![t] = c]
      /\ UNCHANGED <<inst, httpReg, servers, srv, bare, listener, made, httpAgent, crossed>>
  BY <1>2, <1>3, Zenon DEF H!Lookup, H!At, H!Become, H!objects, H!set, H!sockets, H!ghosts
<1>5. c.pc = p /\ c.e = servers /\ c.s = th[t].s /\ c.b = th[t].b /\ c.op = th[t].op
  BY <1>1, <1>3 DEF SetCall
<1>6. th[t].op # "stop"
  BY <1>4, Zenon DEF SetInv, SetStops
<1>7. inst' \in [H!Insts -> {"unused", "down", "up", "closed"}] /\ httpReg' \in H!Insts \cup {0}
  BY <1>1, <1>4, Zenon
<1>8. c.pc = "old" => servers # 0
  BY <1>2, <1>5, Zenon
<1> QED  BY <1>2, <1>4, <1>5, <1>6, <1>7, <1>8, CallStep, Zenon

\* Every step keeps the invariant.
LEMMA SetStep == SetInv /\ [H!Next]_(H!vars) => SetInv'
<1>1. ASSUME SetInv, UNCHANGED H!vars PROVE SetInv'
  BY <1>1 DEF H!vars, SetInv, SetTypes, SetNumbers, SetFresh, SetOneMesh, SetPlace, SetOld, SetStops, SetOwned, H!Owned
<1>2. ASSUME SetInv, H!Next PROVE SetInv'
  <2>1. PICK t \in Threads :
          \/ H!Drop(t) \/ H!Take(t) \/ H!ShutBare(t) \/ H!CloseAll(t)
          \/ H!Stop(t) \/ H!Disconnect(t) \/ H!Connect(t)
          \/ H!Remove(t) \/ H!Add(t) \/ H!StartInstance(t) \/ H!Undo(t) \/ H!Check(t)
          \/ H!Listen(t) \/ H!Publish(t)
          \/ \E i \in H!Insts : H!Reload(t, i)
          \/ H!StartNew(t) \/ H!Lookup(t) \/ H!ShutOld(t) \/ H!Relisten(t) \/ H!Swap(t)
    BY <1>2, Zenon DEF H!Next
  <2>2. CASE H!Drop(t) \/ H!Stop(t)
    BY <1>2, <2>2, LeavingStep, Zenon
  <2>3. CASE H!Take(t) \/ H!ShutBare(t) \/ H!ShutOld(t)
    BY <1>2, <2>3, ShuttingStep, Zenon
  <2>4. CASE \/ H!Disconnect(t) \/ H!Connect(t) \/ H!Remove(t) \/ H!Add(t) \/ H!StartInstance(t)
             \/ H!Undo(t) \/ H!Check(t) \/ (\E i \in H!Insts : H!Reload(t, i)) \/ H!StartNew(t)
    BY <1>2, <2>4, PlainStep, Zenon
  <2>5. CASE H!Listen(t) \/ H!Relisten(t)
    BY <1>2, <2>5, ListenStep
  <2>6. CASE H!CloseAll(t)
    BY <1>2, <2>6, CloseAllStep, Zenon
  <2>7. CASE H!Lookup(t)
    BY <1>2, <2>7, LookupStep
  <2>8. CASE H!Publish(t)
    BY <1>2, <2>8, PublishStep
  <2>9. CASE H!Swap(t)
    BY <1>2, <2>9, SwapStep
  <2> QED  BY <2>1, <2>2, <2>3, <2>4, <2>5, <2>6, <2>7, <2>8, <2>9, Zenon
<1> QED  BY <1>1, <1>2, Zenon

\* No server with an open listener is lost, whatever disconnects, failed connects, stops
\* and reloads interleave, for any number of calls, instances and servers: outside the two
\* crossings that the ghost marks it is in the set or in the hands of a call that will
\* publish it or shut it down (serverset.go).
THEOREM ServerSetSafe == H!Spec => [](H!TypeOK /\ NoLostServer)
  BY SetInit, SetStep, SetSays, PTL DEF H!Spec

-----------------------------------------------------------------------------
(* NebulaConfig.                                                           *)

CONSTANTS
  Routes, NoRoutes, Relays, MaxBoots, ConfigMaxChanges, ConfigMaxFaults

\* The empty list is a list of routes, and bounds.
ASSUME ConfigAssumption ==
  /\ NoRoutes \in Routes /\ MaxBoots \in Nat
  /\ ConfigMaxChanges \in Nat /\ ConfigMaxFaults \in Nat

VARIABLES
  routes, relays, yaml, routesFile, relayFile, mode, configRoot, configAgent, hb, rn, snap,
  start, live, astray, boots, configChanges, configFaults

N == INSTANCE NebulaConfig WITH
       MaxChanges <- ConfigMaxChanges, MaxFaults <- ConfigMaxFaults, root <- configRoot,
       agent <- configAgent, changes <- configChanges, faults <- configFaults

configVars == <<routes, relays, yaml, routesFile, relayFile, mode, configRoot, configAgent,
                hb, rn, snap, start, live, astray, boots, configChanges, configFaults>>

\* Once the start, the heartbeat and the renewal are through, Nebula runs
\* with the settings that are in the file, whatever the order in which they
\* read, wrote and reloaded: every writer starts Nebula again after its
\* write (routes.go 63, renew.go 630, client.go 217).  This is all the code
\* gives: `astray` excepts what followed a start that failed, or that loaded
\* the file while another one had loaded it and not yet bound the port, up to
\* the next start that had the port to itself.
RunsTheFile == N!RunsTheFile

Doc == [some : BOOLEAN, cfg : N!Settings]
Phases == {"down", "heal", "healWrite", "tun", "upgrade", "p2p", "p2pWrite", "up"}
Beats == {"idle", "rewrite", "truncate", "write"}
Pending == {"check", "cold", "hot"}
Starting == {"none", "wait"} \cup Pending \cup N!Binding

ConfigTypes ==
  /\ routes \in Routes /\ relays \subseteq Relays /\ routesFile \in Routes /\ relayFile \subseteq Relays
  /\ mode \in {"userspace", "kernel"} /\ configRoot \in BOOLEAN
  /\ yaml \in Doc /\ live \in Doc /\ snap \in [N!Starters -> N!Settings]
  /\ configAgent \in Phases /\ hb \in Beats /\ rn \in {"idle", "write"}
  /\ start \in [N!Starters -> Starting] /\ astray \in BOOLEAN
  /\ boots \in 0..MaxBoots /\ configChanges \in 0..ConfigMaxChanges /\ configFaults \in 0..ConfigMaxFaults

\* Nobody is between its write and the load that follows it.
Loaded ==
  configAgent = "up" /\ hb # "write" /\ yaml.some /\ \A x \in N!Starters : start[x] \notin Pending

\* One goroutine alone is about to start Nebula with the settings of the file.
Brings(x) ==
  start[x] \in N!Binding /\ snap[x] = yaml.cfg /\ \A y \in N!Starters \ {x} : start[y] \notin N!Binding

\* Then Nebula runs the file, or is about to; who has only read does not matter.
FollowsFile ==
  Loaded /\ ~astray
    => \/ live = yaml /\ \A x \in N!Starters : start[x] \notin N!Binding
       \/ \E x \in N!Starters : Brings(x)

\* The heartbeat goes on when its reload is through.
Turn == hb # "idle" => start["hb"] = "none"

ConfigInv == ConfigTypes /\ Turn /\ FollowsFile

\* What is read and written are settings.
LEMMA Patched ==
    ASSUME NEW c \in N!Settings, relayFile \subseteq Relays, routesFile \in Routes
    PROVE  /\ N!None \in N!Settings /\ N!Empty \in Doc /\ N!Some(c) \in Doc
           /\ [c EXCEPT !.port = "own"] \in N!Settings
           /\ [c EXCEPT !.routes = NoRoutes] \in N!Settings
           /\ [c EXCEPT !.routes = routesFile] \in N!Settings
           /\ N!Tuned(c) \in N!Settings
           /\ \A q \in N!Ports : [c EXCEPT !.port = N!PushedPort(q, c)] \in N!Settings
<1>1. N!None \in N!Settings
  BY ConfigAssumption, Zenon DEF N!None, N!Settings, N!Ports
<1>2. N!Empty \in Doc /\ N!Some(c) \in Doc
  BY <1>1, Zenon DEF N!Empty, N!Some, Doc
<1>3. /\ [c EXCEPT !.port = "own"] \in N!Settings
      /\ [c EXCEPT !.routes = NoRoutes] \in N!Settings
      /\ [c EXCEPT !.routes = routesFile] \in N!Settings
  BY ConfigAssumption, Zenon DEF N!Settings, N!Ports
<1>4. N!Tuned(c) \in N!Settings
  <2>1. N!WithRelays(c.relays) \in SUBSET (Relays \cup {N!Lighthouse})
    BY Zenon DEF N!WithRelays, N!MergeRelayList, N!Settings
  <2> QED  BY <2>1, Zenon DEF N!Tuned, N!Settings, N!Ports
<1>5. \A q \in N!Ports : [c EXCEPT !.port = N!PushedPort(q, c)] \in N!Settings
  <2>1. \A q \in N!Ports : N!PushedPort(q, c) \in N!Ports
    BY Zenon DEF N!PushedPort, N!Settings, N!Ports
  <2> QED  BY <2>1, Zenon DEF N!Settings
<1> QED  BY <1>1, <1>2, <1>3, <1>4, <1>5

\* A failure is counted.
LEMMA ConfigFault ==
    ASSUME configFaults \in 0..ConfigMaxFaults, N!Fault \/ UNCHANGED configFaults
    PROVE  configFaults' \in 0..ConfigMaxFaults
  BY ConfigAssumption DEF N!Fault

\* The invariant contains the type invariant of the module and the property.
LEMMA ConfigSays == ASSUME ConfigInv PROVE N!TypeOK /\ RunsTheFile
<1>1. N!TypeOK
  BY Zenon DEF ConfigInv, ConfigTypes, N!TypeOK, Doc, Phases, Beats, Starting, Pending
<1>2. RunsTheFile
  <2>1. {"none", "wait"} \cap (Pending \cup N!Binding) = {}
    BY DEF Pending, N!Binding
  <2> QED  BY <2>1, Zenon DEF ConfigInv, FollowsFile, Loaded, Brings, RunsTheFile, N!RunsTheFile
<1> QED  BY <1>1, <1>2, Zenon

\* An enrollment that has not been started.
LEMMA ConfigInit == N!Init => ConfigInv
<1> SUFFICES ASSUME N!Init PROVE ConfigInv
  OBVIOUS
<1>1. PICK p \in N!Ports : yaml = N!Some([routes |-> NoRoutes, port |-> p, relays |-> {N!Lighthouse}])
  BY Zenon DEF N!Init
<1>2. [routes |-> NoRoutes, port |-> p, relays |-> {N!Lighthouse}] \in N!Settings
  BY ConfigAssumption, Zenon DEF N!Settings
<1>3. /\ routes \in Routes /\ relays \subseteq Relays /\ routesFile \in Routes /\ relayFile \subseteq Relays
      /\ mode \in {"userspace", "kernel"} /\ configAgent = "down" /\ hb = "idle" /\ rn = "idle"
      /\ live = N!Empty /\ snap = N!NothingRead /\ start = N!NothingStarts
  BY ConfigAssumption, Zenon DEF N!Init
<1>4. configRoot \in BOOLEAN /\ astray \in BOOLEAN
  BY Zenon DEF N!Init
<1>5. boots \in 0..MaxBoots /\ configChanges \in 0..ConfigMaxChanges /\ configFaults \in 0..ConfigMaxFaults
  BY ConfigAssumption DEF N!Init
<1>6. yaml \in Doc /\ live \in Doc /\ N!None \in N!Settings
  BY <1>1, <1>2, <1>3, Patched, Zenon
<1>7. snap \in [N!Starters -> N!Settings] /\ start \in [N!Starters -> Starting]
  BY <1>3, <1>6, Zenon DEF N!NothingRead, N!NothingStarts, Starting
<1>8. ConfigTypes
  BY <1>3, <1>4, <1>5, <1>6, <1>7, Zenon DEF ConfigTypes, Phases, Beats
<1> QED  BY <1>3, <1>8, Zenon DEF ConfigInv, FollowsFile, Loaded, Turn

\* What leaves Nebula alone, and the file too when nobody is to load it.
LEMMA FollowsKept ==
    ASSUME FollowsFile, UNCHANGED <<start, live, astray>>, Loaded' => Loaded /\ UNCHANGED yaml,
           \A x \in N!Starters : start[x] \in N!Binding => snap'[x] = snap[x]
    PROVE  FollowsFile'
<1> SUFFICES ASSUME Loaded', ~astray' PROVE (\/ live = yaml /\ \A x \in N!Starters : start[x] \notin N!Binding
                                            \/ \E x \in N!Starters : Brings(x))'
  BY Zenon DEF FollowsFile
<1>1. CASE live = yaml /\ \A x \in N!Starters : start[x] \notin N!Binding
  BY <1>1, Zenon
<1>2. CASE \E x \in N!Starters : Brings(x)
  <2>1. PICK x \in N!Starters : Brings(x)
    BY <1>2, Zenon
  <2>2. Brings(x)'
    BY <2>1, Zenon DEF Brings
  <2> QED  BY <2>2, Zenon
<1> QED  BY <1>1, <1>2, Zenon DEF FollowsFile

\* The agent ends: a crash, or a writer that finds the file empty.
LEMMA AgentEnds ==
    ASSUME ConfigInv, N!Exit, mode' \in {"userspace", "kernel"},
           UNCHANGED <<routes, relays, yaml, routesFile, relayFile, configRoot, boots, configChanges, configFaults>>
    PROVE  ConfigInv'
<1>1. N!None \in N!Settings /\ N!Empty \in Doc
  BY Patched, Zenon DEF ConfigInv, ConfigTypes, Doc
<1>2. snap' \in [N!Starters -> N!Settings] /\ start' \in [N!Starters -> Starting] /\ astray' \in BOOLEAN
  BY <1>1, Zenon DEF N!Exit, N!NothingRead, N!NothingStarts, Starting
<1>3. configAgent' = "down" /\ hb' = "idle" /\ rn' = "idle" /\ live' = N!Empty
  BY Zenon DEF N!Exit
<1>4. ConfigTypes'
  BY <1>1, <1>2, <1>3, Zenon DEF ConfigInv, ConfigTypes, Phases, Beats
<1> QED  BY <1>3, <1>4, Zenon DEF ConfigInv, FollowsFile, Loaded, Turn

\* A writer has read the settings.
LEMMA ReadTyped ==
    ASSUME ConfigInv, NEW x \in N!Starters, snap' = [snap EXCEPT ![x] = yaml.cfg] \/ snap' = [snap EXCEPT ![x] = N!None]
    PROVE  snap' \in [N!Starters -> N!Settings]
<1>1. yaml.cfg \in N!Settings
  BY Zenon DEF ConfigInv, ConfigTypes, Doc
<1>2. N!None \in N!Settings
  BY <1>1, Patched, Zenon DEF ConfigInv, ConfigTypes
<1> QED  BY <1>1, <1>2, Zenon DEF ConfigInv, ConfigTypes

\* A writer replaces the file, fails to, or has nothing to write.
LEMMA ReplaceTyped ==
    ASSUME ConfigInv, NEW x \in N!Starters, NEW c \in N!Settings, N!Replace(x, c) \/ N!NothingChanged(x)
    PROVE  yaml' \in Doc /\ configFaults' \in 0..ConfigMaxFaults /\ snap' \in [N!Starters -> N!Settings]
<1>1. snap' = [snap EXCEPT ![x] = N!None]
  BY Zenon DEF N!Replace, N!NothingChanged
<1>2. N!Some(c) \in Doc /\ yaml \in Doc
  BY Patched, Zenon DEF ConfigInv, ConfigTypes
<1>3. yaml' \in Doc
  BY <1>2, Zenon DEF N!Replace, N!NothingChanged
<1>4. configFaults' \in 0..ConfigMaxFaults
  BY ConfigFault, Zenon DEF N!Replace, N!NothingChanged, ConfigInv, ConfigTypes
<1> QED  BY <1>1, <1>3, <1>4, ReadTyped, Zenon

\* The start of the agent.
LEMMA BootStep == ASSUME ConfigInv, N!Boot PROVE ConfigInv'
<1>1. /\ UNCHANGED <<routes, relays, yaml, routesFile, relayFile, mode, hb, rn, snap, start, live, astray, configChanges, configFaults>>
      /\ boots < MaxBoots /\ boots' = boots + 1 /\ configAgent' = "heal"
  BY Zenon DEF N!Boot, N!server, N!files, N!nebula
<1>2. configRoot' \in BOOLEAN
  BY Zenon DEF N!Boot, ConfigInv, ConfigTypes
<1>3. boots' \in 0..MaxBoots
  BY <1>1, ConfigAssumption DEF ConfigInv, ConfigTypes
<1>4. ConfigTypes'
  BY <1>1, <1>2, <1>3, Zenon DEF ConfigInv, ConfigTypes, Phases
<1> QED  BY <1>1, <1>4, Zenon DEF ConfigInv, FollowsFile, Loaded, Turn

\* The heal of the port.
LEMMA HealStep == ASSUME ConfigInv, N!Heal \/ N!HealWrite PROVE ConfigInv'
<1>1. /\ UNCHANGED <<routes, relays, routesFile, relayFile, mode, configRoot, hb, rn, start, live, astray, boots, configChanges>>
      /\ configAgent' \in {"tun", "healWrite"}
  BY Zenon DEF N!Heal, N!HealWrite, N!server, N!files, N!nebula
<1>2. configFaults' \in 0..ConfigMaxFaults
  <2>1. N!Fault \/ UNCHANGED configFaults
    BY Zenon DEF N!Heal, N!HealWrite
  <2> QED  BY <2>1, ConfigFault, Zenon DEF ConfigInv, ConfigTypes
<1>3. snap' \in [N!Starters -> N!Settings]
  <2>1. UNCHANGED snap \/ snap' = [snap EXCEPT !["agent"] = yaml.cfg] \/ snap' = [snap EXCEPT !["agent"] = N!None]
    BY Zenon DEF N!Heal, N!HealWrite
  <2> QED  BY <2>1, ReadTyped, Zenon DEF N!Starters, ConfigInv, ConfigTypes
<1>4. yaml' \in Doc
  <2>1. UNCHANGED yaml \/ yaml' = N!Empty \/ yaml' = N!Some([snap["agent"] EXCEPT !.port = "own"])
    BY Zenon DEF N!Heal, N!HealWrite
  <2>2. snap["agent"] \in N!Settings
    BY Zenon DEF ConfigInv, ConfigTypes, N!Starters
  <2>3. [snap["agent"] EXCEPT !.port = "own"] \in N!Settings /\ N!Empty \in Doc
    BY <2>2, Patched, Zenon DEF ConfigInv, ConfigTypes
  <2>4. N!Some([snap["agent"] EXCEPT !.port = "own"]) \in Doc
    BY <2>3, Patched, Zenon DEF ConfigInv, ConfigTypes
  <2> QED  BY <2>1, <2>3, <2>4, Zenon DEF ConfigInv, ConfigTypes
<1>5. ConfigTypes'
  BY <1>1, <1>2, <1>3, <1>4, Zenon DEF ConfigInv, ConfigTypes, Phases
<1> QED  BY <1>1, <1>5, Zenon DEF ConfigInv, FollowsFile, Loaded, Turn

\* The check of the mode.
LEMMA TunModeStep == ASSUME ConfigInv, N!ReadTunMode PROVE ConfigInv'
<1>1. UNCHANGED <<routes, relays, routesFile, relayFile, configRoot, boots, configChanges, configFaults>>
  BY Zenon DEF N!ReadTunMode, N!server, N!files
<1>2. mode' \in {"userspace", "kernel"}
  BY Zenon DEF N!ReadTunMode, ConfigInv, ConfigTypes
<1>3. CASE N!Panic
  BY <1>1, <1>2, <1>3, AgentEnds, Zenon DEF N!Panic
<1>4. CASE ~N!Panic
  <2>1. /\ configAgent' \in {"upgrade", "p2p"} /\ UNCHANGED <<yaml, start, live, astray, hb, rn>>
        /\ UNCHANGED snap \/ snap' = [snap EXCEPT !["agent"] = yaml.cfg]
    BY <1>4, Zenon DEF N!ReadTunMode, N!Read, N!nebula
  <2>2. snap' \in [N!Starters -> N!Settings]
    BY <2>1, ReadTyped, Zenon DEF N!Starters, ConfigInv, ConfigTypes
  <2>3. ConfigTypes'
    BY <1>1, <1>2, <2>1, <2>2, Zenon DEF ConfigInv, ConfigTypes, Phases
  <2> QED  BY <2>1, <2>3, Zenon DEF ConfigInv, FollowsFile, Loaded, Turn
<1> QED  BY <1>3, <1>4, Zenon

\* The upgrade and ensureP2PConfig write the file before Nebula starts.
LEMMA InstanceWritesStep == ASSUME ConfigInv, N!UpgradeTunMode \/ N!EnsureP2PConfig PROVE ConfigInv'
<1>1. /\ UNCHANGED <<routes, relays, routesFile, relayFile, mode, configRoot, hb, rn, live, astray, boots, configChanges>>
      /\ \/ configAgent' = "p2p" /\ UNCHANGED start
         \/ configAgent' = "up" /\ start' = [start EXCEPT !["agent"] = "cold"]
  BY Zenon DEF N!UpgradeTunMode, N!EnsureP2PConfig, N!StartMesh, N!server, N!files, N!nebula
<1>2. snap["agent"] \in N!Settings
  BY Zenon DEF ConfigInv, ConfigTypes, N!Starters
<1>3. [snap["agent"] EXCEPT !.routes = NoRoutes] \in N!Settings /\ N!Tuned(snap["agent"]) \in N!Settings
  BY <1>2, Patched, Zenon DEF ConfigInv, ConfigTypes
<1>4. PICK c \in N!Settings : N!Replace("agent", c) \/ N!NothingChanged("agent")
  BY <1>3, Zenon DEF N!UpgradeTunMode, N!EnsureP2PConfig
<1>5. yaml' \in Doc /\ configFaults' \in 0..ConfigMaxFaults /\ snap' \in [N!Starters -> N!Settings]
  BY <1>4, ReplaceTyped, Zenon DEF N!Starters
<1>6. start \in [N!Starters -> Starting] /\ "agent" \in N!Starters /\ "hb" \in N!Starters /\ "cold" \in Starting
  BY Zenon DEF ConfigInv, ConfigTypes, N!Starters, Starting, Pending
<1>7. /\ start' \in [N!Starters -> Starting] /\ start'["hb"] = start["hb"]
      /\ configAgent' = "up" => start'["agent"] = "cold"
  BY <1>1, <1>6
<1>8. configAgent' \in Phases
  BY <1>1, Zenon DEF Phases
<1>9. ConfigTypes'
  BY <1>1, <1>5, <1>7, <1>8, Zenon DEF ConfigInv, ConfigTypes
<1>10. ~Loaded'
  BY <1>6, <1>7, Zenon DEF Loaded, Pending
<1>11. Turn'
  BY <1>1, <1>7, Zenon DEF ConfigInv, Turn
<1> QED  BY <1>9, <1>10, <1>11, Zenon DEF ConfigInv, FollowsFile

\* Reading before a write, by the start, the heartbeat and the renewal.
LEMMA ReadsStep == ASSUME ConfigInv, N!EnsureRead \/ N!RewriteRead \/ N!RenewRead PROVE ConfigInv'
<1>1. UNCHANGED <<routes, relays, routesFile, relayFile, mode, configRoot, boots, configChanges>>
  BY Zenon DEF N!EnsureRead, N!RewriteRead, N!RenewRead, N!server, N!files
<1>2. CASE N!Panic /\ UNCHANGED configFaults
  BY <1>1, <1>2, AgentEnds, Zenon DEF N!Panic, ConfigInv, ConfigTypes
<1>3. CASE ~(N!Panic /\ UNCHANGED configFaults)
  <2>1. /\ UNCHANGED <<yaml, start, live, astray>>
        /\ \/ /\ configAgent' = "p2pWrite" /\ UNCHANGED <<hb, rn>>
              /\ snap' = [snap EXCEPT !["agent"] = yaml.cfg]
           \/ /\ hb = "rewrite" /\ hb' \in {"truncate", "idle"} /\ UNCHANGED <<configAgent, rn>>
              /\ UNCHANGED snap \/ snap' = [snap EXCEPT !["hb"] = yaml.cfg]
           \/ /\ rn = "idle" /\ start["rn"] = "none" /\ rn' = "write" /\ UNCHANGED <<configAgent, hb>>
              /\ snap' = [snap EXCEPT !["rn"] = yaml.cfg]
    BY <1>3, Zenon DEF N!EnsureRead, N!RewriteRead, N!RenewRead, N!Read, N!nebula
  <2>2. snap' \in [N!Starters -> N!Settings]
    <3>1. \E x \in N!Starters : UNCHANGED snap \/ snap' = [snap EXCEPT ![x] = yaml.cfg]
      BY <2>1, Zenon DEF N!Starters
    <3> QED  BY <3>1, ReadTyped, Zenon DEF ConfigInv, ConfigTypes
  <2>3. configFaults' \in 0..ConfigMaxFaults
    <3>1. N!Fault \/ UNCHANGED configFaults
      BY Zenon DEF N!EnsureRead, N!RewriteRead, N!RenewRead
    <3> QED  BY <3>1, ConfigFault, Zenon DEF ConfigInv, ConfigTypes
  <2>4. configAgent' \in Phases /\ hb' \in Beats /\ rn' \in {"idle", "write"}
    BY <2>1, Zenon DEF ConfigInv, ConfigTypes, Phases, Beats
  <2>5. ConfigTypes'
    BY <1>1, <2>1, <2>2, <2>3, <2>4, Zenon DEF ConfigInv, ConfigTypes
  <2>6. Turn'
    BY <2>1, Zenon DEF ConfigInv, Turn
  <2>7. FollowsFile'
    <3>1. CASE configAgent' = "p2pWrite"
      BY <3>1, Zenon DEF FollowsFile, Loaded
    <3>2. CASE configAgent' # "p2pWrite"
      <4>1. UNCHANGED configAgent /\ (hb = "write" => hb' = "write")
        BY <2>1, <3>2, Zenon
      <4>2. Loaded' => Loaded
        BY <2>1, <4>1, Zenon DEF Loaded
      <4>3. \A x \in N!Starters : start[x] \in N!Binding => snap'[x] = snap[x]
        <5>1. "none" \notin N!Binding
          BY DEF N!Binding
        <5>2. PICK y \in N!Starters : start[y] = "none" /\ (UNCHANGED snap \/ snap' = [snap EXCEPT ![y] = yaml.cfg])
          BY <2>1, <3>2, Zenon DEF ConfigInv, Turn, N!Starters
        <5> QED  BY <5>1, <5>2, Zenon DEF ConfigInv, ConfigTypes
      <4> QED  BY <2>1, <4>2, <4>3, FollowsKept, Zenon DEF ConfigInv
    <3> QED  BY <3>1, <3>2, Zenon
  <2> QED  BY <2>5, <2>6, <2>7, Zenon DEF ConfigInv
<1> QED  BY <1>2, <1>3, Zenon

\* One goroutine goes on with its start of Nebula.
LEMMA StartTyped ==
    ASSUME ConfigInv, NEW x \in N!Starters, NEW p \in Starting, start' = [start EXCEPT ![x] = p], hb' = hb,
           x = "hb" => start[x] # "none"
    PROVE  start' \in [N!Starters -> Starting] /\ Turn'
<1>1. start' \in [N!Starters -> Starting]
  BY Zenon DEF ConfigInv, ConfigTypes
<1>2. "hb" \in N!Starters
  BY DEF N!Starters
<1>3. start'["hb"] = IF x = "hb" THEN p ELSE start["hb"]
  BY <1>2, Zenon DEF ConfigInv, ConfigTypes
<1> QED  BY <1>1, <1>3, Zenon DEF ConfigInv, Turn

\* A start has failed.
LEMMA FailedStep ==
    ASSUME ConfigInv, NEW x \in N!Starters, start[x] # "none", N!StartFails(x), N!Fault \/ UNCHANGED configFaults,
           UNCHANGED <<routes, relays, yaml, routesFile, relayFile, mode, configRoot, configAgent, hb, rn, boots,
                       configChanges>>
    PROVE  ConfigInv'
<1>1. configFaults' \in 0..ConfigMaxFaults
  BY ConfigFault, Zenon DEF ConfigInv, ConfigTypes
<1>2. snap' \in [N!Starters -> N!Settings]
  BY ReadTyped, Zenon DEF N!StartFails
<1>3. PICK q \in N!AfterFailure(x) :
        start' = [v \in N!Starters |-> IF v = "retry" THEN q ELSE IF v = x THEN "none" ELSE start[v]]
  BY Zenon DEF N!StartFails
<1>4. "retry" \in N!Starters /\ "hb" \in N!Starters /\ "hb" # "retry"
  BY DEF N!Starters
<1>5. q \in Starting
  BY <1>3, <1>4, Zenon DEF N!AfterFailure, ConfigInv, ConfigTypes, Starting
<1>6. start' \in [N!Starters -> Starting]
  BY <1>3, <1>5, Zenon DEF ConfigInv, ConfigTypes, Starting
<1>7. Turn'
  BY <1>3, <1>4, Zenon DEF ConfigInv, Turn
<1>8. astray' \in BOOLEAN /\ astray' /\ UNCHANGED live
  BY Zenon DEF N!StartFails
<1>9. ConfigTypes'
  BY <1>1, <1>2, <1>6, <1>8, Zenon DEF ConfigInv, ConfigTypes
<1> QED  BY <1>7, <1>8, <1>9, Zenon DEF ConfigInv, FollowsFile

\* A reload takes the service out.
LEMMA TakeOutStep == ASSUME ConfigInv, NEW x \in N!Starters, N!CheckSvc(x) PROVE ConfigInv'
<1>1. /\ UNCHANGED <<routes, relays, yaml, routesFile, relayFile, mode, configRoot, configAgent, hb, rn, snap, astray,
                     boots, configChanges, configFaults>>
      /\ start[x] = "check" /\ live' \in {live, N!Empty}
  BY Zenon DEF N!CheckSvc, N!server, N!files, N!procs
<1>2. PICK p \in {"hot", "cold"} : start' = [start EXCEPT ![x] = p]
  BY Zenon DEF N!CheckSvc
<1>3. p \in Starting /\ p \in Pending
  BY <1>2, Zenon DEF Starting, Pending
<1>4. start' \in [N!Starters -> Starting] /\ Turn'
  BY <1>1, <1>2, <1>3, StartTyped
<1>5. live' \in Doc
  BY <1>1, Patched, Zenon DEF ConfigInv, ConfigTypes, Doc
<1>6. ConfigTypes'
  BY <1>1, <1>4, <1>5, Zenon DEF ConfigInv, ConfigTypes
<1>7. start'[x] = p
  BY <1>2, Zenon DEF ConfigInv, ConfigTypes
<1> QED  BY <1>3, <1>4, <1>6, <1>7, Zenon DEF ConfigInv, FollowsFile, Loaded

\* It loads the file.
LEMMA LoadStep == ASSUME ConfigInv, NEW x \in N!Starters, N!LoadConfig(x) PROVE ConfigInv'
<1>1. /\ UNCHANGED <<routes, relays, yaml, routesFile, relayFile, mode, configRoot, configAgent, hb, rn, boots,
                     configChanges, configFaults>>
      /\ start[x] \in {"cold", "hot"}
  BY Zenon DEF N!LoadConfig, N!server, N!files, N!procs
<1>2. CASE N!StartFails(x)
  BY <1>1, <1>2, FailedStep, Zenon
<1>3. CASE ~N!StartFails(x)
  <2>1. /\ snap' = [snap EXCEPT ![x] = yaml.cfg] /\ UNCHANGED live
        /\ astray' = \E v \in N!Starters \ {x} : start[v] \in N!Binding
    BY <1>3, Zenon DEF N!LoadConfig
  <2>2. PICK p \in N!Binding : start' = [start EXCEPT ![x] = p]
    BY <1>3, Zenon DEF N!LoadConfig, N!Binding
  <2>3. p \in Starting
    BY <2>2, Zenon DEF Starting
  <2>4. start' \in [N!Starters -> Starting] /\ Turn'
    BY <1>1, <2>2, <2>3, StartTyped
  <2>5. snap' \in [N!Starters -> N!Settings]
    BY <2>1, ReadTyped, Zenon
  <2>6. astray' \in BOOLEAN
    BY <2>1, Zenon
  <2>7. ConfigTypes'
    BY <1>1, <2>1, <2>4, <2>5, <2>6, Zenon DEF ConfigInv, ConfigTypes
  <2>8. start'[x] = p /\ snap'[x] = yaml.cfg /\ \A y \in N!Starters \ {x} : start'[y] = start[y]
    BY <2>1, <2>2, Zenon DEF ConfigInv, ConfigTypes
  <2>9. ~astray' => Brings(x)'
    BY <1>1, <2>1, <2>8, Zenon DEF Brings
  <2> QED  BY <2>4, <2>7, <2>9, Zenon DEF ConfigInv, FollowsFile
<1> QED  BY <1>2, <1>3, Zenon

\* It binds the port, or fails to.
LEMMA MainStep == ASSUME ConfigInv, NEW x \in N!Starters, N!NebulaMain(x) PROVE ConfigInv'
<1>1. /\ UNCHANGED <<routes, relays, yaml, routesFile, relayFile, mode, configRoot, configAgent, hb, rn, boots,
                     configChanges>>
      /\ start[x] \in N!Binding
  BY Zenon DEF N!NebulaMain, N!server, N!files, N!procs
<1>2. "none" \notin N!Binding /\ "none" \in Starting /\ "none" \notin Pending /\ N!Binding \cap Pending = {}
  BY DEF N!Binding, Starting, Pending
<1>3. CASE N!StartFails(x)
  <2>1. N!Fault \/ UNCHANGED configFaults
    BY Zenon DEF N!NebulaMain
  <2> QED  BY <1>1, <1>2, <1>3, <2>1, FailedStep, Zenon
<1>4. CASE ~N!StartFails(x)
  <2>1. /\ live' = N!Some(snap[x]) /\ start' = [start EXCEPT ![x] = "none"]
        /\ snap' = [snap EXCEPT ![x] = N!None] /\ UNCHANGED <<astray, configFaults>>
    BY <1>4, Zenon DEF N!NebulaMain
  <2>2. start' \in [N!Starters -> Starting] /\ Turn'
    BY <1>1, <1>2, <2>1, StartTyped, Zenon
  <2>3. snap' \in [N!Starters -> N!Settings] /\ snap[x] \in N!Settings
    BY <2>1, ReadTyped, Zenon DEF ConfigInv, ConfigTypes
  <2>4. live' \in Doc
    BY <2>1, <2>3, Patched, Zenon DEF ConfigInv, ConfigTypes
  <2>5. ConfigTypes'
    BY <1>1, <2>1, <2>2, <2>3, <2>4, Zenon DEF ConfigInv, ConfigTypes
  <2>6. start'[x] = "none" /\ \A y \in N!Starters \ {x} : start'[y] = start[y]
    BY <2>1, Zenon DEF ConfigInv, ConfigTypes
  <2>7. ASSUME Loaded', ~astray' PROVE live' = yaml' /\ \A y \in N!Starters : start'[y] \notin N!Binding
    <3>1. Loaded /\ ~astray
      BY <1>1, <1>2, <2>1, <2>6, <2>7, Zenon DEF Loaded
    <3>2. PICK y \in N!Starters : Brings(y)
      BY <1>1, <3>1, Zenon DEF ConfigInv, FollowsFile
    <3>3. Brings(x)
      BY <1>1, <3>2, Zenon DEF Brings
    <3>4. \A z \in N!Starters : start'[z] \notin N!Binding
      BY <1>2, <2>6, <3>3, Zenon DEF Brings
    <3>5. yaml.some = TRUE
      BY <3>1, Zenon DEF Loaded, ConfigInv, ConfigTypes, Doc
    <3>6. yaml = [some |-> TRUE, cfg |-> snap[x]]
      BY <3>3, <3>5 DEF Brings, ConfigInv, ConfigTypes, Doc
    <3> QED  BY <1>1, <2>1, <3>4, <3>6, Zenon DEF N!Some
  <2> QED  BY <2>2, <2>5, <2>7, Zenon DEF ConfigInv, FollowsFile
<1> QED  BY <1>3, <1>4, Zenon

\* The retry wakes up.
LEMMA RetryStep == ASSUME ConfigInv, N!RetryReload PROVE ConfigInv'
<1>1. /\ UNCHANGED <<routes, relays, yaml, routesFile, relayFile, mode, configRoot, configAgent, hb, rn, snap, live,
                     astray, boots, configChanges, configFaults>>
      /\ start["retry"] = "wait"
  BY Zenon DEF N!RetryReload, N!server, N!files, N!procs
<1>2. PICK p \in {"none", "cold"} : start' = [start EXCEPT !["retry"] = p]
  BY Zenon DEF N!RetryReload
<1>3. /\ "retry" \in N!Starters /\ p \in Starting /\ "wait" \notin Pending \cup N!Binding
      /\ "none" \notin Pending \cup N!Binding /\ "cold" \in Pending /\ "retry" # "hb"
  BY <1>2 DEF N!Starters, Starting, Pending, N!Binding
<1>4. start' \in [N!Starters -> Starting] /\ Turn'
  BY <1>1, <1>2, <1>3, StartTyped, Zenon
<1>5. ConfigTypes'
  BY <1>1, <1>4, Zenon DEF ConfigInv, ConfigTypes
<1>6. start'["retry"] = p /\ \A y \in N!Starters \ {"retry"} : start'[y] = start[y]
  BY <1>2, <1>3, Zenon DEF ConfigInv, ConfigTypes
<1>7. CASE p = "cold"
  BY <1>3, <1>4, <1>5, <1>6, <1>7, Zenon DEF ConfigInv, FollowsFile, Loaded
<1>8. CASE p = "none"
  <2>1. \A y \in N!Starters :
          /\ start[y] \in N!Binding => start'[y] \in N!Binding
          /\ start[y] \notin N!Binding => start'[y] \notin N!Binding
          /\ start'[y] \notin Pending => start[y] \notin Pending
    <3> SUFFICES ASSUME NEW y \in N!Starters
                 PROVE  /\ start[y] \in N!Binding => start'[y] \in N!Binding
                        /\ start[y] \notin N!Binding => start'[y] \notin N!Binding
                        /\ start'[y] \notin Pending => start[y] \notin Pending
      BY Zenon
    <3>1. CASE y = "retry"
      BY <1>1, <1>3, <1>6, <1>8, <3>1, Zenon
    <3>2. CASE y # "retry"
      BY <1>6, <3>2, Zenon
    <3> QED  BY <3>1, <3>2, Zenon
  <2>2. Loaded' => Loaded
    BY <1>1, <2>1, Zenon DEF Loaded
  <2>3. \A y \in N!Starters : Brings(y) => Brings(y)'
    <3> SUFFICES ASSUME NEW y \in N!Starters, Brings(y) PROVE Brings(y)'
      BY Zenon
    <3>1. start'[y] \in N!Binding /\ \A z \in N!Starters \ {y} : start'[z] \notin N!Binding
      BY <2>1, Zenon DEF Brings
    <3> QED  BY <1>1, <3>1, Zenon DEF Brings
  <2>4. ASSUME Loaded', ~astray'
        PROVE  (\/ live = yaml /\ \A y \in N!Starters : start[y] \notin N!Binding
                \/ \E y \in N!Starters : Brings(y))'
    <3>1. Loaded /\ ~astray
      BY <1>1, <2>2, <2>4, Zenon
    <3>2. CASE live = yaml /\ \A y \in N!Starters : start[y] \notin N!Binding
      BY <1>1, <2>1, <3>2, Zenon
    <3>3. CASE \E y \in N!Starters : Brings(y)
      BY <2>3, <3>3, Zenon
    <3> QED  BY <3>1, <3>2, <3>3, Zenon DEF ConfigInv, FollowsFile
  <2> QED  BY <1>4, <1>5, <2>4, Zenon DEF ConfigInv, FollowsFile
<1> QED  BY <1>2, <1>7, <1>8, Zenon

\* The heartbeat's answer.
LEMMA AnswerStep == ASSUME ConfigInv, N!HeartbeatAnswer PROVE ConfigInv'
<1>1. /\ UNCHANGED <<routes, relays, yaml, mode, configRoot, configAgent, rn, snap, start, live, astray, boots,
                     configChanges>>
      /\ hb = "idle" /\ start["hb"] = "none" /\ relayFile' = relays
  BY Zenon DEF N!HeartbeatAnswer, N!server, N!nebula, N!SaveRelayState
<1>2. routesFile' \in {routes, routesFile} /\ hb' \in {"idle", "rewrite"} /\ (N!Fault \/ UNCHANGED configFaults)
  BY <1>1, Zenon DEF N!HeartbeatAnswer, N!PersistRoutes
<1>3. configFaults' \in 0..ConfigMaxFaults
  BY <1>2, ConfigFault, ZenonT(40) DEF ConfigInv, ConfigTypes
<1>4. hb' \in Beats /\ routesFile' \in Routes /\ relayFile' \subseteq Relays
  BY <1>1, <1>2, Zenon DEF Beats, ConfigInv, ConfigTypes
<1>5. ConfigTypes'
  BY <1>1, <1>3, <1>4, Zenon DEF ConfigInv, ConfigTypes
<1>6. Loaded' => Loaded
  BY <1>1, <1>2, Zenon DEF Loaded
<1>7. FollowsFile'
  BY <1>1, <1>6, FollowsKept, Zenon DEF ConfigInv
<1> QED  BY <1>1, <1>5, <1>7, Zenon DEF ConfigInv, Turn

\* The heartbeat truncates the file.
LEMMA TruncateStep == ASSUME ConfigInv, N!RewriteTruncate PROVE ConfigInv'
<1>1. /\ UNCHANGED <<routes, relays, routesFile, relayFile, mode, configRoot, configAgent, rn, start, live, astray, boots,
                     configChanges>>
      /\ hb = "truncate"
  BY Zenon DEF N!RewriteTruncate, N!server, N!files, N!nebula
<1>2. \/ hb' = "write" /\ yaml' = N!Empty /\ UNCHANGED snap
      \/ hb' = "idle" /\ UNCHANGED yaml /\ snap' = [snap EXCEPT !["hb"] = N!None]
  BY Zenon DEF N!RewriteTruncate
<1>3. configFaults' \in 0..ConfigMaxFaults
  <2>1. N!Fault \/ UNCHANGED configFaults
    BY Zenon DEF N!RewriteTruncate
  <2> QED  BY <2>1, ConfigFault, Zenon DEF ConfigInv, ConfigTypes
<1>4. snap' \in [N!Starters -> N!Settings]
  BY <1>2, ReadTyped, Zenon DEF N!Starters, ConfigInv, ConfigTypes
<1>5. yaml' \in Doc
  BY <1>2, Patched, Zenon DEF ConfigInv, ConfigTypes, Doc
<1>6. hb' \in Beats
  BY <1>2, Zenon DEF Beats
<1>7. ConfigTypes'
  BY <1>1, <1>3, <1>4, <1>5, <1>6, Zenon DEF ConfigInv, ConfigTypes
<1>8. start["hb"] = "none" /\ "none" \notin N!Binding /\ "write" # "truncate"
  BY <1>1 DEF ConfigInv, Turn, N!Binding
<1>9. \A x \in N!Starters : start[x] \in N!Binding => snap'[x] = snap[x]
  BY <1>2, <1>8, Zenon DEF ConfigInv, ConfigTypes
<1>10. Loaded' => Loaded /\ UNCHANGED yaml
  BY <1>1, <1>2, <1>8, Zenon DEF Loaded
<1>11. FollowsFile'
  BY <1>1, <1>9, <1>10, FollowsKept, Zenon DEF ConfigInv
<1> QED  BY <1>1, <1>7, <1>8, <1>11, Zenon DEF ConfigInv, Turn

\* The heartbeat writes the file, and the renewal does; both reload.
LEMMA WroteStep ==
    ASSUME ConfigInv, NEW x \in {"hb", "rn"}, start' = [start EXCEPT ![x] = "check"], hb' = "idle" \/ (x = "rn" /\ hb' = hb),
           rn' \in {"idle", "write"}, yaml' \in Doc, snap' \in [N!Starters -> N!Settings],
           configFaults' \in 0..ConfigMaxFaults,
           UNCHANGED <<routes, relays, routesFile, relayFile, mode, configRoot, configAgent, live, astray, boots,
                       configChanges>>
    PROVE  ConfigInv'
<1>1. x \in N!Starters /\ "hb" \in N!Starters /\ "check" \in Pending /\ "check" \in Starting /\ "idle" \in Beats
  BY Zenon DEF N!Starters, Pending, Starting, Beats
<1>2. start' \in [N!Starters -> Starting] /\ start'[x] = "check" /\ ("hb" # x => start'["hb"] = start["hb"])
  BY <1>1, Zenon DEF ConfigInv, ConfigTypes
<1>3. hb' \in Beats
  BY <1>1, Zenon DEF ConfigInv, ConfigTypes
<1>4. ConfigTypes'
  BY <1>2, <1>3, Zenon DEF ConfigInv, ConfigTypes
<1>5. Turn'
  <2>1. "rn" # "hb"
    OBVIOUS
  <2> QED  BY <1>2, <2>1, Zenon DEF ConfigInv, Turn
<1>6. ~Loaded'
  BY <1>1, <1>2, Zenon DEF Loaded
<1> QED  BY <1>4, <1>5, <1>6, Zenon DEF ConfigInv, FollowsFile

LEMMA RewriteStep == ASSUME ConfigInv, N!RewriteWrite PROVE ConfigInv'
<1>1. /\ UNCHANGED <<routes, relays, routesFile, relayFile, mode, configRoot, configAgent, rn, live, astray, boots,
                     configChanges, configFaults>>
      /\ hb' = "idle" /\ start' = [start EXCEPT !["hb"] = "check"] /\ snap' = [snap EXCEPT !["hb"] = N!None]
  BY Zenon DEF N!RewriteWrite, N!AfterRewrite, N!server, N!files
<1>2. snap' \in [N!Starters -> N!Settings]
  BY <1>1, ReadTyped, Zenon DEF N!Starters
<1>3. yaml' \in Doc
  <2>1. yaml' \in {yaml, N!Some([snap["hb"] EXCEPT !.routes = routesFile])}
    BY Zenon DEF N!RewriteWrite
  <2>2. snap["hb"] \in N!Settings
    BY Zenon DEF ConfigInv, ConfigTypes, N!Starters
  <2>3. [snap["hb"] EXCEPT !.routes = routesFile] \in N!Settings
    BY <2>2, Patched, Zenon DEF ConfigInv, ConfigTypes
  <2>4. N!Some([snap["hb"] EXCEPT !.routes = routesFile]) \in Doc
    BY <2>3, Patched, Zenon DEF ConfigInv, ConfigTypes
  <2> QED  BY <2>1, <2>4, Zenon DEF ConfigInv, ConfigTypes
<1> QED  BY <1>1, <1>2, <1>3, WroteStep, Zenon DEF ConfigInv, ConfigTypes

\* The renewal writes the file, or has nothing to write.
LEMMA RenewWriteStep == ASSUME ConfigInv, N!RenewWrite \/ N!RenewCert PROVE ConfigInv'
<1>1. /\ UNCHANGED <<routes, relays, routesFile, relayFile, mode, configRoot, configAgent, hb, live, astray, boots,
                     configChanges>>
      /\ rn' = "idle" /\ start' = [start EXCEPT !["rn"] = "check"]
  BY Zenon DEF N!RenewWrite, N!RenewCert, N!server, N!files, N!procs
<1>2. CASE N!RenewCert
  <2>1. UNCHANGED <<yaml, snap, configFaults>>
    BY <1>2, Zenon DEF N!RenewCert
  <2> QED  BY <1>1, <2>1, WroteStep, Zenon DEF ConfigInv, ConfigTypes
<1>3. CASE N!RenewWrite
  <2>1. snap["rn"] \in N!Settings
    BY Zenon DEF ConfigInv, ConfigTypes, N!Starters
  <2>2. \A q \in N!Ports : [snap["rn"] EXCEPT !.port = N!PushedPort(q, snap["rn"])] \in N!Settings
    BY <2>1, Patched, Zenon DEF ConfigInv, ConfigTypes
  <2>3. PICK c \in N!Settings : N!Replace("rn", c) \/ N!NothingChanged("rn")
    BY <1>3, <2>1, <2>2, Zenon DEF N!RenewWrite
  <2>4. yaml' \in Doc /\ configFaults' \in 0..ConfigMaxFaults /\ snap' \in [N!Starters -> N!Settings]
    BY <2>3, ReplaceTyped, Zenon DEF N!Starters
  <2> QED  BY <1>1, <2>4, WroteStep, Zenon
<1> QED  BY <1>2, <1>3, Zenon

\* The administrator, and a crash.
LEMMA ConfigOutsideStep == ASSUME ConfigInv, N!Admin \/ N!Crash PROVE ConfigInv'
<1>1. CASE N!Crash
  BY <1>1, AgentEnds, Zenon DEF N!Crash, N!server, N!files, ConfigInv, ConfigTypes
<1>2. CASE N!Admin
  <2>1. /\ UNCHANGED <<yaml, routesFile, relayFile, mode, configRoot, configAgent, hb, rn, snap, start, live, astray, boots, configFaults>>
        /\ routes' \in Routes /\ relays' \subseteq Relays
    BY <1>2, Zenon DEF N!Admin, N!files, N!procs, N!nebula, ConfigInv, ConfigTypes
  <2>2. configChanges' \in 0..ConfigMaxChanges
    BY <1>2, ConfigAssumption DEF N!Admin, ConfigInv, ConfigTypes
  <2>3. ConfigTypes'
    BY <2>1, <2>2, ZenonT(40) DEF ConfigInv, ConfigTypes
  <2>4. FollowsFile'
    BY <2>1, FollowsKept, Zenon DEF ConfigInv, Loaded
  <2> QED  BY <2>1, <2>3, <2>4, Zenon DEF ConfigInv, Turn
<1> QED  BY <1>1, <1>2, Zenon

\* Nebula runs the file once the writers are through and the last start of Nebula neither
\* failed nor overlapped another, for any routes, relays, starts, changes and failures (ensureP2PConfig, applyRoutesUpdate, applyNebulaConfigUpdate).
THEOREM ConfigSafe == N!Spec => [](N!TypeOK /\ RunsTheFile)
<1>1. N!Init => ConfigInv
  BY ConfigInit
<1>2. ConfigInv /\ [N!Next]_(N!vars) => ConfigInv'
  <2>1. ASSUME ConfigInv, UNCHANGED N!vars PROVE ConfigInv'
    BY <2>1, Zenon DEF N!vars, ConfigInv, ConfigTypes, FollowsFile, Loaded, Brings, Turn
  <2>s. ASSUME ConfigInv, NEW x \in N!Starters, N!CheckSvc(x) \/ N!LoadConfig(x) \/ N!NebulaMain(x)
        PROVE  ConfigInv'
    BY <2>s, TakeOutStep, LoadStep, MainStep, Zenon
  <2>2. ASSUME ConfigInv, N!Next PROVE ConfigInv'
    BY <2>2, BootStep, HealStep, TunModeStep, InstanceWritesStep, ReadsStep, <2>s, RetryStep,
       AnswerStep, TruncateStep, RewriteStep, RenewWriteStep, ConfigOutsideStep, ZenonT(40) DEF N!Next
  <2> QED  BY <2>1, <2>2
<1>3. ConfigInv => N!TypeOK /\ RunsTheFile
  BY ConfigSays, Zenon
<1> QED  BY <1>1, <1>2, <1>3, PTL DEF N!Spec

-----------------------------------------------------------------------------
(* Portmap.                                                                *)

CONSTANTS
  Offers, Private, PortmapMaxMoves, PortmapMaxFaults, MaxReloads

\* Routers are numbered from 1, as are the LAN addresses they share; 0 stands for none
\* and 9 for no watcher.
ASSUME PortmapAssumption ==
  /\ 1 \in DOMAIN Offers /\ DOMAIN Offers \cap {0, 9} = {}
  /\ PortmapMaxMoves \in Nat /\ PortmapMaxFaults \in Nat /\ MaxReloads \in Nat

VARIABLES
  host, gwip, pub, portmapMoves, portmapFaults, m, call, got, h, ctl, rl, seen, stop

P == INSTANCE Portmap WITH
       MaxMoves <- PortmapMaxMoves, MaxFaults <- PortmapMaxFaults, moves <- portmapMoves,
       faults <- portmapFaults

portmapVars == <<host, gwip, pub, portmapMoves, portmapFaults, m, call, got, h, ctl, rl,
                 seen, stop>>

\* When the loop waits and no reload is under way, what Nebula advertises includes the
\* mapping that Current() reports: a Control that came up while the handler was
\* running has it from the handler or from reinjectPortmapAddr.
CurrentAdvertised == P!CurrentAdvertised

\* A mapping of a router the host has left is given up, if the host stays away: because
\* the watcher asks for a new probe or, when a reload made it miss the move, because
\* three refreshes fail.
MappingFollowsHost == P!MappingFollowsHost

\* The manager.
Manager == [pc : {"off", "probe", "handle", "inject", "wait", "refresh", "backoff", "exit"},
            gw : P!Routers \cup {0}, svc : P!Routers \cup {0},
            winner : P!Protocols \cup {"none"}, current : P!Addrs,
            failures : 0..2, reprobe : BOOLEAN, cancelled : BOOLEAN]

\* The arguments of the change handler.
Handler == [old : P!Addrs, cur : P!Addrs, gen : 0..MaxReloads + 1]

\* Nebula's Control.
Control == [gen : 1..MaxReloads + 1, up : BOOLEAN, adv : SUBSET (P!Addrs \ {P!NoAddr})]

\* A reload.
Reloading == [pc : {"idle", "down", "up", "inject"}, cur : P!Addrs]

\* The types of the variables.
PortmapTypes ==
  /\ host \in P!Routers \cup {0} /\ gwip \in [P!Routers -> P!Routers]
  /\ pub \in [P!Routers -> P!Addrs \ {P!NoAddr}]
  /\ portmapMoves \in 0..PortmapMaxMoves /\ portmapFaults \in 0..PortmapMaxFaults
  /\ m \in Manager /\ call \in [P!Protocols -> P!Stages] /\ got \in [P!Protocols -> P!Addrs]
  /\ h \in Handler /\ ctl \in Control /\ rl \in Reloading
  /\ seen \in P!Routers \cup {0, 9} /\ stop \in {"no", "waiting", "stopped"}

\* A conversation that has got that far has an address.
Obtained ==
  \A p \in P!Protocols :
    call[p] = "done" \/ (p = "natpmp" /\ call[p] = "map") => got[p] # P!NoAddr

\* There is a mapping exactly where the loop looks after one.
Mapped ==
  /\ m.winner = "none" <=> m.current = P!NoAddr
  /\ m.pc \in {"handle", "inject", "wait", "refresh"} => m.winner # "none"
  /\ m.pc \in {"off", "probe", "backoff"} => m.winner = "none"
  /\ m.pc \in {"handle", "inject"} => h.cur = m.current

\* The Control the handler holds is not newer than the instance's.
Generations ==
  /\ h.gen <= ctl.gen
  /\ rl.pc = "down" => ctl.gen <= MaxReloads
  /\ rl.pc = "inject" => rl.cur # P!NoAddr

\* A mapping that the handler will not inject is advertised, or the reload is still
\* to read it, or to inject it.
Injected ==
  m.pc \in {"wait", "refresh"} \/ (m.pc = "inject" /\ h.gen # ctl.gen) =>
    (ctl.up => m.current \in ctl.adv \/ rl.pc = "up" \/ (rl.pc = "inject" /\ rl.cur = m.current))

\* The inductive invariant.
PortmapInv == PortmapTypes /\ Obtained /\ Mapped /\ Generations /\ Injected

\* The invariant implies the type invariant and the property.
LEMMA PortmapSays == PortmapInv => P!TypeOK /\ CurrentAdvertised
<1> SUFFICES ASSUME PortmapInv PROVE P!TypeOK /\ CurrentAdvertised
  BY Zenon
<1>1. pub \in [P!Routers -> P!Addrs]
  BY Zenon DEF PortmapInv, PortmapTypes
<1>2. (m.winner = "none") = (m.current = P!NoAddr)
  BY Zenon DEF PortmapInv, Mapped
<1>3. P!TypeOK
  BY <1>1, <1>2, Zenon DEF PortmapInv, PortmapTypes, Manager, Handler, Control, Reloading, P!TypeOK
<1>4. CurrentAdvertised
  BY Zenon DEF PortmapInv, Injected, CurrentAdvertised, P!CurrentAdvertised
<1> QED  BY <1>3, <1>4, Zenon

\* The invariant holds at first.
LEMMA PortmapInit == P!Init => PortmapInv
<1> SUFFICES ASSUME P!Init PROVE PortmapInv
  OBVIOUS
<1>1. \A r \in P!Routers : <<r, 1>> \in P!Addrs \ {P!NoAddr}
  BY DEF P!Addrs, P!NoAddr
<1>2. P!NoAddr \in P!Addrs
  BY Zenon DEF P!Addrs
<1>3. pub \in [P!Routers -> P!Addrs \ {P!NoAddr}]
  BY <1>1, Zenon DEF P!Init
<1>4. gwip \in [P!Routers -> P!Routers] /\ host \in P!Routers \cup {0} /\ seen \in P!Routers \cup {0, 9}
  BY PortmapAssumption, Zenon DEF P!Init, P!Routers
<1>5. m \in Manager /\ h \in Handler /\ ctl \in Control /\ rl \in Reloading
  BY <1>2, PortmapAssumption DEF P!Init, P!NoChange, Manager, Handler, Control, Reloading
<1>6. /\ portmapMoves \in 0..PortmapMaxMoves /\ portmapFaults \in 0..PortmapMaxFaults
      /\ call \in [P!Protocols -> P!Stages] /\ got \in [P!Protocols -> P!Addrs] /\ stop = "no"
  BY <1>2, PortmapAssumption DEF P!Init, P!Stages
<1>7. Obtained /\ Mapped /\ Generations /\ Injected
  BY DEF P!Init, P!NoChange, Obtained, Mapped, Generations, Injected
<1> QED  BY <1>3, <1>4, <1>5, <1>6, <1>7, Zenon DEF PortmapInv, PortmapTypes

\* A lost answer or a timeout is counted.
LEMMA FaultTyped ==
    ASSUME PortmapInv, P!Fault \/ UNCHANGED portmapFaults PROVE portmapFaults' \in 0..PortmapMaxFaults
<1>1. portmapFaults \in 0..PortmapMaxFaults /\ PortmapMaxFaults \in Nat
  BY PortmapAssumption, Zenon DEF PortmapInv, PortmapTypes
<1> QED  BY <1>1 DEF P!Fault

\* The gateway of the moment is an address of the model.
LEMMA GatewayTyped == ASSUME PortmapInv PROVE P!DiscoverGateway \in P!Routers \cup {0}
  BY Zenon DEF P!DiscoverGateway, PortmapInv, PortmapTypes

\* Steps beside the mapping: the loop stays where it is, with the mapping it has.
LEMMA BesideStep ==
    ASSUME PortmapInv, PortmapTypes', Obtained', UNCHANGED <<h, ctl, rl>>,
           m'.pc = m.pc, m'.winner = m.winner, m'.current = m.current
    PROVE  PortmapInv'
<1>1. Mapped'
  BY Zenon DEF PortmapInv, Mapped
<1>2. Generations' /\ Injected'
  BY Zenon DEF PortmapInv, Generations, Injected
<1> QED  BY <1>1, <1>2, Zenon DEF PortmapInv

\* The world's moves, the watcher's ticks and the request to stop.
LEMMA OutsideOfLoop == ASSUME PortmapInv, P!Move \/ P!WatcherTick \/ P!StopPortmap PROVE PortmapInv'
<1>1. UNCHANGED <<gwip, portmapFaults, call, got, h, ctl, rl>>
  BY Zenon DEF P!Move, P!WatcherTick, P!StopPortmap, P!net
<1>2. portmapMoves' \in 0..PortmapMaxMoves
  <2>1. portmapMoves \in 0..PortmapMaxMoves /\ PortmapMaxMoves \in Nat
    BY PortmapAssumption, Zenon DEF PortmapInv, PortmapTypes
  <2>2. portmapMoves' = portmapMoves \/ (portmapMoves < PortmapMaxMoves /\ portmapMoves' = portmapMoves + 1)
    BY Zenon DEF P!Move, P!WatcherTick, P!StopPortmap, P!net
  <2> QED  BY <2>1, <2>2
<1>3. m' \in Manager /\ m'.pc = m.pc /\ m'.winner = m.winner /\ m'.current = m.current
  <2>1. m \in Manager
    BY Zenon DEF PortmapInv, PortmapTypes
  <2>2. CASE P!Move
    BY <2>1, <2>2, Zenon DEF P!Move
  <2>3. CASE P!WatcherTick
    <3>1. m' = [m EXCEPT !.reprobe = m.pc # "off"] /\ (m.pc # "off") \in BOOLEAN
      BY <2>3, Zenon DEF P!WatcherTick, P!ReProbe
    <3> QED  BY <2>1, <3>1, Zenon DEF Manager
  <2>4. CASE P!StopPortmap
    <3>1. m' = [m EXCEPT !.cancelled = TRUE]
      BY <2>4, Zenon DEF P!StopPortmap
    <3> QED  BY <2>1, <3>1, Zenon DEF Manager
  <2> QED  BY <2>2, <2>3, <2>4, Zenon
<1>4. /\ host' \in P!Routers \cup {0} /\ seen' \in P!Routers \cup {0, 9}
      /\ stop' \in {"no", "waiting", "stopped"}
  BY Zenon DEF PortmapInv, PortmapTypes, P!Move, P!WatcherTick, P!StopPortmap, P!net
<1>5. pub' \in [P!Routers -> P!Addrs \ {P!NoAddr}]
  <2>1. pub \in [P!Routers -> P!Addrs \ {P!NoAddr}]
    BY Zenon DEF PortmapInv, PortmapTypes
  <2>2. \A r \in P!Routers : <<r, 2>> \in P!Addrs \ {P!NoAddr}
    BY DEF P!Addrs, P!NoAddr
  <2>3. pub' = pub \/ \E r \in P!Routers : pub' = [pub EXCEPT ![r] = <<r, 2>>]
    BY Zenon DEF P!Move, P!WatcherTick, P!StopPortmap, P!net
  <2> QED  BY <2>1, <2>2, <2>3, Zenon
<1>6. PortmapTypes' /\ Obtained'
  BY <1>1, <1>2, <1>3, <1>4, <1>5, Zenon DEF PortmapInv, PortmapTypes, Obtained
<1> QED  BY <1>1, <1>3, <1>6, BesideStep, Zenon

\* A conversation goes on with an address, or fails.
LEMMA TalkStep ==
    ASSUME PortmapInv, NEW p \in P!Protocols, NEW c \in P!Stages, NEW a \in P!Addrs,
           call' = [call EXCEPT ![p] = c], got' = [got EXCEPT ![p] = a],
           c = "done" \/ (p = "natpmp" /\ c = "map") => a # P!NoAddr,
           portmapFaults' \in 0..PortmapMaxFaults,
           NEW v \in P!Routers \cup {0}, m' = [m EXCEPT !.svc = v],
           UNCHANGED <<host, gwip, pub, portmapMoves, h, ctl, rl, seen, stop>>
    PROVE  PortmapInv'
<1>1. m \in Manager /\ call \in [P!Protocols -> P!Stages] /\ got \in [P!Protocols -> P!Addrs]
  BY Zenon DEF PortmapInv, PortmapTypes
<1>2. m' \in Manager /\ m'.pc = m.pc /\ m'.winner = m.winner /\ m'.current = m.current
  BY <1>1, Zenon DEF Manager
<1>3. call' \in [P!Protocols -> P!Stages] /\ got' \in [P!Protocols -> P!Addrs]
  BY <1>1, Zenon
<1>4. PortmapTypes'
  BY <1>2, <1>3, Zenon DEF PortmapInv, PortmapTypes
<1>5. Obtained'
  BY <1>1, Zenon DEF PortmapInv, Obtained
<1> QED  BY <1>2, <1>4, <1>5, BesideStep, Zenon

\* The clients' requests.
LEMMA MappingStep == ASSUME PortmapInv, P!Mapping PROVE PortmapInv'
<1>1. UNCHANGED <<host, gwip, pub, portmapMoves, h, ctl, rl, seen, stop>>
  BY Zenon DEF P!Mapping, P!QueryExternalAddr, P!RequestMap, P!PCPMap, P!ResolveService, P!AddMapping, P!GetExternalIP,
         P!net
<1>2. /\ m \in Manager /\ call \in [P!Protocols -> P!Stages] /\ got \in [P!Protocols -> P!Addrs]
      /\ pub \in [P!Routers -> P!Addrs \ {P!NoAddr}] /\ gwip \in [P!Routers -> P!Routers]
  BY Zenon DEF PortmapInv, PortmapTypes
<1>3. P!NoAddr \in P!Addrs /\ m.svc \in P!Routers \cup {0} /\ m = [m EXCEPT !.svc = m.svc]
  BY <1>2, Zenon DEF P!Addrs, Manager
<1>4. {"natpmp", "pcp", "upnp"} = P!Protocols /\ {"map", "add", "ip", "done", "failed"} \subseteq P!Stages
  BY Zenon DEF P!Protocols, P!Stages
<1>5. \A p, ip : P!RoundTrip(p, ip) \subseteq P!Routers
  BY Zenon DEF P!RoundTrip, P!Reached
<1>6. \A p \in P!Protocols : got = [got EXCEPT ![p] = got[p]]
  BY <1>2, Zenon
<1>7. ASSUME NEW p \in P!Protocols, NEW ip, P!Unanswered(p, ip) PROVE PortmapInv'
  <2>1. portmapFaults' \in 0..PortmapMaxFaults
    BY <1>7, FaultTyped, Zenon DEF P!Unanswered
  <2>2. call' = [call EXCEPT ![p] = "failed"] /\ got' = [got EXCEPT ![p] = P!NoAddr] /\ m' = [m EXCEPT !.svc = m.svc]
    BY <1>3, <1>7, Zenon DEF P!Unanswered, P!Fails, P!Advance
  <2> QED  BY <1>1, <1>3, <1>4, <2>1, <2>2, TalkStep, Zenon
<1>8. CASE UNCHANGED <<portmapFaults, m>> /\ P!Mapping
  <2>1. portmapFaults' \in 0..PortmapMaxFaults /\ m' = [m EXCEPT !.svc = m.svc]
    BY <1>3, <1>8, FaultTyped, Zenon
  <2>2. CASE P!QueryExternalAddr
    <3>1. ASSUME NEW r \in P!RoundTrip("natpmp", m.gw),
                 P!Advance("natpmp", "map"), got' = [got EXCEPT !["natpmp"] = pub[r]]
          PROVE  PortmapInv'
      BY <1>1, <1>2, <1>3, <1>4, <1>5, <2>1, <3>1, TalkStep, Zenon DEF P!Advance
    <3> QED  BY <1>4, <1>7, <2>2, <3>1, Zenon DEF P!QueryExternalAddr
  <2>3. CASE P!RequestMap
    <3>1. ASSUME P!Advance("natpmp", "done"), UNCHANGED got PROVE PortmapInv'
      <4>1. got["natpmp"] # P!NoAddr /\ got["natpmp"] \in P!Addrs
        BY <1>2, <1>4, <2>3, Zenon DEF P!RequestMap, PortmapInv, Obtained
      <4> QED  BY <1>1, <1>3, <1>4, <1>6, <2>1, <3>1, <4>1, TalkStep, Zenon DEF P!Advance
    <3> QED  BY <1>4, <1>7, <2>3, <3>1, Zenon DEF P!RequestMap
  <2>4. CASE P!PCPMap
    <3>1. ASSUME NEW r \in P!RoundTrip("pcp", m.gw),
                 P!Advance("pcp", "done"), got' = [got EXCEPT !["pcp"] = pub[r]]
          PROVE  PortmapInv'
      BY <1>1, <1>2, <1>3, <1>4, <1>5, <2>1, <3>1, TalkStep, Zenon DEF P!Advance
    <3> QED  BY <1>4, <1>7, <2>4, <3>1, Zenon DEF P!PCPMap
  <2>5. CASE P!ResolveService
    <3>1. ASSUME P!Advance("upnp", "add"), UNCHANGED got PROVE PortmapInv'
      <4>1. got["upnp"] \in P!Addrs
        BY <1>2, <1>4, Zenon
      <4> QED  BY <1>1, <1>3, <1>4, <1>6, <2>1, <3>1, <4>1, TalkStep, Zenon DEF P!Advance
    <3> QED  BY <1>4, <1>7, <2>5, <3>1, Zenon DEF P!ResolveService
  <2>6. CASE P!AddMapping
    <3>1. ASSUME P!Advance("upnp", "ip"), UNCHANGED got PROVE PortmapInv'
      <4>1. got["upnp"] \in P!Addrs
        BY <1>2, <1>4
      <4> QED  BY <1>1, <1>3, <1>4, <1>6, <2>1, <3>1, <4>1, TalkStep, Zenon DEF P!Advance
    <3> QED  BY <1>4, <1>7, <2>6, <3>1, Zenon DEF P!AddMapping
  <2>7. CASE P!GetExternalIP
    <3>1. ASSUME NEW r \in P!SoapCall,
                 P!Advance("upnp", IF r \in Private THEN "failed" ELSE "done"),
                 got' = [got EXCEPT !["upnp"] = IF r \in Private THEN P!NoAddr ELSE pub[r]]
          PROVE  PortmapInv'
      <4>1. pub[r] \in P!Addrs \ {P!NoAddr}
        BY <1>2, <1>5, <3>1, Zenon DEF P!SoapCall
      <4>2. CASE r \in Private
        BY <1>1, <1>3, <1>4, <2>1, <3>1, <4>2, TalkStep, Zenon DEF P!Advance
      <4>3. CASE r \notin Private
        BY <1>1, <1>3, <1>4, <2>1, <3>1, <4>1, <4>3, TalkStep, Zenon DEF P!Advance
      <4> QED  BY <4>2, <4>3, Zenon
    <3> QED  BY <1>4, <1>7, <2>7, <3>1, Zenon DEF P!GetExternalIP
  <2> QED  BY <1>8, <2>2, <2>3, <2>4, <2>5, <2>6, <2>7, Zenon DEF P!Mapping
<1>9. CASE ~UNCHANGED <<portmapFaults, m>>
  <2>1. CASE \E p \in P!Protocols : \E ip \in P!Routers \cup {0} : P!Unanswered(p, ip)
    BY <1>7, <2>1, Zenon
  <2>2. CASE ~\E p \in P!Protocols : \E ip \in P!Routers \cup {0} : P!Unanswered(p, ip)
    <3>1. m.gw \in P!Routers \cup {0} /\ m.svc \in P!Routers \cup {0} /\ P!DiscoverGateway \in P!Routers \cup {0}
      BY <1>2, GatewayTyped, Zenon DEF Manager
    <3>2. PICK r \in P!RoundTrip("upnp", P!DiscoverGateway) :
            P!Advance("upnp", "add") /\ P!FetchService(r) /\ UNCHANGED <<portmapFaults, got>>
      BY <1>4, <1>9, <2>2, <3>1, Zenon DEF P!Mapping, P!QueryExternalAddr, P!RequestMap, P!PCPMap, P!ResolveService,
            P!AddMapping, P!GetExternalIP
    <3>3. gwip[r] \in P!Routers \cup {0} /\ got["upnp"] \in P!Addrs /\ portmapFaults' \in 0..PortmapMaxFaults
      BY <1>2, <1>4, <1>5, <3>2, FaultTyped, Zenon
    <3> QED  BY <1>1, <1>4, <1>6, <3>2, <3>3, TalkStep, Zenon DEF P!Advance, P!FetchService
  <2> QED  BY <2>1, <2>2, Zenon
<1> QED  BY <1>8, <1>9, Zenon

\* The requests that a probe or a refresh begins are of the first kind.
LEMMA AskTyped ==
    ASSUME PortmapInv, NEW ps
    PROVE  /\ [p \in P!Protocols |-> IF p \in ps THEN P!FirstStage(p) ELSE "idle"] \in [P!Protocols -> P!Stages]
           /\ \A p \in P!Protocols : P!FirstStage(p) # "done" /\ P!FirstStage("natpmp") # "map"
<1>1. \A p \in P!Protocols : P!FirstStage(p) \in {"query", "map", "find", "add"} /\ P!FirstStage("natpmp") = "query"
  BY Zenon DEF P!Protocols, P!FirstStage
<1>2. {"query", "map", "find", "add", "idle"} \subseteq P!Stages
  BY Zenon DEF P!Stages
<1> QED  BY <1>1, <1>2, Zenon

\* Steps of the loop that begin requests, or none, and leave the Control alone.
LEMMA LoopAsks ==
    ASSUME PortmapInv, m' \in Manager, h' \in Handler, portmapFaults' \in 0..PortmapMaxFaults,
           NEW ps, call' = [p \in P!Protocols |-> IF p \in ps THEN P!FirstStage(p) ELSE "idle"],
           got' \in [P!Protocols -> P!Addrs],
           UNCHANGED <<host, gwip, pub, portmapMoves, ctl, rl, seen, stop>>
    PROVE  PortmapTypes' /\ Obtained'
<1>1. PortmapTypes'
  BY AskTyped, Zenon DEF PortmapInv, PortmapTypes
<1>2. Obtained'
  BY AskTyped, Zenon DEF Obtained
<1> QED  BY <1>1, <1>2, Zenon

\* No request is under way.
LEMMA LoopQuiet ==
    ASSUME PortmapInv, m' \in Manager, h' \in Handler, portmapFaults' \in 0..PortmapMaxFaults, P!Quiet,
           UNCHANGED <<host, gwip, pub, portmapMoves, ctl, rl, seen, stop>>
    PROVE  PortmapTypes' /\ Obtained'
<1>1. P!NoAddr \in P!Addrs /\ "idle" \in P!Stages
  BY Zenon DEF P!Addrs, P!Stages
<1>2. call' \in [P!Protocols -> P!Stages] /\ got' \in [P!Protocols -> P!Addrs]
  BY <1>1, Zenon DEF P!Quiet
<1>3. Obtained'
  BY Zenon DEF P!Quiet, Obtained
<1> QED  BY <1>2, <1>3, Zenon DEF PortmapInv, PortmapTypes

\* The handler's arguments, with a new mapping.
LEMMA HandlerTold ==
    ASSUME PortmapInv, NEW a \in P!Addrs, h' = [h EXCEPT !.old = m.current, !.cur = a]
    PROVE  h' \in Handler /\ h'.cur = a /\ h'.gen = h.gen
<1>1. h \in Handler /\ m.current \in P!Addrs
  BY Zenon DEF PortmapInv, PortmapTypes, Manager
<1> QED  BY <1>1, Zenon DEF Handler

\* The manager with another mapping, or none.
Moved(x, k, y, a) == [x EXCEPT !.pc = k, !.winner = y, !.current = a, !.failures = 0]

\* It is typed.
LEMMA MappingTyped ==
    ASSUME NEW x \in Manager, NEW y \in P!Protocols \cup {"none"}, NEW a \in P!Addrs,
           NEW k \in {"handle", "wait", "probe"}
    PROVE  /\ Moved(x, k, y, a) \in Manager /\ Moved(x, k, y, a).pc = k
           /\ Moved(x, k, y, a).winner = y /\ Moved(x, k, y, a).current = a
<1>1. 0 \in 0..2
  OBVIOUS
<1> QED  BY <1>1, Zenon DEF Manager, Moved

\* probe: success, a timeout, a pause.
LEMMA PortProbeStep == ASSUME PortmapInv, P!Start \/ P!OnProbeSuccess \/ P!ProbeTimeout \/ P!SleepOrReprobe PROVE PortmapInv'
<1>1. UNCHANGED <<host, gwip, pub, portmapMoves, ctl, rl, seen, stop>>
  BY Zenon DEF P!Start, P!OnProbeSuccess, P!ProbeTimeout, P!SleepOrReprobe, P!net
<1>2. m \in Manager /\ h \in Handler /\ got \in [P!Protocols -> P!Addrs] /\ Mapped /\ Generations
  BY Zenon DEF PortmapInv, PortmapTypes
<1>3. portmapFaults' \in 0..PortmapMaxFaults
  BY FaultTyped, Zenon DEF P!Start, P!OnProbeSuccess, P!ProbeTimeout, P!SleepOrReprobe
<1>4. CASE P!OnProbeSuccess
  <2>1. PICK p \in P!Protocols :
          /\ call[p] = "done"
          /\ m' = [m EXCEPT !.pc = "handle", !.winner = p, !.current = got[p], !.failures = 0]
          /\ h' = [h EXCEPT !.old = m.current, !.cur = got[p]]
    BY <1>4, Zenon DEF P!OnProbeSuccess
  <2>2. got[p] \in P!Addrs /\ got[p] # P!NoAddr /\ p # "none" /\ p \in P!Protocols \cup {"none"}
    BY <1>2, <2>1, Zenon DEF PortmapInv, Obtained, P!Protocols
  <2>3. m' \in Manager /\ m'.pc = "handle" /\ m'.winner = p /\ m'.current = got[p]
    <3>1. m' = Moved(m, "handle", p, got[p])
      BY <2>1, Zenon DEF Moved
    <3> QED  BY <1>2, <2>2, <3>1, MappingTyped
  <2>4. h' \in Handler /\ h'.cur = got[p] /\ h'.gen = h.gen
    BY <2>1, <2>2, HandlerTold, Zenon
  <2>5. PortmapTypes' /\ Obtained'
    BY <1>1, <1>3, <1>4, <2>3, <2>4, LoopQuiet, Zenon DEF P!OnProbeSuccess
  <2>6. Mapped'
    BY <2>2, <2>3, <2>4, Zenon DEF Mapped
  <2>7. Generations' /\ Injected'
    BY <1>1, <1>2, <2>3, <2>4, Zenon DEF Generations, Injected
  <2> QED  BY <2>5, <2>6, <2>7, Zenon DEF PortmapInv
<1>5. CASE P!ProbeTimeout
  <2>1. m.pc = "probe" /\ m' = [m EXCEPT !.pc = "backoff"] /\ P!Quiet /\ UNCHANGED h
    BY <1>5, Zenon DEF P!ProbeTimeout, P!Backoff
  <2>2. m' \in Manager /\ m'.pc = "backoff" /\ m'.winner = m.winner /\ m'.current = m.current
    BY <1>2, <2>1, Zenon DEF Manager
  <2>3. PortmapTypes' /\ Obtained'
    BY <1>1, <1>2, <1>3, <2>1, <2>2, LoopQuiet, Zenon
  <2>4. Mapped' /\ Generations' /\ Injected'
    BY <1>1, <1>2, <2>1, <2>2, Zenon DEF Mapped, Generations, Injected
  <2> QED  BY <2>3, <2>4, Zenon DEF PortmapInv
<1>6. CASE P!Start
  <2>1. m.pc = "off" /\ m' = [m EXCEPT !.pc = "probe", !.gw = P!DiscoverGateway] /\ UNCHANGED <<h, got>>
    BY <1>6, Zenon DEF P!Start
  <2>2. m' \in Manager /\ m'.pc = "probe" /\ m'.winner = m.winner /\ m'.current = m.current
    BY <1>2, <2>1, GatewayTyped, Zenon DEF Manager
  <2>3. PICK ps : call' = [p \in P!Protocols |-> IF p \in ps THEN P!FirstStage(p) ELSE "idle"]
    <3>1. call' = [p \in P!Protocols |-> IF P!DiscoverGateway = 0 /\ p # "upnp" THEN "idle" ELSE P!FirstStage(p)]
      BY <1>6, Zenon DEF P!Start
    <3> DEFINE ps == {p \in P!Protocols : ~(P!DiscoverGateway = 0 /\ p # "upnp")}
    <3>2. call' = [p \in P!Protocols |-> IF p \in ps THEN P!FirstStage(p) ELSE "idle"]
      BY <3>1, Zenon
    <3> QED  BY <3>2, Zenon
  <2>4. PortmapTypes' /\ Obtained'
    BY <1>1, <1>2, <1>3, <2>1, <2>2, <2>3, LoopAsks, Zenon
  <2>5. Mapped' /\ Generations' /\ Injected'
    BY <1>1, <1>2, <2>1, <2>2, Zenon DEF Mapped, Generations, Injected
  <2> QED  BY <2>4, <2>5 DEF PortmapInv
<1>7. CASE P!SleepOrReprobe
  <2>1. m.pc = "backoff" /\ UNCHANGED <<h, got>>
    BY <1>7, Zenon DEF P!SleepOrReprobe
  <2>2. m' \in Manager /\ m'.pc \in {"exit", "probe"} /\ m'.winner = m.winner /\ m'.current = m.current
    BY <1>2, <1>7, Zenon DEF Manager, P!SleepOrReprobe
  <2>3. PortmapTypes' /\ Obtained'
    <3>1. CASE UNCHANGED call
      BY <1>1, <1>2, <1>3, <2>1, <2>2, <3>1, Zenon DEF PortmapInv, PortmapTypes, Obtained
    <3>2. CASE P!Ask(P!Clients)
      BY <1>1, <1>2, <1>3, <2>1, <2>2, <3>2, LoopAsks, Zenon DEF P!Ask
    <3> QED  BY <1>7, <3>1, <3>2, Zenon DEF P!SleepOrReprobe
  <2>4. Mapped' /\ Generations' /\ Injected'
    BY <1>1, <1>2, <2>1, <2>2, Zenon DEF Mapped, Generations, Injected
  <2> QED  BY <2>3, <2>4 DEF PortmapInv
<1> QED  BY <1>4, <1>5, <1>6, <1>7, Zenon

\* The mapping is given up.
LEMMA ClearedTyped ==
    ASSUME NEW x \in Manager
    PROVE  /\ P!Cleared(x) \in Manager /\ P!Cleared(x).pc = "probe" /\ P!Cleared(x).winner = "none"
           /\ P!Cleared(x).current = P!NoAddr
<1>1. P!NoAddr \in P!Addrs
  BY Zenon DEF P!Addrs
<1>2. P!Cleared(x) = Moved(x, "probe", "none", P!NoAddr)
  BY Zenon DEF P!Cleared, Moved
<1>3. "none" \in P!Protocols \cup {"none"} /\ "probe" \in {"handle", "wait", "probe"}
  BY Zenon
<1> QED  BY <1>1, <1>2, <1>3, MappingTyped

\* refreshLoop, the wait.
LEMMA WaitStep == ASSUME PortmapInv, P!RefreshWait PROVE PortmapInv'
<1>1. UNCHANGED <<host, gwip, pub, portmapMoves, portmapFaults, ctl, rl, seen, stop, h, got>> /\ m.pc = "wait"
  BY Zenon DEF P!RefreshWait, P!net
<1>2. m \in Manager /\ h \in Handler /\ got \in [P!Protocols -> P!Addrs] /\ Mapped /\ Generations /\ Injected
  BY Zenon DEF PortmapInv, PortmapTypes
<1>3. portmapFaults' \in 0..PortmapMaxFaults
  BY <1>1, FaultTyped, Zenon
<1>4. CASE m' = [m EXCEPT !.pc = "exit"] /\ UNCHANGED call
  <2>1. m' \in Manager /\ m'.pc = "exit" /\ m'.winner = m.winner /\ m'.current = m.current
    BY <1>2, <1>4, Zenon DEF Manager
  <2>2. PortmapTypes' /\ Obtained'
    BY <1>1, <1>4, <2>1, Zenon DEF PortmapInv, PortmapTypes, Obtained
  <2>3. Mapped' /\ Generations' /\ Injected'
    BY <1>1, <1>2, <2>1, Zenon DEF Mapped, Generations, Injected
  <2> QED  BY <2>2, <2>3, Zenon DEF PortmapInv
<1>5. CASE m' = [P!Cleared(m) EXCEPT !.reprobe = FALSE] /\ P!Ask(P!Clients)
  <2>1. m' \in Manager /\ m'.pc = "probe" /\ m'.winner = "none" /\ m'.current = P!NoAddr
    BY <1>2, <1>5, ClearedTyped, Zenon DEF Manager
  <2>2. PortmapTypes' /\ Obtained'
    BY <1>1, <1>2, <1>3, <1>5, <2>1, LoopAsks, Zenon DEF P!Ask
  <2>3. Mapped' /\ Generations' /\ Injected'
    BY <1>1, <1>2, <2>1, Zenon DEF Mapped, Generations, Injected
  <2> QED  BY <2>2, <2>3 DEF PortmapInv
<1>6. CASE m' = [m EXCEPT !.pc = "refresh"] /\ P!Ask({m.winner})
  <2>1. m' \in Manager /\ m'.pc = "refresh" /\ m'.winner = m.winner /\ m'.current = m.current
    BY <1>2, <1>6, Zenon DEF Manager
  <2>2. PortmapTypes' /\ Obtained'
    BY <1>1, <1>2, <1>3, <1>6, <2>1, LoopAsks, Zenon DEF P!Ask
  <2>3. Mapped' /\ Generations' /\ Injected'
    BY <1>1, <1>2, <2>1, Zenon DEF Mapped, Generations, Injected
  <2> QED  BY <2>2, <2>3 DEF PortmapInv
<1> QED  BY <1>4, <1>5, <1>6, Zenon DEF P!RefreshWait

\* refreshLoop, the answer.
LEMMA RefreshStep == ASSUME PortmapInv, P!Refresh PROVE PortmapInv'
<1>1. UNCHANGED <<host, gwip, pub, portmapMoves, ctl, rl, seen, stop>> /\ m.pc = "refresh"
  BY Zenon DEF P!Refresh, P!net
<1>2. m \in Manager /\ h \in Handler /\ got \in [P!Protocols -> P!Addrs] /\ Mapped /\ Generations /\ Injected
  BY DEF PortmapInv, PortmapTypes
<1>3. portmapFaults' \in 0..PortmapMaxFaults
  BY FaultTyped, Zenon DEF P!Refresh
<1>4. m.winner \in P!Protocols /\ m.winner # "none"
  BY <1>1, <1>2, Zenon DEF Mapped, Manager
<1>5. CASE /\ call[m.winner] = "done"
           /\ m' = [m EXCEPT !.current = got[m.winner], !.failures = 0,
                             !.pc = IF got[m.winner] = m.current THEN "wait" ELSE "handle"]
           /\ h' = IF got[m.winner] = m.current THEN h
                   ELSE [h EXCEPT !.old = m.current, !.cur = got[m.winner]]
           /\ P!Quiet
  <2>1. got[m.winner] \in P!Addrs /\ got[m.winner] # P!NoAddr
    BY <1>2, <1>4, <1>5, Zenon DEF PortmapInv, Obtained
  <2>2. /\ m' \in Manager /\ m'.winner = m.winner /\ m'.current = got[m.winner]
        /\ m'.pc = IF got[m.winner] = m.current THEN "wait" ELSE "handle"
    <3>1. m' = [m EXCEPT !.pc = IF got[m.winner] = m.current THEN "wait" ELSE "handle",
                         !.winner = m.winner, !.current = got[m.winner], !.failures = 0]
      BY <1>2, <1>5, Zenon DEF Manager
    <3>2. PICK k \in {"handle", "wait", "probe"} : k = IF got[m.winner] = m.current THEN "wait" ELSE "handle"
      BY Zenon
    <3>3. m.winner \in P!Protocols \cup {"none"} /\ m' = Moved(m, k, m.winner, got[m.winner])
      BY <1>4, <3>1, <3>2, Zenon DEF Moved
    <3>4. m' \in Manager /\ m'.pc = k /\ m'.winner = m.winner /\ m'.current = got[m.winner]
      BY <1>2, <2>1, <3>3, MappingTyped
    <3> QED  BY <3>2, <3>4, Zenon
  <2>3. h' \in Handler /\ h'.gen = h.gen /\ (got[m.winner] # m.current => h'.cur = got[m.winner])
    BY <1>2, <1>5, <2>1, HandlerTold, Zenon
  <2>4. PortmapTypes' /\ Obtained'
    BY <1>1, <1>3, <1>5, <2>2, <2>3, LoopQuiet, Zenon
  <2>5. Mapped'
    BY <1>4, <2>1, <2>2, <2>3, Zenon DEF Mapped
  <2>6. Generations' /\ Injected'
    BY <1>1, <1>2, <2>2, <2>3, Zenon DEF Generations, Injected
  <2> QED  BY <2>4, <2>5, <2>6, Zenon DEF PortmapInv
<1>6. CASE /\ m' = P!RefreshFailed(m) /\ UNCHANGED h
           /\ IF m'.pc = "probe" THEN P!Ask(P!Clients) ELSE call' = [p \in P!Protocols |-> "idle"]
           /\ got' = [p \in P!Protocols |-> P!NoAddr]
  <2>1. \/ m' \in Manager /\ m'.pc = "probe" /\ m'.winner = "none" /\ m'.current = P!NoAddr
        \/ m' \in Manager /\ m'.pc = "wait" /\ m'.winner = m.winner /\ m'.current = m.current
    <3>1. CASE m.failures = 2
      BY <1>2, <1>6, <3>1, ClearedTyped, Zenon DEF P!RefreshFailed
    <3>2. CASE m.failures # 2
      <4>1. m.failures \in 0..2 /\ m' = [m EXCEPT !.pc = "wait", !.failures = m.failures + 1]
        BY <1>2, <1>6, <3>2, Zenon DEF P!RefreshFailed, Manager
      <4>2. m.failures + 1 \in 0..2
        BY <3>2, <4>1
      <4> QED  BY <1>2, <4>1, <4>2, Zenon DEF Manager
    <3> QED  BY <3>1, <3>2, Zenon
  <2>2. PICK ps : call' = [p \in P!Protocols |-> IF p \in ps THEN P!FirstStage(p) ELSE "idle"]
    <3>1. CASE m'.pc = "probe"
      BY <1>6, <3>1, Zenon DEF P!Ask
    <3>2. CASE m'.pc # "probe"
      <4>1. PICK none : none = {}
        BY Zenon
      <4>2. call' = [p \in P!Protocols |-> IF p \in none THEN P!FirstStage(p) ELSE "idle"]
        BY <1>6, <3>2, <4>1, Zenon
      <4> QED  BY <4>2, Zenon
    <3> QED  BY <3>1, <3>2, Zenon
  <2>3. got' \in [P!Protocols -> P!Addrs]
    BY <1>6, Zenon DEF P!Addrs
  <2>4. PortmapTypes' /\ Obtained'
    BY <1>1, <1>2, <1>3, <1>6, <2>1, <2>2, <2>3, LoopAsks, Zenon
  <2>5. Mapped' /\ Generations' /\ Injected'
    BY <1>1, <1>2, <1>6, <2>1, Zenon DEF Mapped, Generations, Injected
  <2> QED  BY <2>4, <2>5 DEF PortmapInv
<1>7. \/ /\ call[m.winner] = "done"
         /\ m' = [m EXCEPT !.current = got[m.winner], !.failures = 0,
                           !.pc = IF got[m.winner] = m.current THEN "wait" ELSE "handle"]
         /\ h' = IF got[m.winner] = m.current THEN h
                 ELSE [h EXCEPT !.old = m.current, !.cur = got[m.winner]]
         /\ P!Quiet
      \/ /\ m' = P!RefreshFailed(m) /\ UNCHANGED h
         /\ IF m'.pc = "probe" THEN P!Ask(P!Clients) ELSE call' = [p \in P!Protocols |-> "idle"]
         /\ got' = [p \in P!Protocols |-> P!NoAddr]
  BY Zenon DEF P!Refresh
<1> QED  BY <1>5, <1>6, <1>7, Zenon

\* The change handler.
LEMMA HandlerStep == ASSUME PortmapInv, P!HandlerControl \/ P!HandlerInject PROVE PortmapInv'
<1>1. UNCHANGED <<host, gwip, pub, portmapMoves, portmapFaults, call, got, rl, seen, stop>>
  BY Zenon DEF P!HandlerControl, P!HandlerInject, P!net
<1>2. m \in Manager /\ h \in Handler /\ ctl \in Control /\ Mapped /\ Generations /\ Injected
  BY Zenon DEF PortmapInv, PortmapTypes
<1>3. P!NoChange \in Handler /\ P!NoChange.gen = 0
  BY PortmapAssumption DEF P!NoChange, Handler, P!Addrs
<1>4. ctl.gen \in 1..MaxReloads + 1 /\ MaxReloads \in Nat
  BY <1>2, PortmapAssumption, Zenon DEF Control
<1>5. CASE P!HandlerControl
  <2>1. m' = [m EXCEPT !.pc = IF ctl.up THEN "inject" ELSE "wait"] /\ UNCHANGED ctl /\ m.pc = "handle"
    BY <1>5, Zenon DEF P!HandlerControl
  <2>2. /\ m' \in Manager /\ m'.winner = m.winner /\ m'.current = m.current
        /\ m'.pc = IF ctl.up THEN "inject" ELSE "wait"
    BY <1>2, <2>1, Zenon DEF Manager
  <2>3. CASE ctl.up
    <3>1. h' = [h EXCEPT !.gen = ctl.gen]
      BY <1>5, <2>3, Zenon DEF P!HandlerControl
    <3>2. h' \in Handler /\ h'.gen = ctl.gen /\ h'.cur = h.cur
      BY <1>2, <1>4, <3>1 DEF Handler
    <3>3. PortmapTypes' /\ Obtained'
      BY <1>1, <2>1, <2>2, <3>2, Zenon DEF PortmapInv, PortmapTypes, Obtained
    <3>4. Mapped' /\ Injected'
      BY <1>2, <2>1, <2>2, <2>3, <3>2 DEF Mapped, Injected
    <3>5. Generations'
      BY <1>1, <1>2, <1>4, <2>1, <3>2 DEF Generations
    <3> QED  BY <3>3, <3>4, <3>5, Zenon DEF PortmapInv
  <2>4. CASE ~ctl.up
    <3>1. h' = P!NoChange
      BY <1>5, <2>4, Zenon DEF P!HandlerControl
    <3>2. PortmapTypes' /\ Obtained'
      BY <1>1, <1>3, <2>1, <2>2, <3>1, Zenon DEF PortmapInv, PortmapTypes, Obtained
    <3>3. Mapped' /\ Injected'
      BY <1>2, <2>1, <2>2, <2>4 DEF Mapped, Injected
    <3>4. Generations'
      BY <1>1, <1>2, <1>3, <1>4, <2>1, <3>1 DEF Generations
    <3> QED  BY <3>2, <3>3, <3>4 DEF PortmapInv
  <2> QED  BY <2>3, <2>4, Zenon
<1>6. CASE P!HandlerInject
  <2>1. m' = [m EXCEPT !.pc = "wait"] /\ h' = P!NoChange /\ m.pc = "inject"
    BY <1>6, Zenon DEF P!HandlerInject
  <2>2. m' \in Manager /\ m'.winner = m.winner /\ m'.current = m.current /\ m'.pc = "wait"
    BY <1>2, <2>1, Zenon DEF Manager
  <2>3. h.cur = m.current /\ h.cur # P!NoAddr /\ h.cur \in P!Addrs
    BY <1>2, <2>1, Zenon DEF Mapped, Manager
  <2>4. ctl' \in Control /\ ctl'.gen = ctl.gen
    <3>1. CASE ctl.gen = h.gen
      <4>1. ctl' = [ctl EXCEPT !.adv = (ctl.adv \ {h.old}) \cup {h.cur}]
        BY <1>6, <3>1, Zenon DEF P!HandlerInject
      <4>2. (ctl.adv \ {h.old}) \cup {h.cur} \in SUBSET (P!Addrs \ {P!NoAddr})
        BY <1>2, <2>3, Zenon DEF Control
      <4> QED  BY <1>2, <4>1, <4>2, Zenon DEF Control
    <3>2. CASE ctl.gen # h.gen
      BY <1>2, <1>6, <3>2, Zenon DEF P!HandlerInject
    <3> QED  BY <3>1, <3>2, Zenon
  <2>5. PortmapTypes' /\ Obtained'
    BY <1>1, <1>3, <2>1, <2>2, <2>4, Zenon DEF PortmapInv, PortmapTypes, Obtained
  <2>6. Mapped'
    BY <1>2, <2>1, <2>2, Zenon DEF Mapped
  <2>7. Generations'
    BY <1>1, <1>2, <1>3, <1>4, <2>1, <2>4 DEF Generations
  <2>8. Injected'
    <3>1. CASE ctl.gen = h.gen
      <4>1. h.cur \in ctl'.adv
        BY <1>2, <1>6, <3>1, Zenon DEF P!HandlerInject, Control
      <4> QED  BY <2>2, <2>3, <4>1, Zenon DEF Injected
    <3>2. CASE ctl.gen # h.gen
      <4>1. ctl' = ctl
        BY <1>6, <3>2, Zenon DEF P!HandlerInject
      <4> QED  BY <1>1, <1>2, <2>1, <2>2, <3>2, <4>1, Zenon DEF Injected
    <3> QED  BY <3>1, <3>2, Zenon
  <2> QED  BY <2>5, <2>6, <2>7, <2>8, Zenon DEF PortmapInv
<1> QED  BY <1>5, <1>6, Zenon

\* The reload and the end of Stop.
LEMMA ReloadStep ==
    ASSUME PortmapInv,
           P!ReloadStop \/ P!ReloadStart \/ P!ReinjectPortmapAddr \/ P!Reinject \/ P!StopReturns
    PROVE  PortmapInv'
<1>1. UNCHANGED <<host, gwip, pub, portmapMoves, portmapFaults, m, call, got, h>>
  BY Zenon DEF P!ReloadStop, P!ReloadStart, P!ReinjectPortmapAddr, P!Reinject, P!StopReturns, P!net
<1>2. /\ m \in Manager /\ h \in Handler /\ ctl \in Control /\ rl \in Reloading
      /\ Mapped /\ Generations /\ Injected /\ P!NoAddr \in P!Addrs
  BY Zenon DEF PortmapInv, PortmapTypes, P!Addrs
<1>3. ctl.gen \in 1..MaxReloads + 1 /\ h.gen \in 0..MaxReloads + 1 /\ MaxReloads \in Nat
  BY <1>2, PortmapAssumption, Zenon DEF Control, Handler
<1>4. seen' \in P!Routers \cup {0, 9} /\ stop' \in {"no", "waiting", "stopped"}
  BY Zenon DEF PortmapInv, PortmapTypes, P!ReloadStop, P!ReloadStart, P!ReinjectPortmapAddr, P!Reinject, P!StopReturns
<1>5. SUFFICES ctl' \in Control /\ rl' \in Reloading /\ Generations' /\ Injected'
  BY <1>1, <1>4, Zenon DEF PortmapInv, PortmapTypes, Obtained, Mapped
<1>6. CASE P!ReloadStop
  <2>1. rl' = [rl EXCEPT !.pc = "down"] /\ ctl' = [ctl EXCEPT !.up = FALSE] /\ ctl.gen <= MaxReloads
    BY <1>6, Zenon DEF P!ReloadStop
  <2>2. ctl' \in Control /\ rl' \in Reloading /\ ctl'.up = FALSE /\ ctl'.gen = ctl.gen /\ rl'.pc = "down"
    BY <1>2, <2>1, Zenon DEF Control, Reloading
  <2> QED  BY <1>1, <1>2, <2>1, <2>2, Zenon DEF Generations, Injected
<1>7. CASE P!ReloadStart
  <2>1. rl.pc = "down" /\ rl' = [rl EXCEPT !.pc = "up"] /\ ctl' = [gen |-> ctl.gen + 1, up |-> TRUE, adv |-> {}]
    BY <1>7, Zenon DEF P!ReloadStart
  <2>2. ctl.gen + 1 \in 1..MaxReloads + 1 /\ h.gen <= ctl.gen + 1
    BY <1>2, <1>3, <2>1 DEF Generations
  <2>3. ctl' \in Control /\ rl' \in Reloading /\ ctl'.gen = ctl.gen + 1 /\ rl'.pc = "up"
    BY <1>2, <2>1, <2>2, Zenon DEF Control, Reloading
  <2> QED  BY <1>1, <2>2, <2>3, Zenon DEF Generations, Injected
<1>8. CASE P!ReinjectPortmapAddr
  <2>1. rl.pc = "up" /\ UNCHANGED ctl
        /\ rl' = [pc |-> IF m.current = P!NoAddr THEN "idle" ELSE "inject", cur |-> m.current]
    BY <1>8, Zenon DEF P!ReinjectPortmapAddr, P!Reinjected
  <2>2. rl' \in Reloading /\ rl'.cur = m.current /\ rl'.pc = IF m.current = P!NoAddr THEN "idle" ELSE "inject"
    BY <1>2, <2>1, Zenon DEF Reloading, Manager
  <2> QED  BY <1>1, <1>2, <2>1, <2>2, Zenon DEF Generations, Injected, Mapped
<1>9. CASE P!Reinject
  <2>1. /\ rl.pc = "inject" /\ ctl' = [ctl EXCEPT !.adv = ctl.adv \cup {rl.cur}]
        /\ rl' = [pc |-> "idle", cur |-> P!NoAddr]
    BY <1>9, Zenon DEF P!Reinject
  <2>2. ctl.adv \cup {rl.cur} \in SUBSET (P!Addrs \ {P!NoAddr})
    BY <1>2, <2>1, Zenon DEF Control, Reloading, Generations
  <2>3. /\ ctl' \in Control /\ rl' \in Reloading /\ ctl'.gen = ctl.gen /\ ctl'.up = ctl.up
        /\ ctl'.adv = ctl.adv \cup {rl.cur} /\ rl'.pc = "idle"
    BY <1>2, <2>1, <2>2, Zenon DEF Control, Reloading
  <2> QED  BY <1>1, <1>2, <2>1, <2>3, Zenon DEF Generations, Injected
<1>10. CASE P!StopReturns
  <2>1. ctl' = [ctl EXCEPT !.up = FALSE] /\ UNCHANGED rl
    BY <1>10, Zenon DEF P!StopReturns
  <2>2. ctl' \in Control /\ ctl'.up = FALSE /\ ctl'.gen = ctl.gen
    BY <1>2, <2>1, Zenon DEF Control
  <2> QED  BY <1>1, <1>2, <2>1, <2>2, Zenon DEF Generations, Injected
<1> QED  BY <1>6, <1>7, <1>8, <1>9, <1>10, Zenon

\* Every step of the module, and none.
LEMMA PortmapStep == PortmapInv /\ [P!Next]_(P!vars) => PortmapInv'
<1>1. ASSUME PortmapInv, UNCHANGED P!vars PROVE PortmapInv'
  BY <1>1 DEF P!vars, P!net, PortmapInv, PortmapTypes, Obtained, Mapped, Generations, Injected
<1>2. ASSUME PortmapInv, P!Next PROVE PortmapInv'
  BY <1>2, OutsideOfLoop, MappingStep, PortProbeStep, WaitStep, RefreshStep, HandlerStep, ReloadStep, Zenon DEF P!Next, P!Loop
<1> QED  BY <1>1, <1>2

\* When the loop waits and no reload is under way, Nebula advertises the mapping that
\* Current() reports, for any routers, moves, lost answers and reloads: the handler
\* (startPortmap) and reinjectPortmapAddr never miss a Control between them.
THEOREM PortmapSafe == P!Spec => [](P!TypeOK /\ CurrentAdvertised)
  BY PortmapInit, PortmapStep, PortmapSays, PTL DEF P!Spec

-----------------------------------------------------------------------------
(* QuicSession.                                                            *)

CONSTANTS
  Callers, Conns, QuicMaxChanges

\* A bound.
ASSUME QuicAssumption ==
  QuicMaxChanges \in Nat

VARIABLES
  quicUp, quicChanges, lastAddrs, sock, open, conn, reconnecting, closed, quicPc, withCtx,
  ctxDone, dialed, sending, receivers, rxCancelled, probe

Q == INSTANCE QuicSession WITH
       MaxChanges <- QuicMaxChanges, up <- quicUp, changes <- quicChanges, pc <- quicPc

quicVars == <<quicUp, quicChanges, lastAddrs, sock, open, conn, reconnecting, closed,
              quicPc, withCtx, ctxDone, dialed, sending, receivers, rxCancelled, probe>>

\* However many goroutines ask for a reconnect, a stale one included, the
\* session never has two connections open to the server: the single-flight
\* flag and the closing of the old connection before the dial
\* (session.go 161-188).
OneConnection == Q!OneConnection

\* What a probe started is gone after it: no reconnect keeps running, no
\* receiver waits and no connection stays open, also when Close met a dial
\* that was under way (session.go 193-195, probe.go 107-132).
NothingOutlives == Q!NothingOutlives

AtMostOne(S) == \A a, b \in S : a = b

\* A reconnect that holds the flag; one that has closed the old connection and not
\* stored the new one.
Holds(g) == quicPc[g] \notin {"idle", "swap"}
Between(g) == quicPc[g] \in {"check", "dial", "store"}

QuicTypes ==
  /\ quicUp \in BOOLEAN /\ quicChanges \in 0..QuicMaxChanges /\ lastAddrs \in 0..quicChanges
  /\ sock \in BOOLEAN /\ rxCancelled \in BOOLEAN
  /\ open \subseteq Conns /\ receivers \subseteq Conns /\ conn \subseteq Conns
  /\ reconnecting \in BOOLEAN /\ closed \in BOOLEAN
  /\ quicPc \in [Callers -> {"idle", "swap", "teardown", "check", "dial", "store", "release"}]
  /\ withCtx \subseteq Callers /\ ctxDone \in BOOLEAN
  /\ dialed \in [Callers -> SUBSET Conns]
  /\ sending.now \in BOOLEAN /\ sending.on \subseteq Conns
  /\ probe \in {"loop", "close", "closeConn", "cancel", "socket", "done"}

\* One reconnect at a time.
SingleFlight ==
  /\ \A g \in Callers : Holds(g) => reconnecting
  /\ \A g, k \in Callers : Holds(g) /\ Holds(k) => g = k

\* What is open is the session's connection, or the one a reconnect has just dialed.
OpenIsKnown ==
  /\ AtMostOne(conn) /\ \A g \in Callers : AtMostOne(dialed[g])
  /\ \A g \in Callers : Between(g) => conn = {} /\ open \subseteq dialed[g]
  /\ \A g \in Callers : quicPc[g] \in {"check", "dial"} => open = {}
  /\ (\A g \in Callers : ~Between(g)) => open \subseteq conn

QuicInv == QuicTypes /\ SingleFlight /\ OpenIsKnown

\* The invariant contains the type invariant of the module and the property.
LEMMA QuicSays == ASSUME QuicInv PROVE Q!TypeOK /\ OneConnection
<1>1. \A c, d \in conn : c = d
  BY Zenon DEF QuicInv, OpenIsKnown, AtMostOne
<1>2. Q!TypeOK
  BY <1>1, Zenon DEF QuicInv, QuicTypes, Q!TypeOK
<1>3. AtMostOne(open)
  <2>1. CASE \A g \in Callers : ~Between(g)
    BY <2>1, Zenon DEF QuicInv, OpenIsKnown, AtMostOne
  <2>2. CASE \E g \in Callers : Between(g)
    BY <2>2, Zenon DEF QuicInv, OpenIsKnown, AtMostOne
  <2> QED  BY <2>1, <2>2, Zenon
<1>4. OneConnection
  BY <1>3, Zenon DEF AtMostOne, OneConnection, Q!OneConnection
<1> QED  BY <1>2, <1>4

\* NewSession has dialed.
LEMMA QuicInit == Q!Init => QuicInv
<1> SUFFICES ASSUME Q!Init PROVE QuicInv
  OBVIOUS
<1>1. PICK c \in Conns :
        /\ quicUp = TRUE /\ quicChanges = 0 /\ lastAddrs = 0 /\ sock = TRUE /\ open = {c} /\ conn = {c} /\ receivers = {c}
        /\ reconnecting = FALSE /\ closed = FALSE /\ rxCancelled = FALSE /\ withCtx = {} /\ ctxDone = FALSE
        /\ quicPc = [g \in Callers |-> "idle"] /\ dialed = [g \in Callers |-> {}]
        /\ sending = Q!Silent /\ probe = "loop"
  BY Zenon DEF Q!Init
<1>2. sending.now \in BOOLEAN /\ sending.on \subseteq Conns
  BY <1>1, Zenon DEF Q!Silent
<1>3. quicUp \in BOOLEAN /\ sock \in BOOLEAN /\ rxCancelled \in BOOLEAN /\ reconnecting \in BOOLEAN /\ closed \in BOOLEAN
      /\ ctxDone \in BOOLEAN
  BY <1>1, Zenon
<1>4. quicChanges \in 0..QuicMaxChanges /\ lastAddrs \in 0..quicChanges
  BY <1>1, QuicAssumption
<1>5. QuicTypes
  BY <1>1, <1>2, <1>3, <1>4, Zenon DEF QuicTypes
<1>6. SingleFlight
  BY <1>1, Zenon DEF SingleFlight, Holds
<1>7. OpenIsKnown
  BY <1>1, Zenon DEF OpenIsKnown, Between, AtMostOne
<1> QED  BY <1>5, <1>6, <1>7, Zenon DEF QuicInv

\* The reconnects and the connections are as they were, or a connection has ended.
LEMMA QuicElsewhere ==
    ASSUME QuicInv, QuicTypes', UNCHANGED <<conn, reconnecting, quicPc, dialed>>, open' \subseteq open
    PROVE  QuicInv'
<1>1. SingleFlight'
  BY Zenon DEF QuicInv, SingleFlight, Holds
<1>2. OpenIsKnown'
  BY Zenon DEF QuicInv, OpenIsKnown, Between, AtMostOne
<1> QED  BY <1>1, <1>2, Zenon DEF QuicInv

\* A goroutine starts a reconnect.
LEMMA SpawnKeeps ==
    ASSUME QuicInv, QuicTypes', UNCHANGED <<open, conn, reconnecting, dialed>>, NEW g \in Callers,
           quicPc[g] = "idle", quicPc' = [quicPc EXCEPT ![g] = "swap"]
    PROVE  QuicInv'
<1>1. \A k \in Callers : (Holds(k)' <=> Holds(k)) /\ (Between(k)' <=> Between(k))
                         /\ (quicPc'[k] \in {"check", "dial"} <=> quicPc[k] \in {"check", "dial"})
  BY Zenon DEF QuicInv, QuicTypes, Holds, Between
<1>2. SingleFlight'
  BY <1>1, Zenon DEF QuicInv, SingleFlight
<1>3. OpenIsKnown'
  BY <1>1, Zenon DEF QuicInv, OpenIsKnown, AtMostOne
<1> QED  BY <1>2, <1>3, Zenon DEF QuicInv

\* The network.
LEMMA NetStep == ASSUME QuicInv, Q!NetChanges \/ Q!ConnDies PROVE QuicInv'
<1>1. /\ UNCHANGED <<lastAddrs, sock, conn, reconnecting, closed, quicPc, withCtx, ctxDone, dialed, sending, receivers, rxCancelled, probe>>
      /\ open' \subseteq open
  BY Zenon DEF Q!NetChanges, Q!ConnDies, Q!context, Q!session, Q!net
<1>2. \/ quicChanges < QuicMaxChanges /\ quicUp' = ~quicUp /\ quicChanges' = quicChanges + 1
      \/ UNCHANGED <<quicUp, quicChanges>>
  BY Zenon DEF Q!NetChanges, Q!ConnDies, Q!net
<1>3. quicUp' \in BOOLEAN
  BY <1>2, Zenon DEF QuicInv, QuicTypes
<1>4. quicChanges' \in 0..QuicMaxChanges /\ lastAddrs' \in 0..quicChanges'
  BY <1>1, <1>2, QuicAssumption DEF QuicInv, QuicTypes
<1>5. QuicTypes'
  BY <1>1, <1>3, <1>4, Zenon DEF QuicInv, QuicTypes
<1> QED  BY <1>1, <1>5, QuicElsewhere, Zenon

\* What a step of a reconnect leaves alone.
LEMMA ReconnectTypes ==
    ASSUME QuicInv, UNCHANGED <<quicUp, quicChanges, lastAddrs, sock, closed, withCtx, ctxDone, sending, rxCancelled, probe>>,
           NEW g \in Callers, NEW v \in {"idle", "swap", "teardown", "check", "dial", "store", "release"},
           quicPc' = [quicPc EXCEPT ![g] = v], reconnecting' \in BOOLEAN,
           open' \subseteq Conns, conn' \subseteq Conns, receivers' \subseteq Conns, dialed' \in [Callers -> SUBSET Conns]
    PROVE  QuicTypes' /\ quicPc'[g] = v /\ \A k \in Callers : k # g => quicPc'[k] = quicPc[k]
  BY Zenon DEF QuicInv, QuicTypes

\* Nobody else holds the flag.
LEMMA Alone ==
    ASSUME QuicInv, NEW g \in Callers, Holds(g)
    PROVE  reconnecting /\ \A k \in Callers : k # g => quicPc[k] \in {"idle", "swap"}
  BY Zenon DEF QuicInv, SingleFlight, Holds

\* The compare-and-swap.
LEMMA CompareAndSwapStep == ASSUME QuicInv, NEW g \in Callers, Q!CompareAndSwap(g) PROVE QuicInv'
<1>1. /\ UNCHANGED <<quicUp, quicChanges, lastAddrs, sock, open, conn, closed, withCtx, ctxDone, dialed, sending, receivers, rxCancelled, probe>>
      /\ quicPc[g] = "swap" /\ reconnecting' = TRUE
  BY Zenon DEF Q!CompareAndSwap, Q!context, Q!net
<1>2. reconnecting' \in BOOLEAN /\ reconnecting'
  BY <1>1, Zenon
<1>3. PICK v \in {"idle", "teardown"} : quicPc' = [quicPc EXCEPT ![g] = v] /\ (v = "teardown" <=> ~reconnecting)
  BY Zenon DEF Q!CompareAndSwap, Q!InFlight
<1>4. QuicTypes' /\ quicPc'[g] = v /\ \A k \in Callers : k # g => quicPc'[k] = quicPc[k]
  BY <1>1, <1>2, <1>3, ReconnectTypes, ZenonT(40) DEF QuicInv, QuicTypes
<1>5. SingleFlight'
  BY <1>1, <1>2, <1>3, <1>4, Zenon DEF QuicInv, SingleFlight, Holds
<1>6. \A k \in Callers : (Between(k)' <=> Between(k)) /\ (quicPc'[k] \in {"check", "dial"} <=> quicPc[k] \in {"check", "dial"})
  BY <1>1, <1>4, Zenon DEF Between
<1>7. OpenIsKnown'
  BY <1>1, <1>6, Zenon DEF QuicInv, OpenIsKnown, AtMostOne
<1> QED  BY <1>4, <1>5, <1>7, Zenon DEF QuicInv

\* The old connection is closed.
LEMMA TearDownStep == ASSUME QuicInv, NEW g \in Callers, Q!TearDown(g) PROVE QuicInv'
<1>1. /\ UNCHANGED <<quicUp, quicChanges, lastAddrs, sock, reconnecting, closed, withCtx, ctxDone, dialed, sending, receivers, rxCancelled, probe>>
      /\ quicPc[g] = "teardown" /\ conn' = {} /\ open' = open \ conn /\ quicPc' = [quicPc EXCEPT ![g] = "check"]
  BY Zenon DEF Q!TearDown, Q!context, Q!net
<1>2. reconnecting /\ \A k \in Callers : k # g => quicPc[k] \in {"idle", "swap"}
  BY <1>1, Alone, Zenon DEF Holds
<1>3. QuicTypes' /\ quicPc'[g] = "check" /\ \A k \in Callers : k # g => quicPc'[k] = quicPc[k]
  BY <1>1, ReconnectTypes, Zenon DEF QuicInv, QuicTypes
<1>4. SingleFlight'
  BY <1>1, <1>2, <1>3, Zenon DEF SingleFlight, Holds
<1>5. open' = {}
  BY <1>1, <1>2, Zenon DEF QuicInv, OpenIsKnown, Between
<1>6. OpenIsKnown'
  BY <1>1, <1>5, Zenon DEF QuicInv, OpenIsKnown, AtMostOne
<1> QED  BY <1>3, <1>4, <1>6, Zenon DEF QuicInv

\* The check of the loop, and a dial that fails.
LEMMA LoopStep == ASSUME QuicInv, NEW g \in Callers, Q!LoopCheck(g) \/ Q!DialFails(g) PROVE QuicInv'
<1>1. /\ UNCHANGED <<quicUp, quicChanges, lastAddrs, sock, open, conn, reconnecting, closed, withCtx, ctxDone, dialed, sending, receivers, rxCancelled, probe>>
      /\ quicPc[g] \in {"check", "dial"}
  BY Zenon DEF Q!LoopCheck, Q!DialFails, Q!context, Q!net, Q!session
<1>2. PICK v \in {"check", "dial", "release"} : quicPc' = [quicPc EXCEPT ![g] = v]
  BY Zenon DEF Q!LoopCheck, Q!DialFails
<1>3. reconnecting /\ \A k \in Callers : k # g => quicPc[k] \in {"idle", "swap"}
  BY <1>1, Alone, Zenon DEF Holds
<1>4. QuicTypes' /\ quicPc'[g] = v /\ \A k \in Callers : k # g => quicPc'[k] = quicPc[k]
  <2>1. /\ open' \subseteq Conns /\ conn' \subseteq Conns /\ receivers' \subseteq Conns
        /\ dialed' \in [Callers -> SUBSET Conns] /\ reconnecting' \in BOOLEAN
    BY <1>1, Zenon DEF QuicInv, QuicTypes
  <2>2. v \in {"idle", "swap", "teardown", "check", "dial", "store", "release"}
    BY Zenon
  <2> QED  BY <1>1, <1>2, <2>1, <2>2, ReconnectTypes, Zenon
<1>5. SingleFlight'
  BY <1>1, <1>3, <1>4, Zenon DEF SingleFlight, Holds
<1>6. open = {} /\ conn = {}
  BY <1>1, Zenon DEF QuicInv, OpenIsKnown, Between
<1>7. OpenIsKnown'
  BY <1>1, <1>6, Zenon DEF QuicInv, OpenIsKnown, AtMostOne
<1> QED  BY <1>4, <1>5, <1>7, Zenon DEF QuicInv

\* A dial that succeeds.
LEMMA DialSucceedsStep == ASSUME QuicInv, NEW g \in Callers, Q!DialSucceeds(g) PROVE QuicInv'
<1>1. /\ UNCHANGED <<quicUp, quicChanges, lastAddrs, sock, conn, reconnecting, closed, withCtx, ctxDone, sending, receivers, rxCancelled, probe>>
      /\ quicPc[g] = "dial" /\ quicPc' = [quicPc EXCEPT ![g] = "store"] /\ Conns \ Q!Referred # {}
  BY Zenon DEF Q!DialSucceeds, Q!context, Q!net, Q!session
<1>2. PICK c \in Conns : open' = open \cup {c} /\ dialed' = [dialed EXCEPT ![g] = {c}]
  BY <1>1, Zenon DEF Q!DialSucceeds
<1>3. reconnecting /\ \A k \in Callers : k # g => quicPc[k] \in {"idle", "swap"}
  BY <1>1, Alone, Zenon DEF Holds
<1>4. dialed \in [Callers -> SUBSET Conns] /\ dialed' \in [Callers -> SUBSET Conns] /\ open' \subseteq Conns
  BY <1>2, Zenon DEF QuicInv, QuicTypes
<1>5. QuicTypes' /\ quicPc'[g] = "store" /\ \A k \in Callers : k # g => quicPc'[k] = quicPc[k]
  BY <1>1, <1>4, ReconnectTypes, Zenon DEF QuicInv, QuicTypes
<1>6. SingleFlight'
  BY <1>1, <1>3, <1>5, Zenon DEF SingleFlight, Holds
<1>7. open = {} /\ conn = {}
  BY <1>1, Zenon DEF QuicInv, OpenIsKnown, Between
<1>8. \A k \in Callers : AtMostOne(dialed'[k])
  BY <1>2, <1>4, Zenon DEF QuicInv, OpenIsKnown, AtMostOne
<1>9. \A k \in Callers : Between(k)' => k = g
  BY <1>3, <1>5, Zenon DEF Between
<1>10. Between(g)' /\ open' \subseteq dialed'[g]
  BY <1>2, <1>4, <1>5, <1>7, Zenon DEF Between
<1>11. OpenIsKnown'
  BY <1>1, <1>5, <1>7, <1>8, <1>9, <1>10, Zenon DEF OpenIsKnown, AtMostOne, Between
<1> QED  BY <1>5, <1>6, <1>11, Zenon DEF QuicInv

\* The new connection becomes the session's.
LEMMA QuicStoreStep == ASSUME QuicInv, NEW g \in Callers, Q!Store(g) PROVE QuicInv'
<1>1. /\ UNCHANGED <<quicUp, quicChanges, lastAddrs, sock, open, reconnecting, closed, withCtx, ctxDone, sending, rxCancelled, probe>>
      /\ quicPc[g] = "store" /\ quicPc' = [quicPc EXCEPT ![g] = "release"]
      /\ conn' = dialed[g] /\ receivers' = receivers \cup dialed[g] /\ dialed' = [dialed EXCEPT ![g] = {}]
  BY Zenon DEF Q!Store, Q!context, Q!net
<1>2. reconnecting /\ \A k \in Callers : k # g => quicPc[k] \in {"idle", "swap"}
  BY <1>1, Alone, Zenon DEF Holds
<1>3. dialed \in [Callers -> SUBSET Conns] /\ dialed' \in [Callers -> SUBSET Conns] /\ dialed[g] \subseteq Conns
  BY <1>1, Zenon DEF QuicInv, QuicTypes
<1>4. QuicTypes' /\ quicPc'[g] = "release" /\ \A k \in Callers : k # g => quicPc'[k] = quicPc[k]
  BY <1>1, <1>3, ReconnectTypes, Zenon DEF QuicInv, QuicTypes
<1>5. SingleFlight'
  BY <1>1, <1>2, <1>4, Zenon DEF SingleFlight, Holds
<1>6. \A k \in Callers : AtMostOne(dialed[k]) /\ AtMostOne(dialed'[k])
  BY <1>1, <1>3, Zenon DEF QuicInv, OpenIsKnown, AtMostOne
<1>7. open \subseteq dialed[g]
  BY <1>1, Zenon DEF QuicInv, OpenIsKnown, Between
<1>8. \A k \in Callers : ~Between(k)' /\ quicPc'[k] \notin {"check", "dial"}
  BY <1>2, <1>4, Zenon DEF Between
<1>9. OpenIsKnown'
  BY <1>1, <1>6, <1>7, <1>8, Zenon DEF OpenIsKnown, AtMostOne
<1> QED  BY <1>4, <1>5, <1>9, Zenon DEF QuicInv

\* The flag is released.
LEMMA ReleaseStep == ASSUME QuicInv, NEW g \in Callers, Q!Release(g) PROVE QuicInv'
<1>1. /\ UNCHANGED <<quicUp, quicChanges, lastAddrs, sock, open, conn, closed, withCtx, ctxDone, dialed, sending, receivers, rxCancelled, probe>>
      /\ quicPc[g] = "release" /\ quicPc' = [quicPc EXCEPT ![g] = "idle"] /\ reconnecting' = FALSE
  BY Zenon DEF Q!Release, Q!Released, Q!context, Q!net
<1>2. \A k \in Callers : k # g => quicPc[k] \in {"idle", "swap"}
  BY <1>1, Alone, Zenon DEF Holds
<1>3. QuicTypes' /\ quicPc'[g] = "idle" /\ \A k \in Callers : k # g => quicPc'[k] = quicPc[k]
  BY <1>1, ReconnectTypes, Zenon DEF QuicInv, QuicTypes
<1>4. SingleFlight'
  BY <1>2, <1>3, Zenon DEF SingleFlight, Holds
<1>5. \A k \in Callers : ~Between(k) /\ ~Between(k)' /\ quicPc'[k] \notin {"check", "dial"}
  BY <1>1, <1>2, <1>3, Zenon DEF Between
<1>6. OpenIsKnown'
  BY <1>1, <1>5, Zenon DEF QuicInv, OpenIsKnown, AtMostOne
<1> QED  BY <1>3, <1>4, <1>6, Zenon DEF QuicInv

\* The probe's loop and its receivers.
LEMMA ProbeStep ==
    ASSUME QuicInv, Q!SendReads \/ Q!SendDatagram \/ Q!NetCheck \/ Q!ProbeEnds \/ \E c \in Conns : Q!ReceiverExits(c)
    PROVE  QuicInv'
<1>1. CASE Q!SendReads
  <2>1. /\ UNCHANGED <<quicUp, quicChanges, lastAddrs, sock, open, conn, reconnecting, closed, quicPc, withCtx, ctxDone, dialed, receivers, rxCancelled, probe>>
        /\ sending' = [now |-> TRUE, on |-> conn]
    BY <1>1, Zenon DEF Q!SendReads, Q!context, Q!net, Q!session
  <2>2. sending'.now \in BOOLEAN /\ sending'.on = conn
    BY <2>1, Zenon
  <2>3. QuicTypes'
    BY <2>1, <2>2 DEF QuicInv, QuicTypes
  <2> QED  BY <2>1, <2>3, QuicElsewhere, Zenon
<1>2. CASE Q!SendDatagram
  <2>1. /\ UNCHANGED <<quicUp, quicChanges, lastAddrs, sock, open, conn, reconnecting, closed, ctxDone, dialed, receivers, rxCancelled, probe>>
        /\ sending' = Q!Silent
    BY <1>2, Zenon DEF Q!SendDatagram, Q!net, Q!session
  <2>2. sending'.now \in BOOLEAN /\ sending'.on = {}
    BY <2>1, Zenon DEF Q!Silent
  <2>3. UNCHANGED <<quicPc, withCtx>> \/ \E g \in Callers : Q!Spawn(g, FALSE)
    BY <1>2, Zenon DEF Q!SendDatagram
  <2>4. CASE UNCHANGED <<quicPc, withCtx>>
    <3>1. QuicTypes'
      BY <2>1, <2>2, <2>4 DEF QuicInv, QuicTypes
    <3> QED  BY <2>1, <2>4, <3>1, QuicElsewhere, Zenon
  <2>5. ASSUME NEW g \in Callers, Q!Spawn(g, FALSE) PROVE QuicInv'
    <3>1. quicPc[g] = "idle" /\ quicPc' = [quicPc EXCEPT ![g] = "swap"] /\ withCtx' \subseteq withCtx
      BY <2>5, Zenon DEF Q!Spawn
    <3>2. QuicTypes'
      BY <2>1, <2>2, <3>1 DEF QuicInv, QuicTypes
    <3> QED  BY <2>1, <3>1, <3>2, SpawnKeeps, Zenon
  <2> QED  BY <2>3, <2>4, <2>5, Zenon
<1>3. CASE Q!NetCheck
  <2>1. /\ UNCHANGED <<quicUp, quicChanges, sock, open, conn, reconnecting, closed, ctxDone, dialed, sending, receivers, rxCancelled, probe>>
        /\ lastAddrs' = quicChanges
    BY <1>3, Zenon DEF Q!NetCheck, Q!net, Q!session
  <2>2. lastAddrs' \in 0..quicChanges'
    BY <2>1, QuicAssumption DEF QuicInv, QuicTypes
  <2>3. PICK g \in Callers : quicPc[g] = "idle" /\ quicPc' = [quicPc EXCEPT ![g] = "swap"] /\ withCtx' = withCtx \cup {g}
    BY <1>3, Zenon DEF Q!NetCheck, Q!Spawn
  <2>4. QuicTypes'
    BY <2>1, <2>2, <2>3 DEF QuicInv, QuicTypes
  <2> QED  BY <2>1, <2>3, <2>4, SpawnKeeps, Zenon
<1>4. CASE Q!ProbeEnds
  <2>1. /\ UNCHANGED <<quicUp, quicChanges, lastAddrs, sock, open, conn, reconnecting, closed, quicPc, withCtx, dialed, sending, receivers, rxCancelled>>
        /\ probe' = "close" /\ ctxDone' \in BOOLEAN
    BY <1>4, Zenon DEF Q!ProbeEnds, Q!net, Q!session
  <2>2. QuicTypes'
    BY <2>1, Zenon DEF QuicInv, QuicTypes
  <2> QED  BY <2>1, <2>2, QuicElsewhere, Zenon
<1>5. ASSUME NEW c \in Conns, Q!ReceiverExits(c) PROVE QuicInv'
  <2>1. /\ UNCHANGED <<quicUp, quicChanges, lastAddrs, sock, open, conn, reconnecting, closed, quicPc, withCtx, ctxDone, dialed, sending, rxCancelled, probe>>
        /\ receivers' \subseteq receivers
    BY <1>5, Zenon DEF Q!ReceiverExits, Q!context, Q!net, Q!session
  <2>2. QuicTypes'
    BY <2>1 DEF QuicInv, QuicTypes
  <2> QED  BY <2>1, <2>2, QuicElsewhere, Zenon
<1> QED  BY <1>1, <1>2, <1>3, <1>4, <1>5, Zenon

\* The deferred calls of the probe.
LEMMA DeferredStep == ASSUME QuicInv, Q!Deferred PROVE QuicInv'
<1>1. CASE Q!CloseFlag \/ Q!CancelReceivers \/ Q!CloseSocket
  <2>1. /\ UNCHANGED <<quicUp, quicChanges, lastAddrs, conn, reconnecting, quicPc, withCtx, ctxDone, dialed, sending, receivers>>
        /\ open' \subseteq open /\ probe' \in {"closeConn", "socket", "done"}
    BY <1>1, Zenon DEF Q!CloseFlag, Q!CancelReceivers, Q!CloseSocket, Q!context, Q!net, Q!session
  <2>2. /\ closed' = TRUE \/ closed' = closed
        /\ rxCancelled' = TRUE \/ rxCancelled' = rxCancelled
        /\ sock' = FALSE \/ sock' = sock
    BY <1>1, Zenon DEF Q!CloseFlag, Q!CancelReceivers, Q!CloseSocket, Q!session
  <2>3. closed' \in BOOLEAN /\ rxCancelled' \in BOOLEAN /\ sock' \in BOOLEAN
    BY <2>2, Zenon DEF QuicInv, QuicTypes
  <2>4. QuicTypes'
    BY <2>1, <2>3, Zenon DEF QuicInv, QuicTypes
  <2> QED  BY <2>1, <2>4, QuicElsewhere, Zenon
<1>2. CASE Q!CloseConn
  <2>1. /\ UNCHANGED <<quicUp, quicChanges, lastAddrs, sock, reconnecting, closed, quicPc, withCtx, ctxDone, dialed, sending, receivers, rxCancelled>>
        /\ open' = open \ conn /\ conn' = {} /\ probe' = "cancel"
    BY <1>2, Zenon DEF Q!CloseConn, Q!context, Q!net
  <2>2. QuicTypes'
    BY <2>1, Zenon DEF QuicInv, QuicTypes
  <2>3. SingleFlight'
    BY <2>1, Zenon DEF QuicInv, SingleFlight, Holds
  <2>4. OpenIsKnown'
    BY <2>1, Zenon DEF QuicInv, OpenIsKnown, Between, AtMostOne
  <2> QED  BY <2>2, <2>3, <2>4, Zenon DEF QuicInv
<1> QED  BY <1>1, <1>2, Zenon DEF Q!Deferred

\* Every step of the module, and none.
LEMMA QuicStep == QuicInv /\ [Q!Next]_quicVars => QuicInv'
<1> SUFFICES ASSUME QuicInv, [Q!Next]_quicVars PROVE QuicInv'
  BY Zenon
<1>1. CASE UNCHANGED quicVars
  <2>1. UNCHANGED <<quicUp, quicChanges, lastAddrs, sock, open, conn, reconnecting, closed, quicPc, withCtx, ctxDone, dialed, sending, receivers, rxCancelled, probe>>
    BY <1>1, Zenon DEF quicVars
  <2>2. QuicTypes'
    BY <2>1 DEF QuicInv, QuicTypes
  <2> QED  BY <2>1, <2>2, QuicElsewhere, Zenon
<1>2. CASE Q!Next
  BY <1>2, NetStep, CompareAndSwapStep, TearDownStep, LoopStep, DialSucceedsStep, QuicStoreStep, ReleaseStep,
     ProbeStep, DeferredStep, Zenon DEF Q!Next, Q!Reconnecting
<1> QED  BY <1>1, <1>2, Zenon

\* A session never has two connections open, however many goroutines reconnect it
\* (reconnectLoop, Close).
THEOREM QuicSafe == Q!Spec => [](Q!TypeOK /\ OneConnection)
<1>1. Q!Init => QuicInv
  BY QuicInit, Zenon
<1>2. QuicInv /\ [Q!Next]_(Q!vars) => QuicInv'
  BY QuicStep, Zenon DEF quicVars, Q!vars
<1>3. QuicInv => Q!TypeOK /\ OneConnection
  BY QuicSays
<1> QED  BY <1>1, <1>2, <1>3, PTL DEF Q!Spec

=============================================================================
