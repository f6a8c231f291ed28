------------------------------ MODULE EventHub ------------------------------
(***************************************************************************)
(* internal/api/events.go: the subscribers of one network's live events.   *)
(* A dashboard's websocket subscribes a channel, handlers publish into all *)
(* channels, a write pump empties each.  Publish takes the network's map   *)
(* under the read lock and walks it after the unlock, while Subscribe and  *)
(* Unsubscribe write that very map: the Go runtime ends the process when   *)
(* it notices such a walk, and a send on a closed channel panics.          *)
(***************************************************************************)
EXTENDS Naturals, Sequences, FiniteSets

CONSTANTS
  Conns,       \* websocket connections, each subscribes once
  Publishers,  \* handlers that publish one event each
  ChanCap      \* capacity of a channel (16)

Maps == 1..Cardinality(Conns)    \* a fresh map whenever the network has none

VARIABLES
  maps, cur,    \* maps[g]: contents of map object g; the one in the hub, 0 for none
  ws,           \* ws[c]: state of the connection
  ch,           \* ch[c]: events in its channel
  pub,          \* the publishers
  missed,       \* missed[c]: events dropped because the channel was full
  got,          \* got[c]: events put into the channel
  crashed       \* the process died

vars == <<maps, cur, ws, ch, pub, missed, got, crashed>>

\* The shape of the state; the hub's map holds exactly the channels whose Connect has
\* not returned, and a map that left the hub is empty.
TypeOK ==
  /\ maps \in [Maps -> SUBSET Conns] /\ cur \in Maps \cup {0}
  /\ ws \in [Conns -> {"none", "open", "left", "returning", "closed"}]
  /\ ch \in [Conns -> Seq(Publishers)] /\ \A c \in Conns : Len(ch[c]) <= ChanCap
  /\ pub \in [Publishers -> [pc : {"idle", "walk", "done", "panic"}, map : Maps \cup {0},
                             here : SUBSET Conns, seen : SUBSET Conns, at : Conns \cup {0}]]
  /\ missed \in [Conns -> SUBSET Publishers] /\ got \in [Conns -> SUBSET Publishers]
  /\ crashed \in BOOLEAN
  /\ \A g \in Maps :
       maps[g] = IF g = cur THEN {c \in Conns : ws[c] \in {"open", "left", "returning"}} ELSE {}

NoPub == [pc |-> "idle", map |-> 0, here |-> {}, seen |-> {}, at |-> 0]

Init ==
  /\ maps = [g \in Maps |-> {}] /\ cur = 0 /\ ws = [c \in Conns |-> "none"]
  /\ ch = [c \in Conns |-> <<>>] /\ pub = [p \in Publishers |-> NoPub]
  /\ missed = [c \in Conns |-> {}] /\ got = [c \in Conns |-> {}] /\ crashed = FALSE

----------------------------------------------------------------------------
\* Undefined behaviour: a map is written while a publisher walks it.  The runtime may
\* notice and end the process, or not.
MapWrite(g) ==
  crashed' \in IF \E p \in Publishers : pub[p].pc = "walk" /\ pub[p].map = g
               THEN BOOLEAN ELSE {FALSE}

\* EventHub.Subscribe makes a map for a network that has none.
Fresh == CHOOSE g \in Maps : g # cur /\ maps[g] = {} /\ \A p \in Publishers : pub[p].map # g

\* Connect up to Subscribe: the network is visible to the user, the upgrade succeeds.
Subscribe(c) ==
  LET g == IF cur = 0 THEN Fresh ELSE cur IN
  /\ ~crashed /\ ws[c] = "none"
  /\ MapWrite(g) /\ cur' = g /\ maps' = [maps EXCEPT ![g] = @ \cup {c}]
  /\ ws' = [ws EXCEPT ![c] = "open"]
  /\ UNCHANGED <<ch, pub, missed, got>>

Without(g, c) == maps[g] \ {c}

\* The deferred call when Connect returns; an empty map leaves the hub.
Unsubscribe(c) ==
  /\ ~crashed /\ ws[c] = "returning"
  /\ MapWrite(cur)
  /\ maps' = [maps EXCEPT ![cur] = Without(cur, c)]
  /\ cur' = IF Without(cur, c) = {} THEN 0 ELSE cur
  /\ ws' = [ws EXCEPT ![c] = "closed"] /\ ch' = [ch EXCEPT ![c] = <<>>]
  /\ UNCHANGED <<pub, missed, got>>

----------------------------------------------------------------------------
\* Publish.

PublishRead(p) ==
  /\ ~crashed /\ pub[p].pc = "idle"
  /\ pub' = [pub EXCEPT ![p] =
       IF cur = 0 THEN [NoPub EXCEPT !.pc = "done"]
       ELSE [NoPub EXCEPT !.pc = "walk", !.map = cur, !.here = maps[cur]]]
  /\ UNCHANGED <<maps, cur, ws, ch, missed, got, crashed>>

\* The walk of the live map yields some channel it has not yielded yet.
PublishNext(p) ==
  /\ ~crashed /\ pub[p].pc = "walk" /\ pub[p].at = 0
  /\ \E c \in maps[pub[p].map] \ pub[p].seen :
       pub' = [pub EXCEPT ![p].at = c, ![p].seen = @ \cup {c}]
  /\ UNCHANGED <<maps, cur, ws, ch, missed, got, crashed>>

\* The non-blocking send; on a channel closed meanwhile it panics, and the router's
\* Recoverer ends the request.
PublishSend(p) ==
  LET c == pub[p].at
      full == Len(ch[c]) = ChanCap
  IN
  /\ ~crashed /\ pub[p].pc = "walk" /\ c # 0
  /\ IF ws[c] = "closed"
     THEN pub' = [pub EXCEPT ![p] = [NoPub EXCEPT !.pc = "panic"]] /\ UNCHANGED <<ch, missed, got>>
     ELSE /\ pub' = [pub EXCEPT ![p] = [@ EXCEPT !.at = 0]]
          /\ ch' = IF full THEN ch ELSE [ch EXCEPT ![c] = Append(@, p)]
          /\ got' = IF full THEN got ELSE [got EXCEPT ![c] = @ \cup {p}]
          /\ missed' = IF full THEN [missed EXCEPT ![c] = @ \cup {p}] ELSE missed
  /\ UNCHANGED <<maps, cur, ws, crashed>>

\* A plausible bug: a full channel ends the walk.
WalkDoneAtFull(p) ==
  \/ pub[p].here \cap maps[pub[p].map] \subseteq pub[p].seen
  \/ \E c \in pub[p].seen : p \in missed[c]

\* The walk ends once it yielded every channel that was in the map all along; it need
\* not yield one that was added meanwhile.
WalkDone(p) == pub[p].here \cap maps[pub[p].map] \subseteq pub[p].seen

PublishEnds(p) ==
  /\ ~crashed /\ pub[p].pc = "walk" /\ pub[p].at = 0
  /\ WalkDone(p)
  /\ pub' = [pub EXCEPT ![p] = [NoPub EXCEPT !.pc = "done"]]
  /\ UNCHANGED <<maps, cur, ws, ch, missed, got, crashed>>

----------------------------------------------------------------------------
\* The connection.

\* External: the dashboard goes away.  The read pump ends; the write pump learns of it
\* with its next write.
ClientLeaves(c) ==
  /\ ~crashed /\ ws[c] = "open"
  /\ ws' = [ws EXCEPT ![c] = "left"]
  /\ UNCHANGED <<maps, cur, ch, pub, missed, got, crashed>>

\* The write pump returns when a write fails.
AfterWrite(c) == IF ws[c] = "left" THEN "returning" ELSE ws[c]

WritePump(c) ==
  /\ ~crashed /\ ws[c] \in {"open", "left"} /\ ch[c] # <<>>
  /\ ch' = [ch EXCEPT ![c] = Tail(@)]
  /\ ws' = [ws EXCEPT ![c] = AfterWrite(c)]
  /\ UNCHANGED <<maps, cur, pub, missed, got, crashed>>

----------------------------------------------------------------------------
Publish(p) == PublishRead(p) \/ PublishNext(p) \/ PublishSend(p) \/ PublishEnds(p)

Next ==
  \/ \E p \in Publishers : Publish(p)
  \/ \E c \in Conns : Subscribe(c) \/ ClientLeaves(c) \/ WritePump(c) \/ Unsubscribe(c)

Spec == Init /\ [][Next]_vars

----------------------------------------------------------------------------
\* When Publish returns, every subscriber that was there all along has the event in
\* its channel, or its channel was full: a slow subscriber, or one that comes or goes
\* meanwhile, takes nothing from the others (Publish's default branch).
Delivered ==
  [][\A p \in Publishers : pub[p].pc = "walk" /\ pub'[p].pc = "done" =>
       \A c \in pub[p].here : ws[c] # "closed" => p \in got[c] \cup missed[c]]_vars

=============================================================================
