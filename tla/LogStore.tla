------------------------------ MODULE LogStore ------------------------------
(***************************************************************************)
(* internal/db/audit.go and network_events.go, which share one design:     *)
(* handlers put entries into a bounded channel, a ticker drains it into    *)
(* the database in batches, and the shutdown of cmd/server/main.go drains  *)
(* it once more while requests are still being served.                     *)
(***************************************************************************)
EXTENDS Naturals, Sequences, FiniteSets

CONSTANTS
  Entries,     \* the entries handlers log, each once
  BufCap,      \* capacity of the channel (1000)
  FlushSize,   \* entries per transaction (100)
  MaxFails     \* bound on failing transactions

Flushers == {"ticker", "main"}

\* The entries of a channel, a batch or the table.
EntriesOf(s) == {s[i] : i \in DOMAIN s}

VARIABLES
  todo,      \* entries not logged yet
  buf,       \* the channel
  batch,     \* batch[w]: what flusher w has drained and not written
  fl,        \* fl[w]: where flush stands
  db,        \* the rows, in order of insertion
  dropped,   \* entries given up with a line in the log
  srv,       \* where main stands
  fails

vars == <<todo, buf, batch, fl, db, dropped, srv, fails>>

TypeOK ==
  /\ todo \subseteq Entries /\ dropped \subseteq Entries
  /\ buf \in Seq(Entries) /\ Len(buf) <= BufCap
  /\ batch \in [Flushers -> Seq(Entries)] /\ \A w \in Flushers : Len(batch[w]) <= FlushSize
  /\ fl \in [Flushers -> {"idle", "drain", "write", "full", "over"}]
  /\ db \in Seq(Entries) /\ fails \in 0..MaxFails
  /\ srv \in {"up", "flush", "flushed", "shut", "exited"}

Init ==
  /\ todo = Entries /\ buf = <<>> /\ batch = [w \in Flushers |-> <<>>]
  /\ fl = [w \in Flushers |-> "idle"] /\ db = <<>> /\ dropped = {} /\ srv = "up" /\ fails = 0

----------------------------------------------------------------------------
HasRoom == Len(buf) < BufCap

\* Log and Record never block a handler: without room the entry is dropped.
Log(e) ==
  /\ e \in todo /\ srv # "exited"
  /\ todo' = todo \ {e}
  /\ buf' = IF HasRoom THEN Append(buf, e) ELSE buf
  /\ dropped' = IF HasRoom THEN dropped ELSE dropped \cup {e}
  /\ UNCHANGED <<batch, fl, db, srv, fails>>

----------------------------------------------------------------------------
\* flush.

\* A plausible bug: a flush waits for a full batch.
DueWhenFull == Len(buf) >= FlushSize

Due == buf # <<>>

\* The ticker's case of StartFlusher's loop; once the context is cancelled it runs a
\* last time.  A tick on an empty channel changes nothing.
Tick ==
  /\ srv # "exited" /\ fl["ticker"] = "idle" /\ Due
  /\ fl' = [fl EXCEPT !["ticker"] = "drain"]
  /\ UNCHANGED <<todo, buf, batch, db, dropped, srv, fails>>

\* One round of the loop: an entry, or the default case when there is none.
Receive(w) ==
  /\ srv # "exited" /\ fl[w] = "drain"
  /\ IF buf # <<>>
     THEN LET b == Append(batch[w], Head(buf)) IN
          /\ buf' = Tail(buf) /\ batch' = [batch EXCEPT ![w] = b]
          /\ fl' = [fl EXCEPT ![w] = IF Len(b) >= FlushSize THEN "full" ELSE "drain"]
     ELSE /\ fl' = [fl EXCEPT ![w] = IF batch[w] = <<>> THEN "over" ELSE "write"]
          /\ UNCHANGED <<buf, batch>>
  /\ UNCHANGED <<todo, db, dropped, srv, fails>>

\* A plausible bug: a full batch is written and not emptied.
AfterWriteKept(w) == IF fl[w] = "full" THEN batch[w] ELSE <<>>

AfterWrite(w) == <<>>

\* writeBatch: one transaction, all rows or none; the id is the primary key.  A batch
\* whose transaction fails is dropped with a line in the log.
WriteBatch(w, ok) ==
  LET fits == EntriesOf(batch[w]) \cap EntriesOf(db) = {} IN
  /\ srv # "exited" /\ fl[w] \in {"write", "full"}
  /\ ~ok => fails < MaxFails
  /\ fails' = IF ok THEN fails ELSE fails + 1
  /\ db' = IF ok /\ fits THEN db \o batch[w] ELSE db
  /\ dropped' = IF ok /\ fits THEN dropped ELSE dropped \cup EntriesOf(batch[w])
  /\ batch' = [batch EXCEPT ![w] = AfterWrite(w)]
  /\ fl' = [fl EXCEPT ![w] = IF fl[w] = "full" THEN "drain" ELSE "over"]
  /\ UNCHANGED <<todo, buf, srv>>

FlushReturns ==
  /\ srv # "exited" /\ fl["ticker"] = "over"
  /\ fl' = [fl EXCEPT !["ticker"] = "idle"]
  /\ UNCHANGED <<todo, buf, batch, db, dropped, srv, fails>>

----------------------------------------------------------------------------
\* The end of main.

\* A signal: Flush, while the listener still accepts requests and the ticker runs.
Shutdown ==
  /\ srv = "up" /\ srv' = "flush" /\ fl' = [fl EXCEPT !["main"] = "drain"]
  /\ UNCHANGED <<todo, buf, batch, db, dropped, fails>>

\* StopAll and srv.Shutdown follow; requests in progress are waited for, ten seconds
\* at most, and websockets not at all.
ShutdownHTTP ==
  \/ /\ srv = "flush" /\ fl["main"] = "over" /\ srv' = "flushed"
     /\ UNCHANGED <<todo, buf, batch, fl, db, dropped, fails>>
  \/ /\ srv = "flushed" /\ srv' = "shut"
     /\ UNCHANGED <<todo, buf, batch, fl, db, dropped, fails>>

\* main returns; the deferred cancel asks the flusher for a last drain that nothing
\* waits for, so the process may end before, within or after it.
Exit ==
  /\ srv = "shut" /\ srv' = "exited"
  /\ UNCHANGED <<todo, buf, batch, fl, db, dropped, fails>>

----------------------------------------------------------------------------
Flush(w) == Receive(w) \/ \E ok \in BOOLEAN : WriteBatch(w, ok)

Ticking == Tick \/ Flush("ticker") \/ FlushReturns

Next ==
  \/ \E e \in Entries : Log(e)
  \/ Tick
  \/ \E w \in Flushers : Flush(w)
  \/ FlushReturns
  \/ Shutdown
  \/ ShutdownHTTP
  \/ Exit

Fairness == WF_vars(Ticking) /\ WF_vars(Flush("main"))

Spec == Init /\ [][Next]_vars /\ Fairness

----------------------------------------------------------------------------
\* Every entry is in one place: not logged yet, in the channel, in one flusher's batch,
\* in the table once, or given up with a line in the log.  Two flushers that drain the
\* channel at the same time neither write an entry twice nor lose one (flush, writeBatch).
Accounted ==
  LET held == buf \o batch["ticker"] \o batch["main"] \o db IN
  /\ Len(held) + Cardinality(todo) + Cardinality(dropped) = Cardinality(Entries)
  /\ EntriesOf(held) \cup todo \cup dropped = Entries

\* Whatever is put into the channel reaches the table or the log's list of dropped
\* entries, all of it at last, as long as the process lives (StartFlusher).
EventuallyWritten ==
  buf # <<>> ~> (Entries \ todo = EntriesOf(db) \cup dropped \/ srv = "exited")

=============================================================================
