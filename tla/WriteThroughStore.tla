------------------------- MODULE WriteThroughStore -------------------------
(***************************************************************************)
(* The write-through document store of one process: a synchronous mirror,   *)
(* a queue of pending upserts and one of pending deletes per key, and       *)
(* asynchronous passes that carry them to the table.  The shared drain is   *)
(* one pass at a time; every flush() runs passes of its own.                *)
(*                                                                         *)
(* A document is its version: 1, 2, ... in the order the process writes the *)
(* key, 0 when there is none.  A step runs from one await to the next; a    *)
(* statement takes effect in the step its reply is handled in.              *)
(***************************************************************************)
EXTENDS Integers, Sequences, FiniteSets

CONSTANTS
    Keys,
    Rows,            \* the keys that conditional operations work on, as on missions
    Flushers,        \* callers of flush(); "drain" is the shared drain
    MaxPending,      \* MAX_PENDING_WRITES
    Outages,         \* whether statements may fail
    MaxWrites, MaxRestarts     \* bounds of the checked instance

ASSUME FlushersAssumption == "drain" \notin Flushers
ASSUME RowsAssumption == Rows \subseteq Keys
ASSUME StoreBounds == /\ MaxPending \in Nat \ {0}
                      /\ MaxWrites \in Nat
                      /\ Outages \in BOOLEAN
                      /\ MaxRestarts \in Nat

Passes == {"drain"} \cup Flushers
NoDoc  == 0
Docs   == 1 .. MaxWrites
Items  == [key : Keys, doc : Docs]

VARIABLES
    mirror,           \* mirror[k]: the document reads are served from
    pendingWrites,    \* the upserts queued, oldest first, at most one per key
    pendingDeletes,   \* the keys whose delete is queued
    pass,             \* pass[p]: the state of p's drainOnce loop
    table,            \* table[k]: the row in the database
    count,            \* writes and restarts so far (bounds; writes number the documents)
    seen              \* history: a write was evicted, a flush ran passes of its own,
                      \* a statement failed

vars == <<mirror, pendingWrites, pendingDeletes, pass, table, count, seen>>

\* An idle pass; "joined" waits for the shared drain, "woken" is about to capture.
IdlePass == [pc |-> "idle", writes |-> <<>>, deletes |-> {}, progress |-> FALSE]

PassType == [pc : {"idle", "joined", "woken", "writing", "deleting"},
             writes : Seq(Items), deletes : SUBSET Keys, progress : BOOLEAN]

NothingSeen == [evicted |-> FALSE, flushed |-> FALSE, failed |-> FALSE]

TypeOK ==
    /\ mirror \in [Keys -> {NoDoc} \cup Docs]
    /\ table \in [Keys -> {NoDoc} \cup Docs]
    /\ pendingWrites \in Seq(Items)
    /\ pendingDeletes \subseteq Keys
    /\ pass \in [Passes -> PassType]
    /\ seen \in [evicted : BOOLEAN, flushed : BOOLEAN, failed : BOOLEAN]
    /\ \A i, j \in DOMAIN pendingWrites : pendingWrites[i].key = pendingWrites[j].key => i = j

Init ==
    /\ mirror = [k \in Keys |-> NoDoc]
    /\ table  = [k \in Keys |-> NoDoc]
    /\ pendingWrites  = <<>>
    /\ pendingDeletes = {}
    /\ pass  = [p \in Passes |-> IdlePass]
    /\ count = [writes |-> 0, restarts |-> 0]
    /\ seen = NothingSeen

----------------------------------------------------------------------------
(* The queue is a Map: setting a queued key replaces its document in place. *)

KeysOf(q) == { q[i].key : i \in DOMAIN q }

\* Mutants: a queue that keeps the version it holds, and one that is a list.
QueueKeepsFirst(q, item) == IF item.key \in KeysOf(q) THEN q ELSE Append(q, item)
QueueAppends(q, item)    == Append(q, item)

Queue(q, item) ==
    IF item.key \in KeysOf(q)
    THEN [i \in DOMAIN q |-> IF q[i].key = item.key THEN item ELSE q[i]]
    ELSE Append(q, item)

Unqueue(q, k) ==
    IF k \in KeysOf(q)
    THEN [i \in 1 .. Len(q) - 1 |-> IF \E j \in 1 .. i : q[j].key = k THEN q[i + 1] ELSE q[i]]
    ELSE q

\* Mutant: an overflow noticed one write late.
EvictLate(q) == IF Len(q) > MaxPending + 1 THEN Tail(q) ELSE q
Evict(q) == IF Len(q) > MaxPending THEN Tail(q) ELSE q

Overflows(k) == Len(pendingWrites) = MaxPending /\ k \notin KeysOf(pendingWrites)

\* drain(): a mutation starts the shared drain unless one is under way.
Wake == pass' = IF pass["drain"].pc = "idle"
                THEN [pass EXCEPT !["drain"] = [IdlePass EXCEPT !.pc = "woken"]]
                ELSE pass

----------------------------------------------------------------------------
\* Mutant: whole documents are saved whenever there is something to save.
MayWriteAlways(k) == TRUE

\* A mission is saved when it is created; after that its row is changed by
\* conditional operations alone.
MayWrite(k) == k \in Rows => mirror[k] = NoDoc

\* Mutant: a write that leaves a pending delete of its key in the queue.
WriteKeepsDelete(k) ==
    /\ MayWrite(k)
    /\ count.writes < MaxWrites
    /\ LET doc == count.writes + 1
       IN  /\ mirror' = [mirror EXCEPT ![k] = doc]
           /\ pendingWrites' = Evict(Queue(pendingWrites, [key |-> k, doc |-> doc]))
    /\ count' = [count EXCEPT !.writes = @ + 1]
    /\ seen' = [seen EXCEPT !.evicted = @ \/ Overflows(k)]
    /\ Wake
    /\ UNCHANGED <<table, pendingDeletes>>

Write(k) ==
    /\ MayWrite(k)
    /\ count.writes < MaxWrites
    /\ LET doc == count.writes + 1
       IN  /\ mirror' = [mirror EXCEPT ![k] = doc]
           /\ pendingWrites' = Evict(Queue(pendingWrites, [key |-> k, doc |-> doc]))
    /\ pendingDeletes' = pendingDeletes \ {k}
    /\ count' = [count EXCEPT !.writes = @ + 1]
    /\ seen' = [seen EXCEPT !.evicted = @ \/ Overflows(k)]
    /\ Wake
    /\ UNCHANGED table

Remove(k) ==
    /\ k \notin Rows
    /\ mirror[k] # NoDoc
    /\ mirror' = [mirror EXCEPT ![k] = NoDoc]
    /\ pendingWrites'  = Unqueue(pendingWrites, k)
    /\ pendingDeletes' = pendingDeletes \cup {k}
    /\ Wake
    /\ UNCHANGED <<table, count, seen>>

\* A transaction changes the row it has locked, or creates it, and remember() puts
\* the result in the mirror; the queue is left alone.
Transact(k) ==
    /\ count.writes < MaxWrites
    /\ table[k] # NoDoc \/ mirror[k] = NoDoc
    /\ LET doc == count.writes + 1
       IN  /\ table' = [table EXCEPT ![k] = doc]
           /\ mirror' = [mirror EXCEPT ![k] = doc]
    /\ count' = [count EXCEPT !.writes = @ + 1]
    /\ UNCHANGED <<pendingWrites, pendingDeletes, pass, seen>>

----------------------------------------------------------------------------
(* drainOnce: capture the writes and send them one by one, then capture and *)
(* send the deletes; the loop goes on while there is work and progress.     *)

\* Mutant: a capture of the writes that clears the deletes as well.
CaptureForgets(p, q, d) ==
    /\ pass' = [pass EXCEPT ![p] = IF q = <<>> THEN IdlePass
                                   ELSE [IdlePass EXCEPT !.pc = "writing", !.writes = q]]
    /\ pendingWrites' = <<>>
    /\ pendingDeletes' = {}

\* The pass state after capturing from the given queues, and what they keep.
Capture(p, q, d) ==
    IF q # <<>>
    THEN /\ pass' = [pass EXCEPT ![p] = [IdlePass EXCEPT !.pc = "writing", !.writes = q]]
         /\ pendingWrites' = <<>>
         /\ pendingDeletes' = d
    ELSE IF d # {}
    THEN /\ pass' = [pass EXCEPT ![p] = [IdlePass EXCEPT !.pc = "deleting", !.deletes = d]]
         /\ pendingWrites' = q
         /\ pendingDeletes' = {}
    ELSE /\ pass' = [pass EXCEPT ![p] = IdlePass]
         /\ pendingWrites' = q
         /\ pendingDeletes' = d

\* Mutant: a loop that goes on without progress.
ContinueAnyway(p, progress, q, d) == Capture(p, q, d)

\* The end of drainOnce: another round after progress, else the pass gives up.
Continue(p, progress, q, d) ==
    IF progress THEN Capture(p, q, d)
    ELSE /\ pass' = [pass EXCEPT ![p] = IdlePass]
         /\ pendingWrites' = q
         /\ pendingDeletes' = d

Start(p) ==
    /\ pass[p].pc = "woken"
    /\ Capture(p, pendingWrites, pendingDeletes)
    /\ UNCHANGED <<mirror, table, count, seen>>

\* The reply to the upsert in flight: `ok`, or an error whatever the table did.
AfterUpsert(p, ok, q) ==
    LET me == [pass[p] EXCEPT !.writes = Tail(@), !.progress = @ \/ ok] IN
    IF me.writes # <<>>
    THEN pass' = [pass EXCEPT ![p] = me] /\ pendingWrites' = q /\ UNCHANGED pendingDeletes
    ELSE IF pendingDeletes # {}
    THEN /\ pass' = [pass EXCEPT ![p] = [me EXCEPT !.pc = "deleting", !.deletes = pendingDeletes]]
         /\ pendingWrites' = q
         /\ pendingDeletes' = {}
    ELSE Continue(p, me.progress, q, pendingDeletes)

Upsert(p) ==
    LET item == Head(pass[p].writes) IN
    /\ pass[p].pc = "writing"
    /\ table' = [table EXCEPT ![item.key] = item.doc]
    /\ AfterUpsert(p, TRUE, pendingWrites)
    /\ UNCHANGED <<mirror, count, seen>>

UpsertFails(p) ==
    LET item == Head(pass[p].writes) IN
    /\ pass[p].pc = "writing"
    /\ Outages
    /\ table' \in {table, [table EXCEPT ![item.key] = item.doc]}
    /\ AfterUpsert(p, FALSE, Queue(pendingWrites, item))
    /\ seen' = [seen EXCEPT !.failed = TRUE]
    /\ UNCHANGED <<mirror, count>>

AfterDelete(p, k, ok, d) ==
    LET me == [pass[p] EXCEPT !.deletes = @ \ {k}, !.progress = @ \/ ok] IN
    IF me.deletes # {}
    THEN pass' = [pass EXCEPT ![p] = me] /\ pendingDeletes' = d /\ UNCHANGED pendingWrites
    ELSE Continue(p, me.progress, pendingWrites, d)

Delete(p) ==
    /\ pass[p].pc = "deleting"
    /\ \E k \in pass[p].deletes :
         /\ table' = [table EXCEPT ![k] = NoDoc]
         /\ AfterDelete(p, k, TRUE, pendingDeletes)
    /\ UNCHANGED <<mirror, count, seen>>

DeleteFails(p) ==
    /\ pass[p].pc = "deleting"
    /\ Outages
    /\ \E k \in pass[p].deletes :
         /\ table' \in {table, [table EXCEPT ![k] = NoDoc]}
         /\ AfterDelete(p, k, FALSE, pendingDeletes \cup {k})
    /\ seen' = [seen EXCEPT !.failed = TRUE]
    /\ UNCHANGED <<mirror, count>>

----------------------------------------------------------------------------
\* flush(): wait for the shared drain under way, if any, then run passes of its own.
Flush(f) ==
    /\ pass[f].pc = "idle"
    /\ pass["drain"].pc # "idle" \/ pendingWrites # <<>> \/ pendingDeletes # {}
    /\ IF pass["drain"].pc # "idle"
       THEN /\ pass' = [pass EXCEPT ![f] = [IdlePass EXCEPT !.pc = "joined"]]
            /\ UNCHANGED <<pendingWrites, pendingDeletes, seen>>
       ELSE /\ Capture(f, pendingWrites, pendingDeletes)
            /\ seen' = [seen EXCEPT !.flushed = TRUE]
    /\ UNCHANGED <<mirror, table, count>>

\* The drain it joined has ended (it may have been started again since).
Joined(f) ==
    /\ pass[f].pc = "joined"
    /\ pass["drain"].pc \in {"idle", "woken"}
    /\ Capture(f, pendingWrites, pendingDeletes)
    /\ seen' = [seen EXCEPT !.flushed = TRUE]
    /\ UNCHANGED <<mirror, table, count>>

\* A new process hydrates its mirror from the table; the queues are lost.
Restart ==
    /\ count.restarts < MaxRestarts
    /\ mirror' = table
    /\ pendingWrites'  = <<>>
    /\ pendingDeletes' = {}
    /\ pass' = [p \in Passes |-> IdlePass]
    /\ count' = [count EXCEPT !.restarts = @ + 1]
    /\ seen' = NothingSeen
    /\ UNCHANGED table

PassStep(p) == Start(p) \/ Upsert(p) \/ Delete(p) \/ UpsertFails(p) \/ DeleteFails(p)

Next ==
    \/ \E k \in Keys : Write(k) \/ Remove(k)
    \/ \E k \in Rows : Transact(k)
    \/ \E p \in Passes : PassStep(p)
    \/ \E f \in Flushers : Flush(f) \/ Joined(f)
    \/ Restart

Spec == Init /\ [][Next]_vars

\* Every statement is answered, and an awaited drain that ended wakes its flush.
FairSpec == /\ Spec
            /\ \A p \in Passes : WF_vars(PassStep(p))
            /\ \A f \in Flushers : WF_vars(Joined(f))

----------------------------------------------------------------------------
\* The keys some pass has captured and not yet settled.
InFlight == UNION { KeysOf(pass[p].writes) \cup pass[p].deletes : p \in Passes }

\* No mutation is lost on its way: a key whose row differs from the mirror is
\* queued or in flight, so the table catches up with what was served, as long as
\* the process evicted nothing, did not flush (two passes may carry one key), and no
\* statement failed after it took effect.
NothingLost ==
    ~seen.evicted /\ ~seen.flushed /\ ~seen.failed =>
        \A k \in Keys :
            table[k] # mirror[k] => k \in KeysOf(pendingWrites) \cup pendingDeletes \cup InFlight

\* One key is never queued both for an upsert and for a delete, unless a failure has
\* queued one of them again.
Superseded == ~seen.failed => KeysOf(pendingWrites) \cap pendingDeletes = {}

\* The queue is bounded, whatever is written while a batch is under way; only a
\* failed batch is queued again without a limit.
QueueBounded == ~seen.failed => Len(pendingWrites) <= MaxPending

\* A document that is queued is the one that is served: a key queued again while an
\* earlier version of it is in flight, or removed and written anew, is up to date.
LatestQueued ==
    ~seen.failed =>
        \A i \in DOMAIN pendingWrites : pendingWrites[i].doc = mirror[pendingWrites[i].key]

\* A committed change of a row is never undone by an older document that was on its
\* way through the queue and met no failure.
CommitKept == [][ ~seen'.failed => \A k \in Rows : table'[k] >= table[k] ]_vars

\* Every drain and every flush ends, also while the database is out: a round that
\* completes nothing stops the loop.
PassesEnd == \A p \in Passes : pass[p].pc # "idle" ~> pass[p].pc = "idle"
=============================================================================
