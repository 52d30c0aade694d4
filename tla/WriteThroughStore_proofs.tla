---------------------- MODULE WriteThroughStore_proofs ----------------------
(***************************************************************************)
(* The safety of the write-through document store, for every set of keys    *)
(* and rows, every number of concurrent flushes, every queue bound and any  *)
(* number of restarts.                                                     *)
(*                                                                         *)
(* A queue is seen as the set of its entries.  Every step of a pass is a     *)
(* PassMove: it leaves to the pass what it had left, or hands it a whole     *)
(* queue, so nothing that was queued or in flight disappears except what    *)
(* the step settled.  The invariants are about those sets alone.            *)
(***************************************************************************)
EXTENDS WriteThroughStore, SequenceTheorems, TLAPS

----------------------------------------------------------------------------
(* Queues as sets of entries.                                               *)

Entries(q) == { q[i] : i \in DOMAIN q }

\* At most one entry per key.
OnePerKey(q) == \A i, j \in DOMAIN q : q[i].key = q[j].key => i = j

LEMMA SeqFacts ==
  ASSUME NEW q \in Seq(Items)
  PROVE  /\ Len(q) \in Nat /\ DOMAIN q = 1 .. Len(q)
         /\ \A i \in 1 .. Len(q) : q[i] \in Items
         /\ q = <<>> <=> Len(q) = 0
  BY LenProperties, EmptySeq

LEMMA SeqOf ==
  ASSUME NEW n \in Nat, NEW f \in [1 .. n -> Items]
  PROVE  f \in Seq(Items) /\ Len(f) = n /\ DOMAIN f = 1 .. n
  <1>1. f \in Seq(Items)
    BY SeqDef
  <1>2. DOMAIN f = 1 .. n
    OBVIOUS
  <1> QED  BY <1>1, <1>2, LenProperties

LEMMA KeysAreEntries ==
  ASSUME NEW q
  PROVE  /\ KeysOf(q) = { e.key : e \in Entries(q) }
         /\ \A k : k \in KeysOf(q) <=> \E e \in Entries(q) : e.key = k
  BY DEF KeysOf, Entries

LEMMA EntriesType ==
  ASSUME NEW q \in Seq(Items)
  PROVE  /\ Entries(q) \subseteq Items /\ KeysOf(q) \subseteq Keys
         /\ Entries(q) = {} <=> q = <<>>
  <1>1. /\ Len(q) \in Nat /\ DOMAIN q = 1 .. Len(q)
        /\ \A i \in 1 .. Len(q) : q[i] \in Items
        /\ q = <<>> <=> Len(q) = 0
    BY SeqFacts
  <1>2. \A e \in Items : e.key \in Keys
    BY DEF Items
  <1>3. Entries(q) \subseteq Items /\ KeysOf(q) \subseteq Keys
    BY <1>1, <1>2 DEF Entries, KeysOf
  <1>4. ASSUME Len(q) # 0  PROVE Entries(q) # {}
    <2>1. 1 \in DOMAIN q
      BY <1>1, <1>4
    <2> QED  BY <2>1 DEF Entries
  <1>5. ASSUME Len(q) = 0  PROVE Entries(q) = {}
    <2>1. DOMAIN q = {}
      BY <1>1, <1>5
    <2> QED  BY <2>1 DEF Entries
  <1> QED  BY <1>1, <1>3, <1>4, <1>5

LEMMA EmptyQueue ==
  /\ <<>> \in Seq(Items) /\ Len(<<>>) = 0 /\ OnePerKey(<<>>)
  /\ Entries(<<>>) = {} /\ KeysOf(<<>>) = {}
  <1>1. <<>> \in Seq(Items)
    BY EmptySeq
  <1> QED  BY <1>1, SeqFacts DEF Entries, KeysOf, OnePerKey

LEMMA EntriesOnce ==
  ASSUME NEW q \in Seq(Items), OnePerKey(q), NEW d \in Entries(q), NEW e \in Entries(q), d.key = e.key
  PROVE  d = e
  BY DEF Entries, OnePerKey

\* Queueing replaces the entry of the key or adds one.
LEMMA QueueMeans ==
  ASSUME NEW q \in Seq(Items), OnePerKey(q), NEW item \in Items
  PROVE  /\ Queue(q, item) \in Seq(Items)
         /\ OnePerKey(Queue(q, item))
         /\ Entries(Queue(q, item)) = { e \in Entries(q) : e.key # item.key } \cup {item}
         /\ Len(Queue(q, item)) = IF item.key \in KeysOf(q) THEN Len(q) ELSE Len(q) + 1
         /\ Queue(q, item) # <<>>
  <1>0. /\ Len(q) \in Nat /\ DOMAIN q = 1 .. Len(q)
        /\ \A i \in 1 .. Len(q) : q[i] \in Items
    BY SeqFacts
  <1>1. CASE item.key \in KeysOf(q)
    <2> DEFINE r == [i \in 1 .. Len(q) |-> IF q[i].key = item.key THEN item ELSE q[i]]
    <2>1. Queue(q, item) = r
      BY <1>0, <1>1 DEF Queue
    <2>2. r \in [1 .. Len(q) -> Items]
      BY <1>0
    <2>3. \A i \in 1 .. Len(q) : r[i] = (IF q[i].key = item.key THEN item ELSE q[i])
      OBVIOUS
    <2> HIDE DEF r
    <2>4. r \in Seq(Items) /\ Len(r) = Len(q) /\ DOMAIN r = 1 .. Len(q)
      BY <1>0, <2>2, SeqOf
    <2>5. OnePerKey(r)
      BY <1>0, <2>3, <2>4 DEF OnePerKey
    <2>6. PICK k \in 1 .. Len(q) : q[k].key = item.key
      BY <1>0, <1>1 DEF KeysOf
    <2>7. Entries(r) = { e \in Entries(q) : e.key # item.key } \cup {item}
      <3>1. \A e \in Entries(r) : e \in { d \in Entries(q) : d.key # item.key } \cup {item}
        BY <1>0, <2>3, <2>4 DEF Entries
      <3>2. \A e \in { d \in Entries(q) : d.key # item.key } : e \in Entries(r)
        BY <1>0, <2>3, <2>4 DEF Entries
      <3>3. item \in Entries(r)
        BY <2>3, <2>4, <2>6 DEF Entries
      <3> QED  BY <3>1, <3>2, <3>3
    <2>8. r # <<>>
      BY <2>4, <2>6, EmptyQueue
    <2> QED  BY <1>1, <2>1, <2>4, <2>5, <2>7, <2>8
  <1>2. CASE item.key \notin KeysOf(q)
    <2> DEFINE r == Append(q, item)
    <2>1. /\ Queue(q, item) = r /\ r \in Seq(Items) /\ Len(r) = Len(q) + 1
          /\ \A i \in 1 .. Len(q) : r[i] = q[i]
          /\ r[Len(q) + 1] = item
      BY <1>0, <1>2 DEF Queue
    <2> HIDE DEF r
    <2>2. DOMAIN r = 1 .. Len(q) + 1
      BY <2>1, SeqFacts
    <2>3. \A i \in 1 .. Len(q) : q[i].key # item.key
      BY <1>0, <1>2 DEF KeysOf
    <2>4. OnePerKey(r)
      BY <1>0, <2>1, <2>2, <2>3 DEF OnePerKey
    <2>5. Entries(r) = { e \in Entries(q) : e.key # item.key } \cup {item}
      <3>1. \A e \in Entries(r) : e \in { d \in Entries(q) : d.key # item.key } \cup {item}
        BY <1>0, <2>1, <2>2, <2>3 DEF Entries
      <3>2. \A e \in Entries(q) : e \in Entries(r)
        BY <1>0, <2>1, <2>2 DEF Entries
      <3>3. item \in Entries(r)
        BY <1>0, <2>1, <2>2 DEF Entries
      <3> QED  BY <3>1, <3>2, <3>3
    <2>6. r # <<>>
      BY <1>0, <2>1, EmptyQueue
    <2> QED  BY <1>2, <2>1, <2>4, <2>5, <2>6
  <1> QED  BY <1>1, <1>2

\* Taking the first entry off.
LEMMA TailMeans ==
  ASSUME NEW q \in Seq(Items), OnePerKey(q), q # <<>>
  PROVE  /\ Head(q) \in Entries(q)
         /\ Tail(q) \in Seq(Items) /\ OnePerKey(Tail(q))
         /\ Entries(Tail(q)) = Entries(q) \ {Head(q)}
         /\ Len(Tail(q)) = Len(q) - 1 /\ Len(q) > 0
  <1>0. /\ Len(q) \in Nat /\ DOMAIN q = 1 .. Len(q) /\ Len(q) > 0 /\ Head(q) = q[1]
    BY SeqFacts
  <1> DEFINE t == Tail(q)
  <1>1. /\ t \in Seq(Items) /\ Len(t) = Len(q) - 1
        /\ \A i \in 1 .. Len(q) - 1 : t[i] = q[i + 1]
    BY HeadTailProperties
  <1> HIDE DEF t
  <1>2. DOMAIN t = 1 .. Len(q) - 1
    BY <1>1, SeqFacts
  <1>3. OnePerKey(t)
    <2>1. ASSUME NEW i \in 1 .. Len(q) - 1, NEW j \in 1 .. Len(q) - 1, t[i].key = t[j].key
          PROVE  i = j
      <3>1. q[i + 1].key = q[j + 1].key /\ i + 1 \in DOMAIN q /\ j + 1 \in DOMAIN q
        BY <1>0, <1>1, <2>1
      <3>2. i + 1 = j + 1
        BY <3>1 DEF OnePerKey
      <3> QED  BY <1>0, <3>2
    <2> QED  BY <1>2, <2>1 DEF OnePerKey
  <1>4. Entries(t) = Entries(q) \ {Head(q)}
    <2>1. ASSUME NEW e \in Entries(t)  PROVE e \in Entries(q) /\ e # q[1]
      <3>1. PICK i \in 1 .. Len(q) - 1 : e = t[i]
        BY <1>2 DEF Entries
      <3>2. e = q[i + 1] /\ i + 1 \in DOMAIN q /\ 1 \in DOMAIN q /\ i + 1 # 1
        BY <1>0, <1>1, <3>1
      <3> QED  BY <3>2 DEF Entries, OnePerKey
    <2>2. ASSUME NEW e \in Entries(q), e # q[1]  PROVE e \in Entries(t)
      <3>1. PICK i \in 1 .. Len(q) : e = q[i]
        BY <1>0 DEF Entries
      <3>2. i - 1 \in 1 .. Len(q) - 1 /\ t[i - 1] = e
        BY <1>0, <1>1, <2>2, <3>1
      <3> QED  BY <1>2, <3>2 DEF Entries
    <2> QED  BY <1>0, <2>1, <2>2
  <1>5. Head(q) \in Entries(q)
    BY <1>0 DEF Entries
  <1> QED  BY <1>0, <1>1, <1>3, <1>4, <1>5 DEF t

\* Taking the entry of a key out, in the order of the others.
LEMMA UnqueueMeans ==
  ASSUME NEW q \in Seq(Items), OnePerKey(q), NEW k
  PROVE  /\ Unqueue(q, k) \in Seq(Items) /\ OnePerKey(Unqueue(q, k))
         /\ Entries(Unqueue(q, k)) = { e \in Entries(q) : e.key # k }
         /\ Len(Unqueue(q, k)) <= Len(q)
  <1>0. /\ Len(q) \in Nat /\ DOMAIN q = 1 .. Len(q)
        /\ \A i \in 1 .. Len(q) : q[i] \in Items
    BY SeqFacts
  <1>1. CASE k \notin KeysOf(q)
    <2>1. Unqueue(q, k) = q
      BY <1>1 DEF Unqueue
    <2> QED  BY <1>0, <1>1, <2>1 DEF Entries, KeysOf
  <1>2. CASE k \in KeysOf(q)
    <2>1. PICK m \in 1 .. Len(q) : q[m].key = k
      BY <1>0, <1>2 DEF KeysOf
    <2> DEFINE n == Len(q) - 1
               r == [i \in 1 .. n |-> IF \E j \in 1 .. i : q[j].key = k THEN q[i + 1] ELSE q[i]]
    <2>2. Unqueue(q, k) = r
      BY <1>2 DEF Unqueue
    <2>3. n \in Nat
      BY <1>0, <2>1
    <2>4. ASSUME NEW i \in 1 .. n
          PROVE  (\E j \in 1 .. i : q[j].key = k) <=> m <= i
      BY <1>0, <2>1, <2>4 DEF OnePerKey
    <2>5. \A i \in 1 .. n : r[i] = IF m <= i THEN q[i + 1] ELSE q[i]
      BY <2>4
    <2>6. r \in [1 .. n -> Items]
      BY <1>0
    <2> HIDE DEF r
    <2>7. r \in Seq(Items) /\ Len(r) = n /\ DOMAIN r = 1 .. n
      BY <2>3, <2>6, SeqOf
    <2>10. ASSUME NEW i \in 1 .. n
          PROVE  \E g \in DOMAIN q : r[i] = q[g] /\ g # m /\ g = IF m <= i THEN i + 1 ELSE i
      <3>1. CASE m <= i
        <4>1. i + 1 \in DOMAIN q /\ i + 1 # m /\ r[i] = q[i + 1]
          BY <1>0, <2>1, <2>5, <3>1
        <4> QED  BY <3>1, <4>1
      <3>2. CASE ~(m <= i)
        <4>1. i \in DOMAIN q /\ i # m /\ r[i] = q[i]
          BY <1>0, <2>1, <2>5, <3>2
        <4> QED  BY <3>2, <4>1
      <3> QED  BY <3>1, <3>2
    <2>8. OnePerKey(r)
      <3>1. ASSUME NEW i \in 1 .. n, NEW j \in 1 .. n, r[i].key = r[j].key  PROVE i = j
        <4>1. PICK g \in DOMAIN q : r[i] = q[g] /\ g = IF m <= i THEN i + 1 ELSE i
          BY <2>10
        <4>2. PICK h \in DOMAIN q : r[j] = q[h] /\ h = IF m <= j THEN j + 1 ELSE j
          BY <2>10
        <4>3. g = h
          BY <3>1, <4>1, <4>2 DEF OnePerKey
        <4> QED  BY <1>0, <2>1, <4>1, <4>2, <4>3
      <3> QED  BY <2>7, <3>1 DEF OnePerKey
    <2>9. Entries(r) = { e \in Entries(q) : e.key # k }
      <3>1. ASSUME NEW e \in Entries(r)  PROVE e \in Entries(q) /\ e.key # k
        <4>1. PICK i \in 1 .. n : e = r[i]
          BY <2>7 DEF Entries
        <4>2. PICK g \in DOMAIN q : r[i] = q[g] /\ g # m
          BY <2>10
        <4> QED  BY <1>0, <2>1, <4>1, <4>2 DEF Entries, OnePerKey
      <3>2. ASSUME NEW e \in Entries(q), e.key # k  PROVE e \in Entries(r)
        <4>1. PICK i \in 1 .. Len(q) : e = q[i]
          BY <1>0 DEF Entries
        <4>2. CASE i < m
          <5>1. i \in 1 .. n /\ r[i] = e
            BY <1>0, <2>1, <2>5, <4>1, <4>2
          <5> QED  BY <2>7, <5>1 DEF Entries
        <4>3. CASE i > m
          <5>1. i - 1 \in 1 .. n /\ r[i - 1] = e
            BY <1>0, <2>1, <2>5, <4>1, <4>3
          <5> QED  BY <2>7, <5>1 DEF Entries
        <4> QED  BY <1>0, <2>1, <3>2, <4>1, <4>2, <4>3
      <3> QED  BY <3>1, <3>2
    <2> QED  BY <1>0, <2>2, <2>7, <2>8, <2>9
  <1> QED  BY <1>1, <1>2
----------------------------------------------------------------------------
(* The inductive invariant.                                                 *)

\* A pass carries writes while it is writing, deletes while it is deleting.
Shaped(x) ==
    /\ x \in PassType
    /\ OnePerKey(x.writes)
    /\ x.writes # <<>> <=> x.pc = "writing"
    /\ x.deletes # {} <=> x.pc = "deleting"

Typed ==
    /\ mirror \in [Keys -> {NoDoc} \cup Docs]
    /\ table \in [Keys -> {NoDoc} \cup Docs]
    /\ pendingWrites \in Seq(Items) /\ OnePerKey(pendingWrites)
    /\ pendingDeletes \subseteq Keys
    /\ pass \in [Passes -> PassType]
    /\ \A p \in Passes : Shaped(pass[p])
    /\ count \in [writes : Nat, restarts : Nat]
    /\ seen \in [evicted : BOOLEAN, flushed : BOOLEAN, failed : BOOLEAN]

Queued     == Entries(pendingWrites)
Carried(p) == Entries(pass[p].writes)

\* The next document is newer than every row.
Numbered ==
    /\ \A k \in Keys : mirror[k] <= count.writes /\ table[k] <= count.writes
    /\ \A e \in Queued : e.doc <= count.writes
    /\ \A p \in Passes : \A e \in Carried(p) : e.doc <= count.writes

\* No row is on its way to be deleted.
RowsKept == \A k \in Rows : k \notin pendingDeletes /\ \A p \in Passes : k \notin pass[p].deletes

\* A key queued for deletion has no document.
DeletedIsGone == ~seen.failed => \A k \in pendingDeletes : mirror[k] = NoDoc

\* A row is written through the queue once, before it is in the table, and is carried
\* by the queue or by one pass.
CreatedOnce ==
    ~seen.failed => \A k \in Rows :
        /\ \A e \in Queued : e.key = k =>
             /\ table[k] = NoDoc /\ mirror[k] # NoDoc
             /\ \A p \in Passes : \A d \in Carried(p) : d.key # k
        /\ \A p \in Passes : \A e \in Carried(p) : e.key = k =>
             /\ table[k] = NoDoc /\ mirror[k] # NoDoc
             /\ \A r \in Passes : \A d \in Carried(r) : d.key = k => r = p
        /\ mirror[k] = NoDoc => table[k] = NoDoc

\* Only the shared drain is a pass at work.
DrainAlone == ~seen.flushed => \A f \in Flushers : pass[f].pc \in {"idle", "joined"}

Calm == ~seen.evicted /\ ~seen.flushed /\ ~seen.failed

\* What the drain carries is what is served, unless the key is queued again behind it.
Overtaken ==
    Calm => /\ \A e \in Carried("drain") : e.doc # mirror[e.key] =>
                 e.key \in KeysOf(pendingWrites) \cup pendingDeletes
            /\ \A k \in pass["drain"].deletes : mirror[k] # NoDoc => k \in KeysOf(pendingWrites)

IInv == /\ Typed /\ Numbered /\ RowsKept /\ QueueBounded /\ LatestQueued
        /\ DeletedIsGone /\ CreatedOnce /\ DrainAlone /\ Overtaken /\ NothingLost
----------------------------------------------------------------------------
(* Queueing with the bound, the steps of the passes, and what they carry.    *)

LEMMA EvictMeans ==
  ASSUME NEW q \in Seq(Items), OnePerKey(q)
  PROVE  /\ Evict(q) \in Seq(Items) /\ OnePerKey(Evict(q))
         /\ Entries(Evict(q)) \subseteq Entries(q)
         /\ Len(q) <= MaxPending + 1 => Len(Evict(q)) <= MaxPending
         /\ Len(q) <= MaxPending => Evict(q) = q
  <1>0. MaxPending \in Nat \ {0} /\ Len(q) \in Nat
    BY StoreBounds, SeqFacts
  <1>1. CASE Len(q) > MaxPending
    <2>1. q # <<>> /\ Evict(q) = Tail(q)
      BY <1>0, <1>1, EmptyQueue DEF Evict
    <2>2. /\ Tail(q) \in Seq(Items) /\ OnePerKey(Tail(q))
          /\ Entries(Tail(q)) = Entries(q) \ {Head(q)}
          /\ Len(Tail(q)) = Len(q) - 1
      BY <2>1, TailMeans
    <2>3. Len(q) <= MaxPending + 1 => Len(Tail(q)) <= MaxPending
      BY <1>0, <2>2
    <2>4. ~(Len(q) <= MaxPending)
      BY <1>0, <1>1
    <2> QED  BY <2>1, <2>2, <2>3, <2>4
  <1>2. CASE ~(Len(q) > MaxPending)
    BY <1>0, <1>2 DEF Evict
  <1> QED  BY <1>1, <1>2

\* What a write leaves in the queue.
LEMMA WriteQueues ==
  ASSUME Typed, NEW item \in Items
  PROVE  LET r == Evict(Queue(pendingWrites, item)) IN
         /\ r \in Seq(Items) /\ OnePerKey(r)
         /\ Entries(r) \subseteq { e \in Queued : e.key # item.key } \cup {item}
         /\ Len(pendingWrites) <= MaxPending =>
              /\ Len(r) <= MaxPending
              /\ ~Overflows(item.key) =>
                   Entries(r) = { e \in Queued : e.key # item.key } \cup {item}
  <1>0. /\ pendingWrites \in Seq(Items) /\ OnePerKey(pendingWrites)
        /\ MaxPending \in Nat \ {0} /\ Len(pendingWrites) \in Nat
    BY StoreBounds, SeqFacts DEF Typed
  <1>1. PICK s : s = Queue(pendingWrites, item)
    OBVIOUS
  <1>2. /\ s \in Seq(Items) /\ OnePerKey(s)
        /\ Entries(s) = { e \in Queued : e.key # item.key } \cup {item}
        /\ Len(s) = IF item.key \in KeysOf(pendingWrites) THEN Len(pendingWrites) ELSE Len(pendingWrites) + 1
    BY <1>0, <1>1, QueueMeans DEF Queued
  <1>3. /\ Evict(s) \in Seq(Items) /\ OnePerKey(Evict(s))
        /\ Entries(Evict(s)) \subseteq Entries(s)
        /\ Len(s) <= MaxPending + 1 => Len(Evict(s)) <= MaxPending
        /\ Len(s) <= MaxPending => Evict(s) = s
    BY <1>2, EvictMeans
  <1>4. Len(pendingWrites) <= MaxPending => Len(s) <= MaxPending + 1
    BY <1>0, <1>2
  <1>5. Len(pendingWrites) <= MaxPending /\ ~Overflows(item.key) => Len(s) <= MaxPending
    BY <1>0, <1>2 DEF Overflows
  <1> QED  BY <1>1, <1>2, <1>3, <1>4, <1>5

\* The keys in flight, before and after a step.
LEMMA InFlightMeans ==
  /\ \A k : k \in InFlight <=>
       \E p \in Passes : (\E e \in Carried(p) : e.key = k) \/ k \in pass[p].deletes
  /\ \A k : k \in InFlight' <=>
       \E p \in Passes : (\E e \in Carried(p)' : e.key = k) \/ k \in pass'[p].deletes
  BY KeysAreEntries DEF InFlight, Carried

\* A step that moves what passes carry is a pass p that has W and D left of what it
\* carried, with the queues at q and d: it keeps on, or takes one of the queues whole.
PassMove(p, W, D, q, d) ==
    \E x \in PassType :
        /\ Shaped(x)
        /\ pass' = [pass EXCEPT ![p] = x]
        /\ \/ /\ x.writes = W /\ x.deletes = D
              /\ pendingWrites' = q /\ pendingDeletes' = d
           \/ /\ W = <<>> /\ D = {} /\ x.writes = q /\ x.deletes = {}
              /\ pendingWrites' = <<>> /\ pendingDeletes' = d
           \/ /\ W = <<>> /\ D = {} /\ x.writes = <<>> /\ x.deletes = d
              /\ pendingWrites' = q /\ pendingDeletes' = {}

LEMMA ShapedPasses ==
  /\ IdlePass \in PassType /\ Shaped(IdlePass)
  /\ IdlePass.writes = <<>> /\ IdlePass.deletes = {} /\ IdlePass.pc = "idle"
  <1>1. IdlePass \in PassType
    BY EmptyQueue DEF IdlePass, PassType
  <1>2. IdlePass.writes = <<>> /\ IdlePass.deletes = {} /\ IdlePass.pc = "idle"
    BY DEF IdlePass
  <1> QED  BY <1>1, <1>2, EmptyQueue DEF Shaped

LEMMA CaptureMoves ==
  ASSUME Typed, NEW p \in Passes, NEW q \in Seq(Items), OnePerKey(q), NEW d \in SUBSET Keys,
         Capture(p, q, d)
  PROVE  PassMove(p, <<>>, {}, q, d)
  <1>1. CASE q # <<>>
    <2> DEFINE x == [IdlePass EXCEPT !.pc = "writing", !.writes = q]
    <2>1. x \in PassType /\ x.pc = "writing" /\ x.writes = q /\ x.deletes = {}
      BY DEF IdlePass, PassType
    <2>2. pass' = [pass EXCEPT ![p] = x] /\ pendingWrites' = <<>> /\ pendingDeletes' = d
      BY <1>1 DEF Capture
    <2> HIDE DEF x
    <2>3. Shaped(x)
      BY <1>1, <2>1 DEF Shaped
    <2> QED  BY <2>1, <2>2, <2>3 DEF PassMove
  <1>2. CASE q = <<>> /\ d # {}
    <2> DEFINE x == [IdlePass EXCEPT !.pc = "deleting", !.deletes = d]
    <2>1. x \in PassType /\ x.pc = "deleting" /\ x.writes = <<>> /\ x.deletes = d
      BY EmptyQueue DEF IdlePass, PassType
    <2>2. pass' = [pass EXCEPT ![p] = x] /\ pendingWrites' = q /\ pendingDeletes' = {}
      BY <1>2 DEF Capture
    <2> HIDE DEF x
    <2>3. Shaped(x)
      BY <1>2, <2>1, EmptyQueue DEF Shaped
    <2> QED  BY <2>1, <2>2, <2>3 DEF PassMove
  <1>3. CASE q = <<>> /\ d = {}
    <2>1. pass' = [pass EXCEPT ![p] = IdlePass] /\ pendingWrites' = q /\ pendingDeletes' = d
      BY <1>3 DEF Capture
    <2> QED  BY <2>1, ShapedPasses DEF PassMove
  <1> QED  BY <1>1, <1>2, <1>3

LEMMA ContinueMoves ==
  ASSUME Typed, NEW p \in Passes, NEW q \in Seq(Items), OnePerKey(q), NEW d \in SUBSET Keys,
         NEW progress \in BOOLEAN, Continue(p, progress, q, d)
  PROVE  PassMove(p, <<>>, {}, q, d)
  <1>1. CASE progress
    <2>1. Capture(p, q, d)
      BY <1>1 DEF Continue
    <2> QED  BY <2>1, CaptureMoves
  <1>2. CASE ~progress
    <2>1. pass' = [pass EXCEPT ![p] = IdlePass] /\ pendingWrites' = q /\ pendingDeletes' = d
      BY <1>2 DEF Continue
    <2> QED  BY <2>1, ShapedPasses DEF PassMove
  <1> QED  BY <1>1, <1>2

LEMMA UpsertMoves ==
  ASSUME Typed, NEW p \in Passes, pass[p].pc = "writing", NEW ok \in BOOLEAN,
         NEW q \in Seq(Items), OnePerKey(q), AfterUpsert(p, ok, q)
  PROVE  PassMove(p, Tail(pass[p].writes), {}, q, pendingDeletes)
  <1>0. /\ pass[p] \in PassType /\ Shaped(pass[p]) /\ pendingDeletes \in SUBSET Keys
        /\ pass[p].writes # <<>> /\ pass[p].deletes = {}
    BY DEF Typed, Shaped
  <1>1. /\ pass[p].writes \in Seq(Items) /\ OnePerKey(pass[p].writes)
        /\ pass[p].progress \in BOOLEAN
    BY <1>0 DEF Shaped, PassType
  <1>2. Tail(pass[p].writes) \in Seq(Items) /\ OnePerKey(Tail(pass[p].writes))
    BY <1>0, <1>1, TailMeans
  <1> DEFINE me == [pass[p] EXCEPT !.writes = Tail(@), !.progress = @ \/ ok]
             y == [me EXCEPT !.pc = "deleting", !.deletes = pendingDeletes]
  <1>3. /\ me \in PassType /\ me.pc = "writing" /\ me.writes = Tail(pass[p].writes)
        /\ me.deletes = {} /\ me.progress \in BOOLEAN
    BY <1>0, <1>1, <1>2 DEF PassType
  <1>4. /\ y \in PassType /\ y.pc = "deleting" /\ y.writes = Tail(pass[p].writes)
        /\ y.deletes = pendingDeletes
    BY <1>0, <1>1, <1>2 DEF PassType
  <1>5. IF me.writes # <<>>
        THEN pass' = [pass EXCEPT ![p] = me] /\ pendingWrites' = q /\ pendingDeletes' = pendingDeletes
        ELSE IF pendingDeletes # {}
        THEN /\ pass' = [pass EXCEPT ![p] = y] /\ pendingWrites' = q /\ pendingDeletes' = {}
        ELSE Continue(p, me.progress, q, pendingDeletes)
    BY DEF AfterUpsert
  <1> HIDE DEF me, y
  <1>6. CASE me.writes # <<>>
    <2>1. Shaped(me)
      BY <1>2, <1>3, <1>6 DEF Shaped
    <2> QED  BY <1>3, <1>5, <1>6, <2>1 DEF PassMove
  <1>7. CASE me.writes = <<>> /\ pendingDeletes # {}
    <2>1. Shaped(y)
      BY <1>2, <1>3, <1>4, <1>7 DEF Shaped
    <2> QED  BY <1>3, <1>4, <1>5, <1>7, <2>1 DEF PassMove
  <1>8. CASE me.writes = <<>> /\ pendingDeletes = {}
    <2>1. Continue(p, me.progress, q, pendingDeletes)
      BY <1>5, <1>8
    <2>2. PassMove(p, <<>>, {}, q, pendingDeletes)
      BY <1>0, <1>3, <2>1, ContinueMoves
    <2> QED  BY <1>3, <1>8, <2>2
  <1> QED  BY <1>6, <1>7, <1>8

LEMMA DeleteMoves ==
  ASSUME Typed, NEW p \in Passes, pass[p].pc = "deleting", NEW ok \in BOOLEAN,
         NEW k, NEW d \in SUBSET Keys, AfterDelete(p, k, ok, d)
  PROVE  PassMove(p, <<>>, pass[p].deletes \ {k}, pendingWrites, d)
  <1>0. /\ pass[p] \in PassType /\ Shaped(pass[p])
        /\ pendingWrites \in Seq(Items) /\ OnePerKey(pendingWrites)
        /\ pass[p].writes = <<>>
    BY DEF Typed, Shaped
  <1> DEFINE me == [pass[p] EXCEPT !.deletes = @ \ {k}, !.progress = @ \/ ok]
  <1>1. /\ me \in PassType /\ me.pc = "deleting" /\ me.writes = <<>>
        /\ me.deletes = pass[p].deletes \ {k} /\ me.progress \in BOOLEAN
    BY <1>0 DEF PassType
  <1>2. IF me.deletes # {}
        THEN pass' = [pass EXCEPT ![p] = me] /\ pendingDeletes' = d /\ pendingWrites' = pendingWrites
        ELSE Continue(p, me.progress, pendingWrites, d)
    BY DEF AfterDelete
  <1> HIDE DEF me
  <1>3. CASE me.deletes # {}
    <2>1. Shaped(me)
      BY <1>1, <1>3, EmptyQueue DEF Shaped
    <2> QED  BY <1>1, <1>2, <1>3, <2>1 DEF PassMove
  <1>4. CASE me.deletes = {}
    <2>1. Continue(p, me.progress, pendingWrites, d)
      BY <1>2, <1>4
    <2>2. PassMove(p, <<>>, {}, pendingWrites, d)
      BY <1>0, <1>1, <2>1, ContinueMoves
    <2> QED  BY <1>1, <1>4, <2>2
  <1> QED  BY <1>3, <1>4
\* A PassMove, told of entries: nothing that was left or queued disappears, and what a
\* pass takes over leaves its queue empty.
Moved(p, W, D, q, d) ==
    /\ pass' \in [Passes -> PassType] /\ \A r \in Passes : Shaped(pass'[r])
    /\ \A r \in Passes \ {p} : pass'[r] = pass[r]
    /\ pendingWrites' \in Seq(Items) /\ OnePerKey(pendingWrites')
    /\ Len(pendingWrites') <= Len(q)
    /\ Queued' \subseteq Entries(q)
    /\ pendingDeletes' \subseteq d
    /\ \A e \in Carried(p)' :
         \/ e \in Entries(W) /\ pendingWrites' = q /\ pendingDeletes' = d
         \/ e \in Entries(q) /\ Queued' = {}
    /\ \A k \in pass'[p].deletes : (k \in D /\ pendingWrites' = q) \/ k \in d
    /\ Entries(q) \cup Entries(W) \subseteq Queued' \cup Carried(p)'
    /\ d \cup D \subseteq pendingDeletes' \cup pass'[p].deletes

LEMMA MoveMeans ==
  ASSUME Typed, NEW p \in Passes,
         NEW W \in Seq(Items), NEW D \in SUBSET Keys,
         NEW q \in Seq(Items), OnePerKey(q), NEW d \in SUBSET Keys,
         PassMove(p, W, D, q, d)
  PROVE  Moved(p, W, D, q, d)
  <1>1. PICK x \in PassType :
        /\ Shaped(x)
        /\ pass' = [pass EXCEPT ![p] = x]
        /\ \/ /\ x.writes = W /\ x.deletes = D
              /\ pendingWrites' = q /\ pendingDeletes' = d
           \/ /\ W = <<>> /\ D = {} /\ x.writes = q /\ x.deletes = {}
              /\ pendingWrites' = <<>> /\ pendingDeletes' = d
           \/ /\ W = <<>> /\ D = {} /\ x.writes = <<>> /\ x.deletes = d
              /\ pendingWrites' = q /\ pendingDeletes' = {}
    BY DEF PassMove
  <1>2. /\ pass' \in [Passes -> PassType] /\ pass'[p] = x
        /\ \A r \in Passes \ {p} : pass'[r] = pass[r]
        /\ \A r \in Passes : Shaped(pass'[r])
    BY <1>1 DEF Typed
  <1>3. /\ pendingWrites' = q \/ pendingWrites' = <<>>
        /\ Len(q) \in Nat
    BY <1>1, SeqFacts
  <1>4. /\ pendingWrites' \in Seq(Items) /\ OnePerKey(pendingWrites')
        /\ Len(pendingWrites') <= Len(q)
        /\ Queued' \subseteq Entries(q)
    <2>1. CASE pendingWrites' = q
      BY <1>3, <2>1 DEF Queued
    <2>2. CASE pendingWrites' = <<>>
      <3>1. /\ <<>> \in Seq(Items) /\ Len(<<>>) = 0 /\ OnePerKey(<<>>)
            /\ Entries(<<>>) = {} /\ 0 <= Len(q)
        BY <1>3, EmptyQueue
      <3> QED  BY <2>2, <3>1 DEF Queued
    <2> QED  BY <1>3, <2>1, <2>2
  <1>5. /\ pendingDeletes' \subseteq d
        /\ \A k \in pass'[p].deletes : (k \in D /\ pendingWrites' = q) \/ k \in d
        /\ d \cup D \subseteq pendingDeletes' \cup pass'[p].deletes
    BY <1>1, <1>2
  <1>6. /\ Carried(p)' = Entries(x.writes)
        /\ Queued' = Entries(pendingWrites')
    BY <1>2 DEF Carried, Queued
  <1>7. /\ \A e \in Carried(p)' :
             \/ e \in Entries(W) /\ pendingWrites' = q /\ pendingDeletes' = d
             \/ e \in Entries(q) /\ Queued' = {}
        /\ Entries(q) \cup Entries(W) \subseteq Queued' \cup Carried(p)'
    BY <1>1, <1>6, EmptyQueue
  <1> QED  BY <1>2, <1>4, <1>5, <1>7 DEF Moved

----------------------------------------------------------------------------
(* What every step of a pass does, and why it keeps the invariant.           *)

\* Pass p settles or gives back some of what it carried, W and D being left, and moves
\* on from the queues q and d.  Only a failure gives anything back.  A row is settled
\* with the entry that was carried; and a key whose row is not up to date is still
\* left, or queued, if nothing happened that may lose a write.
PassDoes(p, W, D, q, d) ==
    /\ Entries(W) \subseteq Carried(p) /\ D \subseteq pass[p].deletes
    /\ Entries(q) \subseteq Queued \cup Carried(p)
    /\ d \subseteq pendingDeletes \cup pass[p].deletes
    /\ Moved(p, W, D, q, d)
    /\ mirror' = mirror /\ count' = count
    /\ table' \in [Keys -> {NoDoc} \cup Docs] /\ \A k \in Keys : table'[k] <= count.writes
    /\ seen' \in [evicted : BOOLEAN, flushed : BOOLEAN, failed : BOOLEAN]
    /\ seen'.evicted = seen.evicted
    /\ ~seen'.flushed => ~seen.flushed /\ p = "drain"
    /\ ~seen'.failed =>
         /\ ~seen.failed /\ q = pendingWrites /\ d = pendingDeletes
         /\ \A k \in Rows : \/ table'[k] = table[k]
                            \/ /\ \E e \in Carried(p) : e.key = k
                               /\ \A w \in Entries(W) : w.key # k
    /\ Calm' => \A k \in Keys : table'[k] # mirror[k] =>
                  \/ \E e \in Entries(q) \cup Entries(W) : e.key = k
                  \/ k \in d \cup D

LEMMA PassTyped ==
  ASSUME IInv, NEW p \in Passes, NEW W, NEW D, NEW q, NEW d, PassDoes(p, W, D, q, d)
  PROVE  Typed' /\ Numbered' /\ RowsKept'
  <1>1. Typed'
    <2>1. pass[p].deletes \subseteq Keys /\ pendingDeletes \subseteq Keys
      BY DEF IInv, Typed, PassType
    <2>2. pendingDeletes' \subseteq Keys
      BY <2>1 DEF PassDoes, Moved
    <2>3. /\ pass' \in [Passes -> PassType] /\ \A r \in Passes : Shaped(pass'[r])
          /\ pendingWrites' \in Seq(Items) /\ OnePerKey(pendingWrites')
      BY DEF PassDoes, Moved
    <2>4. /\ mirror' = mirror /\ count' = count
          /\ table' \in [Keys -> {NoDoc} \cup Docs]
          /\ seen' \in [evicted : BOOLEAN, flushed : BOOLEAN, failed : BOOLEAN]
      BY DEF PassDoes
    <2>5. mirror \in [Keys -> {NoDoc} \cup Docs] /\ count \in [writes : Nat, restarts : Nat]
      BY DEF IInv, Typed
    <2> QED  BY <2>2, <2>3, <2>4, <2>5 DEF Typed
  <1>2. /\ \A r \in Passes \ {p} : Carried(r)' = Carried(r)
        /\ Carried(p)' \subseteq Queued \cup Carried(p)
        /\ Queued' \subseteq Queued \cup Carried(p)
    BY DEF PassDoes, Moved, Carried
  <1>3. Numbered'
    <2>1. \A k \in Keys : mirror'[k] <= count'.writes /\ table'[k] <= count'.writes
      BY DEF IInv, Numbered, PassDoes
    <2>2. \A e \in Queued' : e.doc <= count'.writes
      BY <1>2 DEF IInv, Numbered, PassDoes
    <2>3. \A r \in Passes : \A e \in Carried(r)' : e.doc <= count'.writes
      BY <1>2 DEF IInv, Numbered, PassDoes
    <2> QED  BY <2>1, <2>2, <2>3 DEF Numbered
  <1>4. RowsKept'
    BY DEF IInv, RowsKept, PassDoes, Moved
  <1> QED  BY <1>1, <1>3, <1>4

LEMMA PassQueues ==
  ASSUME IInv, NEW p \in Passes, NEW W, NEW D, NEW q, NEW d, PassDoes(p, W, D, q, d)
  PROVE  QueueBounded' /\ LatestQueued' /\ DeletedIsGone' /\ DrainAlone'
  <1>0. /\ pendingWrites \in Seq(Items) /\ pendingWrites' \in Seq(Items)
        /\ Len(pendingWrites) \in Nat /\ Len(pendingWrites') \in Nat
        /\ MaxPending \in Nat
    BY StoreBounds, SeqFacts DEF IInv, Typed, PassDoes, Moved
  <1>1. QueueBounded'
    BY <1>0 DEF IInv, QueueBounded, PassDoes, Moved
  <1>2. ~seen'.failed => Queued' \subseteq Queued
    BY DEF PassDoes, Moved, Queued
  <1>3. LatestQueued'
    <2>1. ASSUME ~seen'.failed, NEW i \in DOMAIN pendingWrites'
          PROVE  pendingWrites'[i].doc = mirror'[pendingWrites'[i].key]
      <3>1. pendingWrites'[i] \in Queued
        BY <1>2, <2>1 DEF Queued, Entries
      <3>2. PICK j \in DOMAIN pendingWrites : pendingWrites'[i] = pendingWrites[j]
        BY <3>1 DEF Queued, Entries
      <3> QED  BY <2>1, <3>2 DEF IInv, LatestQueued, PassDoes
    <2> QED  BY <2>1 DEF LatestQueued
  <1>4. DeletedIsGone'
    BY DEF IInv, DeletedIsGone, PassDoes, Moved
  <1>5. DrainAlone'
    <2>1. ASSUME ~seen'.flushed, NEW f \in Flushers  PROVE pass'[f] = pass[f]
      BY <2>1, FlushersAssumption DEF PassDoes, Moved, Passes
    <2> QED  BY <2>1 DEF IInv, DrainAlone, PassDoes
  <1> QED  BY <1>1, <1>3, <1>4, <1>5

\* Entry by entry, the meaning of LatestQueued.
LEMMA LatestMeans ==
  ASSUME LatestQueued, ~seen.failed, NEW e \in Queued
  PROVE  e.doc = mirror[e.key]
  BY DEF LatestQueued, Queued, Entries

LEMMA PassRows ==
  ASSUME IInv, NEW p \in Passes, NEW W, NEW D, NEW q, NEW d, PassDoes(p, W, D, q, d)
  PROVE  CreatedOnce'
  <1> SUFFICES ASSUME ~seen'.failed, NEW k \in Rows
               PROVE  /\ \A e \in Queued' : e.key = k =>
                           /\ table'[k] = NoDoc /\ mirror'[k] # NoDoc
                           /\ \A r \in Passes : \A c \in Carried(r)' : c.key # k
                      /\ \A r \in Passes : \A e \in Carried(r)' : e.key = k =>
                           /\ table'[k] = NoDoc /\ mirror'[k] # NoDoc
                           /\ \A s \in Passes : \A c \in Carried(s)' : c.key = k => s = r
                      /\ mirror'[k] = NoDoc => table'[k] = NoDoc
    BY DEF CreatedOnce
  <1>1. /\ mirror' = mirror
        /\ \A r \in Passes \ {p} : Carried(r)' = Carried(r)
        /\ \A e \in Carried(p)' : e \in Entries(W) \/ (e \in Queued /\ Queued' = {})
        /\ Entries(W) \subseteq Carried(p)
        /\ Queued' \subseteq Queued
        /\ \/ table'[k] = table[k]
           \/ /\ \E e \in Carried(p) : e.key = k
              /\ \A w \in Entries(W) : w.key # k
    BY DEF PassDoes, Moved, Queued, Carried
  <1>2. /\ \A e \in Queued : e.key = k =>
             /\ table[k] = NoDoc /\ mirror[k] # NoDoc
             /\ \A r \in Passes : \A c \in Carried(r) : c.key # k
        /\ \A r \in Passes : \A e \in Carried(r) : e.key = k =>
             /\ table[k] = NoDoc /\ mirror[k] # NoDoc
             /\ \A s \in Passes : \A c \in Carried(s) : c.key = k => s = r
        /\ mirror[k] = NoDoc => table[k] = NoDoc
    BY DEF IInv, CreatedOnce, PassDoes
  <1>3. ASSUME NEW e \in Queued', e.key = k
        PROVE  /\ table'[k] = NoDoc /\ mirror'[k] # NoDoc
               /\ \A r \in Passes : \A c \in Carried(r)' : c.key # k
    BY <1>1, <1>2, <1>3
  <1>4. ASSUME NEW r \in Passes, NEW e \in Carried(r)', e.key = k
        PROVE  /\ table'[k] = NoDoc /\ mirror'[k] # NoDoc
               /\ \A s \in Passes : \A c \in Carried(s)' : c.key = k => s = r
    <2>1. CASE r # p
      <3>1. e \in Carried(r)
        BY <1>1, <1>4, <2>1
      <3> QED  BY <1>1, <1>2, <1>4, <2>1, <3>1
    <2>2. CASE r = p /\ e \in Entries(W)
      BY <1>1, <1>2, <1>4, <2>2
    <2>3. CASE r = p /\ e \in Queued
      BY <1>1, <1>2, <1>4, <2>3
    <2> QED  BY <1>1, <1>4, <2>1, <2>2, <2>3
  <1>5. mirror'[k] = NoDoc => table'[k] = NoDoc
    BY <1>1, <1>2
  <1> QED  BY <1>3, <1>4, <1>5

LEMMA PassLosesNothing ==
  ASSUME IInv, NEW p \in Passes, NEW W, NEW D, NEW q, NEW d, PassDoes(p, W, D, q, d)
  PROVE  Overtaken' /\ NothingLost'
  <1> SUFFICES ASSUME Calm'
               PROVE  /\ \A e \in Carried("drain")' : e.doc # mirror'[e.key] =>
                           e.key \in KeysOf(pendingWrites') \cup pendingDeletes'
                      /\ \A k \in pass'["drain"].deletes :
                           mirror'[k] # NoDoc => k \in KeysOf(pendingWrites')
                      /\ \A k \in Keys : table'[k] # mirror'[k] =>
                           k \in KeysOf(pendingWrites') \cup pendingDeletes' \cup InFlight'
    BY DEF Overtaken, NothingLost, Calm
  <1>1. /\ p = "drain" /\ mirror' = mirror /\ Calm /\ LatestQueued /\ ~seen.failed
        /\ q = pendingWrites /\ d = pendingDeletes
        /\ DeletedIsGone /\ Overtaken
    BY DEF IInv, PassDoes, Calm
  <1>2. \A e \in Carried("drain")' : e.doc # mirror'[e.key] =>
          e.key \in KeysOf(pendingWrites') \cup pendingDeletes'
    <2>1. ASSUME NEW e \in Carried("drain")', e.doc # mirror[e.key]
          PROVE  e.key \in KeysOf(pendingWrites') \cup pendingDeletes'
      <3>1. CASE e \in Entries(W) /\ pendingWrites' = q /\ pendingDeletes' = d
        BY <1>1, <2>1, <3>1 DEF Overtaken, PassDoes
      <3>2. CASE e \in Entries(q)
        BY <1>1, <2>1, <3>2, LatestMeans DEF Queued
      <3> QED  BY <1>1, <2>1, <3>1, <3>2 DEF PassDoes, Moved
    <2> QED  BY <1>1, <2>1
  <1>3. \A k \in pass'["drain"].deletes : mirror'[k] # NoDoc => k \in KeysOf(pendingWrites')
    BY <1>1 DEF PassDoes, Moved, Overtaken, DeletedIsGone
  <1>4. \A k \in Keys : table'[k] # mirror'[k] =>
          k \in KeysOf(pendingWrites') \cup pendingDeletes' \cup InFlight'
    <2>1. ASSUME NEW k \in Keys, table'[k] # mirror[k]
          PROVE  k \in KeysOf(pendingWrites') \cup pendingDeletes' \cup InFlight'
      <3>1. \/ \E e \in Queued' \cup Carried(p)' : e.key = k
            \/ k \in pendingDeletes' \cup pass'[p].deletes
        BY <2>1 DEF PassDoes, Moved
      <3>2. Queued' = Entries(pendingWrites')
        BY DEF Queued
      <3> QED  BY <3>1, <3>2, KeysAreEntries, InFlightMeans
    <2> QED  BY <1>1, <2>1
  <1> QED  BY <1>2, <1>3, <1>4

LEMMA PassKeeps ==
  ASSUME IInv, NEW p \in Passes, NEW W, NEW D, NEW q, NEW d, PassDoes(p, W, D, q, d)
  PROVE  IInv'
  BY PassTyped, PassQueues, PassRows, PassLosesNothing DEF IInv
\* A key whose row is behind is queued, or carried by the drain.
LEMMA WantedMeans ==
  ASSUME IInv, Calm, NEW k \in Keys, table[k] # mirror[k]
  PROVE  \/ \E e \in Queued \cup Carried("drain") : e.key = k
         \/ k \in pendingDeletes \cup pass["drain"].deletes
  <1>1. k \in KeysOf(pendingWrites) \cup pendingDeletes \cup InFlight
    BY DEF IInv, NothingLost, Calm
  <1>2. ASSUME NEW f \in Flushers  PROVE Carried(f) = {} /\ pass[f].deletes = {}
    <2>1. pass[f].pc \in {"idle", "joined"} /\ Shaped(pass[f])
      BY DEF IInv, DrainAlone, Calm, Typed, Passes
    <2>2. pass[f].writes = <<>> /\ pass[f].deletes = {}
      BY <2>1 DEF Shaped
    <2> QED  BY <2>2, EmptyQueue DEF Carried
  <1>3. CASE k \in KeysOf(pendingWrites)
    BY <1>3, KeysAreEntries DEF Queued
  <1>4. CASE k \in InFlight
    BY <1>2, <1>4, InFlightMeans DEF Passes
  <1> QED  BY <1>1, <1>3, <1>4

\* What the documents and queues are, for the steps below.
LEMMA Typing ==
  ASSUME IInv, NEW p \in Passes
  PROVE  /\ pendingWrites \in Seq(Items) /\ OnePerKey(pendingWrites)
         /\ pendingDeletes \in SUBSET Keys
         /\ pass[p] \in PassType /\ Shaped(pass[p])
         /\ pass[p].writes \in Seq(Items) /\ OnePerKey(pass[p].writes)
         /\ pass[p].deletes \in SUBSET Keys
         /\ table \in [Keys -> {NoDoc} \cup Docs] /\ \A k \in Keys : table[k] <= count.writes
         /\ mirror \in [Keys -> {NoDoc} \cup Docs] /\ \A k \in Keys : mirror[k] <= count.writes
         /\ seen \in [evicted : BOOLEAN, flushed : BOOLEAN, failed : BOOLEAN]
         /\ count \in [writes : Nat, restarts : Nat]
         /\ Carried(p) \subseteq Items /\ Queued \subseteq Items
  <1>1. pass[p] \in PassType /\ pendingWrites \in Seq(Items)
    BY DEF IInv, Typed
  <1>2. pass[p].writes \in Seq(Items) /\ pass[p].deletes \in SUBSET Keys
    BY <1>1 DEF PassType
  <1>3. Carried(p) \subseteq Items /\ Queued \subseteq Items
    BY <1>1, <1>2, EntriesType DEF Carried, Queued
  <1> QED  BY <1>1, <1>2, <1>3 DEF IInv, Typed, Shaped, Numbered

\* A pass that carries nothing takes from the queues.
LEMMA CaptureKeeps ==
  ASSUME IInv, NEW p \in Passes, pass[p].writes = <<>>, pass[p].deletes = {},
         Capture(p, pendingWrites, pendingDeletes),
         mirror' = mirror, table' = table, count' = count,
         seen' \in [evicted : BOOLEAN, flushed : BOOLEAN, failed : BOOLEAN],
         seen'.evicted = seen.evicted, seen'.failed = seen.failed,
         ~seen'.flushed => ~seen.flushed /\ p = "drain"
  PROVE  IInv'
  <1>0. /\ pendingWrites \in Seq(Items) /\ OnePerKey(pendingWrites)
        /\ pendingDeletes \in SUBSET Keys
        /\ table \in [Keys -> {NoDoc} \cup Docs] /\ \A k \in Keys : table[k] <= count.writes
        /\ Typed
    BY Typing DEF IInv
  <1>1. PassMove(p, <<>>, {}, pendingWrites, pendingDeletes)
    BY <1>0, CaptureMoves
  <1>2. Moved(p, <<>>, {}, pendingWrites, pendingDeletes)
    BY <1>0, <1>1, EmptyQueue, MoveMeans
  <1>3. Entries(<<>>) = {}
    BY EmptyQueue
  <1>4. ASSUME Calm', NEW k \in Keys, table'[k] # mirror[k]
        PROVE  \/ \E e \in Entries(pendingWrites) \cup Entries(<<>>) : e.key = k
               \/ k \in pendingDeletes \cup {}
    <2>1. Calm /\ p = "drain"
      BY <1>4 DEF Calm
    <2>2. Carried("drain") = {}
      BY <1>3, <2>1 DEF Carried
    <2> QED  BY <1>4, <2>1, <2>2, WantedMeans DEF Queued
  <1>5. PassDoes(p, <<>>, {}, pendingWrites, pendingDeletes)
    BY <1>0, <1>2, <1>3, <1>4 DEF PassDoes, Queued
  <1> QED  BY <1>5, PassKeeps

LEMMA StartKeeps ==
  ASSUME IInv, NEW p \in Passes, Start(p)
  PROVE  IInv'
  <1>1. pass[p].pc = "woken" /\ Shaped(pass[p])
    BY Typing DEF Start
  <1>2. pass[p].writes = <<>> /\ pass[p].deletes = {}
    BY <1>1 DEF Shaped
  <1>3. ~seen.flushed => p = "drain"
    BY <1>1 DEF IInv, DrainAlone, Passes
  <1>4. /\ mirror' = mirror /\ table' = table /\ count' = count /\ seen' = seen
        /\ Capture(p, pendingWrites, pendingDeletes)
    BY DEF Start
  <1>5. seen \in [evicted : BOOLEAN, flushed : BOOLEAN, failed : BOOLEAN]
    BY Typing
  <1> QED  BY <1>2, <1>3, <1>4, <1>5, CaptureKeeps

LEMMA JoinedKeeps ==
  ASSUME IInv, NEW f \in Flushers, Joined(f)
  PROVE  IInv'
  <1>0. f \in Passes
    BY DEF Passes
  <1>1. pass[f].pc = "joined" /\ Shaped(pass[f])
    BY <1>0, Typing DEF Joined
  <1>2. pass[f].writes = <<>> /\ pass[f].deletes = {}
    BY <1>1 DEF Shaped
  <1>3. seen \in [evicted : BOOLEAN, flushed : BOOLEAN, failed : BOOLEAN]
    BY <1>0, Typing
  <1>4. /\ mirror' = mirror /\ table' = table /\ count' = count
        /\ seen' = [seen EXCEPT !.flushed = TRUE]
        /\ Capture(f, pendingWrites, pendingDeletes)
    BY DEF Joined
  <1>5. /\ seen' \in [evicted : BOOLEAN, flushed : BOOLEAN, failed : BOOLEAN]
        /\ seen'.evicted = seen.evicted /\ seen'.failed = seen.failed /\ seen'.flushed
    BY <1>3, <1>4
  <1> QED  BY <1>0, <1>2, <1>4, <1>5, CaptureKeeps

\* The upserts.  One that fails gives the entry back to the queue, whatever the table did.
LEMMA UpsertKeeps ==
  ASSUME IInv, NEW p \in Passes, Upsert(p)
  PROVE  IInv'
  <1> DEFINE item == Head(pass[p].writes)
             W == Tail(pass[p].writes)
  <1>1. pass[p].pc = "writing" /\ AfterUpsert(p, TRUE, pendingWrites)
    BY DEF Upsert
  <1>2. /\ table' = [table EXCEPT ![item.key] = item.doc]
        /\ mirror' = mirror /\ count' = count /\ seen' = seen
    BY DEF Upsert
  <1>3. /\ pendingWrites \in Seq(Items) /\ OnePerKey(pendingWrites)
        /\ pendingDeletes \in SUBSET Keys
        /\ Shaped(pass[p]) /\ pass[p].writes \in Seq(Items) /\ OnePerKey(pass[p].writes)
        /\ table \in [Keys -> {NoDoc} \cup Docs] /\ \A k \in Keys : table[k] <= count.writes
        /\ seen \in [evicted : BOOLEAN, flushed : BOOLEAN, failed : BOOLEAN]
        /\ Carried(p) \subseteq Items
        /\ Typed
    BY Typing DEF IInv
  <1>4. pass[p].writes # <<>>
    BY <1>1, <1>3 DEF Shaped
  <1>5. /\ item \in Carried(p) /\ item \in Items
        /\ W \in Seq(Items) /\ OnePerKey(W)
        /\ Entries(W) = Carried(p) \ {item}
    BY <1>3, <1>4, TailMeans DEF Carried
  <1>6. \A w \in Entries(W) : w.key # item.key
    BY <1>3, <1>5, EntriesOnce DEF Carried
  <1> HIDE DEF item, W
  <1>7. item.key \in Keys /\ item.doc \in Docs /\ item.doc <= count.writes
    BY <1>5 DEF Items, IInv, Numbered
  <1>8. PassMove(p, W, {}, pendingWrites, pendingDeletes)
    BY <1>1, <1>3, UpsertMoves DEF W
  <1>9. Moved(p, W, {}, pendingWrites, pendingDeletes)
    BY <1>3, <1>5, <1>8, MoveMeans
  <1>10. ~seen.flushed => p = "drain"
    BY <1>1 DEF IInv, DrainAlone, Passes
  <1>11. ASSUME Calm', NEW k \in Keys, table'[k] # mirror[k]
         PROVE  \/ \E e \in Entries(pendingWrites) \cup Entries(W) : e.key = k
                \/ k \in pendingDeletes \cup {}
    <2>1. Calm /\ p = "drain"
      BY <1>2, <1>10, <1>11 DEF Calm
    <2>2. CASE k = item.key
      <3>1. item.doc # mirror[item.key]
        BY <1>2, <1>3, <1>7, <1>11, <2>2
      <3>2. k \in KeysOf(pendingWrites) \cup pendingDeletes
        BY <1>5, <2>1, <2>2, <3>1 DEF IInv, Overtaken
      <3> QED  BY <3>2, KeysAreEntries
    <2>3. CASE k # item.key
      <3>1. table[k] # mirror[k]
        BY <1>2, <1>3, <1>11, <2>3
      <3>2. pass[p].deletes = {}
        BY <1>1, <1>3 DEF Shaped
      <3> QED  BY <1>5, <2>1, <2>3, <3>1, <3>2, WantedMeans DEF Queued
    <2> QED  BY <2>2, <2>3
  <1>12. /\ table' \in [Keys -> {NoDoc} \cup Docs] /\ \A k \in Keys : table'[k] <= count.writes
         /\ \A k \in Keys : table'[k] = table[k] \/ k = item.key
    BY <1>2, <1>3, <1>7
  <1>13. PassDoes(p, W, {}, pendingWrites, pendingDeletes)
    BY <1>2, <1>3, <1>5, <1>6, <1>9, <1>10, <1>11, <1>12, RowsAssumption DEF PassDoes, Queued
  <1> QED  BY <1>13, PassKeeps

LEMMA UpsertFailsKeeps ==
  ASSUME IInv, NEW p \in Passes, UpsertFails(p)
  PROVE  IInv'
  <1> DEFINE item == Head(pass[p].writes)
             W == Tail(pass[p].writes)
             q == Queue(pendingWrites, item)
  <1>1. pass[p].pc = "writing" /\ AfterUpsert(p, FALSE, q)
    BY DEF UpsertFails
  <1>2. /\ table' \in {table, [table EXCEPT ![item.key] = item.doc]}
        /\ mirror' = mirror /\ count' = count
        /\ seen' = [seen EXCEPT !.failed = TRUE]
    BY DEF UpsertFails
  <1>3. /\ pendingWrites \in Seq(Items) /\ OnePerKey(pendingWrites)
        /\ pendingDeletes \in SUBSET Keys
        /\ Shaped(pass[p]) /\ pass[p].writes \in Seq(Items) /\ OnePerKey(pass[p].writes)
        /\ table \in [Keys -> {NoDoc} \cup Docs] /\ \A k \in Keys : table[k] <= count.writes
        /\ seen \in [evicted : BOOLEAN, flushed : BOOLEAN, failed : BOOLEAN]
        /\ Carried(p) \subseteq Items
        /\ Typed
    BY Typing DEF IInv
  <1>4. pass[p].writes # <<>>
    BY <1>1, <1>3 DEF Shaped
  <1>5. /\ item \in Carried(p) /\ item \in Items
        /\ W \in Seq(Items) /\ OnePerKey(W)
        /\ Entries(W) = Carried(p) \ {item}
    BY <1>3, <1>4, TailMeans DEF Carried
  <1>6. /\ q \in Seq(Items) /\ OnePerKey(q)
        /\ Entries(q) = { e \in Queued : e.key # item.key } \cup {item}
    BY <1>3, <1>5, QueueMeans DEF Queued
  <1> HIDE DEF item, W, q
  <1>7. item.key \in Keys /\ item.doc \in Docs /\ item.doc <= count.writes
    BY <1>5 DEF Items, IInv, Numbered
  <1>8. PassMove(p, W, {}, q, pendingDeletes)
    BY <1>1, <1>3, <1>6, UpsertMoves DEF W
  <1>9. Moved(p, W, {}, q, pendingDeletes)
    BY <1>3, <1>5, <1>6, <1>8, MoveMeans
  <1>10. ~seen.flushed => p = "drain"
    BY <1>1 DEF IInv, DrainAlone, Passes
  <1>11. table' \in [Keys -> {NoDoc} \cup Docs] /\ \A k \in Keys : table'[k] <= count.writes
    BY <1>2, <1>3, <1>7
  <1>12. /\ seen' \in [evicted : BOOLEAN, flushed : BOOLEAN, failed : BOOLEAN]
         /\ seen'.evicted = seen.evicted /\ seen'.flushed = seen.flushed /\ seen'.failed
    BY <1>2, <1>3
  <1>13. PassDoes(p, W, {}, q, pendingDeletes)
    BY <1>2, <1>5, <1>6, <1>9, <1>10, <1>11, <1>12 DEF PassDoes, Calm
  <1> QED  BY <1>13, PassKeeps

LEMMA DeleteKeeps ==
  ASSUME IInv, NEW p \in Passes, Delete(p)
  PROVE  IInv'
  <1>1. PICK k \in pass[p].deletes :
          /\ table' = [table EXCEPT ![k] = NoDoc]
          /\ AfterDelete(p, k, TRUE, pendingDeletes)
    BY DEF Delete
  <1>2. /\ pass[p].pc = "deleting"
        /\ mirror' = mirror /\ count' = count /\ seen' = seen
    BY DEF Delete
  <1> DEFINE D == pass[p].deletes \ {k}
  <1>3. /\ pendingWrites \in Seq(Items) /\ OnePerKey(pendingWrites)
        /\ pendingDeletes \in SUBSET Keys /\ pass[p].deletes \in SUBSET Keys
        /\ Shaped(pass[p])
        /\ table \in [Keys -> {NoDoc} \cup Docs] /\ \A j \in Keys : table[j] <= count.writes
        /\ count \in [writes : Nat, restarts : Nat]
        /\ seen \in [evicted : BOOLEAN, flushed : BOOLEAN, failed : BOOLEAN]
        /\ Typed
    BY Typing DEF IInv
  <1>4. pass[p].writes = <<>> /\ Carried(p) = {} /\ Entries(<<>>) = {}
    BY <1>2, <1>3, EmptyQueue DEF Shaped, Carried
  <1>5. D \in SUBSET Keys /\ k \in Keys /\ k \notin Rows
    BY <1>1, <1>3 DEF IInv, RowsKept
  <1>6. PassMove(p, <<>>, D, pendingWrites, pendingDeletes)
    BY <1>1, <1>2, <1>3, DeleteMoves
  <1>7. Moved(p, <<>>, D, pendingWrites, pendingDeletes)
    BY <1>3, <1>5, <1>6, EmptyQueue, MoveMeans
  <1>8. ~seen.flushed => p = "drain"
    BY <1>2 DEF IInv, DrainAlone, Passes
  <1>9. /\ table' \in [Keys -> {NoDoc} \cup Docs] /\ \A j \in Keys : table'[j] <= count.writes
        /\ \A j \in Keys : table'[j] = table[j] \/ j = k
    BY <1>1, <1>3, <1>5 DEF NoDoc
  <1>10. ASSUME Calm', NEW j \in Keys, table'[j] # mirror[j]
         PROVE  \/ \E e \in Entries(pendingWrites) \cup Entries(<<>>) : e.key = j
                \/ j \in pendingDeletes \cup D
    <2>1. Calm /\ p = "drain"
      BY <1>2, <1>8, <1>10 DEF Calm
    <2>2. CASE j = k
      <3>1. mirror[k] # NoDoc
        BY <1>1, <1>3, <1>10, <2>2
      <3>2. k \in KeysOf(pendingWrites)
        BY <1>1, <2>1, <3>1 DEF IInv, Overtaken
      <3> QED  BY <2>2, <3>2, KeysAreEntries
    <2>3. CASE j # k
      <3>1. table[j] # mirror[j]
        BY <1>9, <1>10, <2>3
      <3> QED  BY <1>4, <2>1, <2>3, <3>1, WantedMeans DEF Queued
    <2> QED  BY <2>2, <2>3
  <1>11. PassDoes(p, <<>>, D, pendingWrites, pendingDeletes)
    BY <1>2, <1>3, <1>4, <1>5, <1>7, <1>8, <1>9, <1>10, RowsAssumption DEF PassDoes, Queued
  <1> QED  BY <1>11, PassKeeps

LEMMA DeleteFailsKeeps ==
  ASSUME IInv, NEW p \in Passes, DeleteFails(p)
  PROVE  IInv'
  <1>1. PICK k \in pass[p].deletes :
          /\ table' \in {table, [table EXCEPT ![k] = NoDoc]}
          /\ AfterDelete(p, k, FALSE, pendingDeletes \cup {k})
    BY DEF DeleteFails
  <1>2. /\ pass[p].pc = "deleting"
        /\ mirror' = mirror /\ count' = count
        /\ seen' = [seen EXCEPT !.failed = TRUE]
    BY DEF DeleteFails
  <1> DEFINE D == pass[p].deletes \ {k}
             d == pendingDeletes \cup {k}
  <1>3. /\ pendingWrites \in Seq(Items) /\ OnePerKey(pendingWrites)
        /\ pendingDeletes \in SUBSET Keys /\ pass[p].deletes \in SUBSET Keys
        /\ table \in [Keys -> {NoDoc} \cup Docs] /\ \A j \in Keys : table[j] <= count.writes
        /\ count \in [writes : Nat, restarts : Nat]
        /\ seen \in [evicted : BOOLEAN, flushed : BOOLEAN, failed : BOOLEAN]
        /\ Typed
    BY Typing DEF IInv
  <1>4. D \in SUBSET Keys /\ k \in Keys /\ d \in SUBSET Keys
    BY <1>1, <1>3
  <1>5. PassMove(p, <<>>, D, pendingWrites, d)
    BY <1>1, <1>2, <1>3, <1>4, DeleteMoves
  <1>6. Moved(p, <<>>, D, pendingWrites, d)
    BY <1>3, <1>4, <1>5, EmptyQueue, MoveMeans
  <1>7. ~seen.flushed => p = "drain"
    BY <1>2 DEF IInv, DrainAlone, Passes
  <1>8. table' \in [Keys -> {NoDoc} \cup Docs] /\ \A j \in Keys : table'[j] <= count.writes
    BY <1>1, <1>3, <1>4 DEF NoDoc
  <1>9. /\ seen' \in [evicted : BOOLEAN, flushed : BOOLEAN, failed : BOOLEAN]
        /\ seen'.evicted = seen.evicted /\ seen'.flushed = seen.flushed /\ seen'.failed
    BY <1>2, <1>3
  <1>10. Entries(<<>>) = {}
    BY EmptyQueue
  <1>11. PassDoes(p, <<>>, D, pendingWrites, d)
    BY <1>2, <1>6, <1>7, <1>8, <1>9, <1>10 DEF PassDoes, Calm, Queued
  <1> QED  BY <1>11, PassKeeps
----------------------------------------------------------------------------
(* The steps that leave what passes carry alone.                            *)

SameLoad ==
    /\ pass' \in [Passes -> PassType] /\ \A p \in Passes : Shaped(pass'[p])
    /\ \A p \in Passes : pass'[p].writes = pass[p].writes /\ pass'[p].deletes = pass[p].deletes
    /\ \A f \in Flushers : pass'[f].pc \in {pass[f].pc, "joined"}

\* An idle pass that only changes its place carries nothing before and after.
LEMMA IdleTurns ==
  ASSUME Typed, NEW p \in Passes, pass[p].pc = "idle", NEW to \in {"woken", "joined"},
         p \in Flushers => to = "joined",
         pass' = [pass EXCEPT ![p] = [IdlePass EXCEPT !.pc = to]]
  PROVE  SameLoad
  <1>1. Shaped(pass[p]) /\ pass \in [Passes -> PassType] /\ \A r \in Passes : Shaped(pass[r])
    BY DEF Typed
  <1>2. pass[p].writes = <<>> /\ pass[p].deletes = {}
    BY <1>1 DEF Shaped
  <1> DEFINE x == [IdlePass EXCEPT !.pc = to]
  <1>3. x \in PassType /\ x.pc = to /\ x.writes = <<>> /\ x.deletes = {}
    BY EmptyQueue DEF IdlePass, PassType
  <1> HIDE DEF x
  <1>4. Shaped(x)
    BY <1>3, EmptyQueue DEF Shaped
  <1>5. pass' = [pass EXCEPT ![p] = x]
    BY DEF x
  <1>6. pass'[p] = x /\ \A r \in Passes \ {p} : pass'[r] = pass[r]
    BY <1>1, <1>5
  <1>7. pass' \in [Passes -> PassType]
    BY <1>1, <1>3, <1>5
  <1>8. \A f \in Flushers : f \in Passes
    BY DEF Passes
  <1> QED  BY <1>1, <1>2, <1>3, <1>4, <1>6, <1>7, <1>8 DEF SameLoad

LEMMA WakeMeans ==
  ASSUME Typed, Wake \/ pass' = pass
  PROVE  SameLoad
  <1>1. CASE pass' = pass
    BY <1>1 DEF Typed, SameLoad
  <1>2. CASE Wake /\ pass["drain"].pc = "idle"
    <2>1. pass' = [pass EXCEPT !["drain"] = [IdlePass EXCEPT !.pc = "woken"]]
      BY <1>2 DEF Wake
    <2>2. "drain" \in Passes
      BY DEF Passes
    <2> QED  BY <1>2, <2>1, <2>2, FlushersAssumption, IdleTurns
  <1> QED  BY <1>1, <1>2 DEF Wake

LEMMA SameLoadMeans ==
  ASSUME SameLoad
  PROVE  /\ \A p \in Passes : Carried(p)' = Carried(p)
         /\ InFlight' = InFlight
         /\ DrainAlone /\ (~seen'.flushed => ~seen.flushed) => DrainAlone'
  <1>1. \A p \in Passes : Carried(p)' = Carried(p)
    BY DEF SameLoad, Carried
  <1>2. InFlight' = InFlight
    BY DEF SameLoad, InFlight
  <1>3. DrainAlone /\ (~seen'.flushed => ~seen.flushed) => DrainAlone'
    BY DEF SameLoad, DrainAlone
  <1> QED  BY <1>1, <1>2, <1>3

\* Queueing a document behind whatever is on its way.
LEMMA WriteKeeps ==
  ASSUME IInv, NEW k \in Keys, Write(k)
  PROVE  IInv'
  <1> DEFINE doc == count.writes + 1
             item == [key |-> k, doc |-> doc]
             r == Evict(Queue(pendingWrites, item))
  <1>0. "drain" \in Passes /\ Typed
    BY DEF Passes, IInv
  <1>1. /\ pendingWrites \in Seq(Items) /\ pendingDeletes \in SUBSET Keys
        /\ table \in [Keys -> {NoDoc} \cup Docs] /\ \A j \in Keys : table[j] <= count.writes
        /\ mirror \in [Keys -> {NoDoc} \cup Docs] /\ \A j \in Keys : mirror[j] <= count.writes
        /\ seen \in [evicted : BOOLEAN, flushed : BOOLEAN, failed : BOOLEAN]
        /\ count \in [writes : Nat, restarts : Nat]
        /\ Queued \subseteq Items
    BY <1>0, Typing
  <1>2. /\ MayWrite(k) /\ count.writes < MaxWrites
        /\ mirror' = [mirror EXCEPT ![k] = doc]
        /\ pendingWrites' = r
        /\ pendingDeletes' = pendingDeletes \ {k}
        /\ count' = [count EXCEPT !.writes = @ + 1]
        /\ seen' = [seen EXCEPT !.evicted = @ \/ Overflows(k)]
        /\ table' = table
    BY DEF Write
  <1>3. SameLoad
    BY <1>0, WakeMeans DEF Write
  <1>4. doc \in Docs /\ doc > count.writes /\ doc # NoDoc /\ doc \in Nat
    BY <1>1, <1>2, StoreBounds DEF Docs, NoDoc
  <1>5. item \in Items /\ item.key = k /\ item.doc = doc
    BY <1>4 DEF Items
  <1> HIDE DEF item, doc
  <1>6. /\ r \in Seq(Items) /\ OnePerKey(r)
        /\ Entries(r) \subseteq { e \in Queued : e.key # k } \cup {item}
        /\ Len(pendingWrites) <= MaxPending =>
             /\ Len(r) <= MaxPending
             /\ ~Overflows(k) => Entries(r) = { e \in Queued : e.key # k } \cup {item}
    BY <1>0, <1>5, WriteQueues
  <1> HIDE DEF r
  <1>7. /\ Queued' = Entries(r)
        /\ \A p \in Passes : Carried(p)' = Carried(p) /\ pass'[p].deletes = pass[p].deletes
        /\ InFlight' = InFlight
    BY <1>2, <1>3, SameLoadMeans DEF Queued, SameLoad
  <1>8. /\ seen'.evicted = (seen.evicted \/ Overflows(k))
        /\ seen'.flushed = seen.flushed /\ seen'.failed = seen.failed
        /\ count'.writes = doc /\ count' \in [writes : Nat, restarts : Nat]
        /\ seen' \in [evicted : BOOLEAN, flushed : BOOLEAN, failed : BOOLEAN]
    <2>1. count'.writes = doc /\ count' \in [writes : Nat, restarts : Nat]
      BY <1>1, <1>2, <1>4 DEF doc
    <2>2. PICK o \in BOOLEAN : o = (seen.evicted \/ Overflows(k))
      OBVIOUS
    <2>3. seen' = [seen EXCEPT !.evicted = o]
      BY <1>2, <2>2
    <2>4. /\ seen'.evicted = o /\ seen'.flushed = seen.flushed /\ seen'.failed = seen.failed
          /\ seen' \in [evicted : BOOLEAN, flushed : BOOLEAN, failed : BOOLEAN]
      BY <1>1, <2>3
    <2> QED  BY <2>1, <2>2, <2>4
  <1>9. /\ mirror' \in [Keys -> {NoDoc} \cup Docs] /\ mirror'[k] = doc
        /\ \A j \in Keys \ {k} : mirror'[j] = mirror[j]
    BY <1>1, <1>2, <1>4
  <1>10. Typed'
    <2>1. pass' \in [Passes -> PassType] /\ \A p \in Passes : Shaped(pass'[p])
      BY <1>3 DEF SameLoad
    <2> QED  BY <1>1, <1>2, <1>6, <1>8, <1>9, <2>1 DEF Typed
  <1>11. Numbered'
    <2>1. \A j \in Keys : mirror'[j] <= doc /\ table'[j] <= doc
      <3>1. ASSUME NEW j \in Keys  PROVE mirror[j] \in Nat /\ table[j] \in Nat
        BY <1>1 DEF NoDoc, Docs
      <3>2. ASSUME NEW j \in Keys  PROVE table[j] <= doc /\ (j # k => mirror[j] <= doc)
        BY <1>1, <1>4, <3>1
      <3> QED  BY <1>2, <1>4, <1>9, <3>2
    <2>2. \A e \in Items : e.doc \in Nat
      BY DEF Items, Docs
    <2>3. \A e \in Queued : e.doc <= doc
      BY <1>1, <1>4, <2>2 DEF IInv, Numbered
    <2>4. \A p \in Passes : \A e \in Carried(p) : e.doc <= doc
      <3>1. ASSUME NEW p \in Passes, NEW e \in Carried(p)  PROVE e.doc <= doc
        <4>1. e \in Items
          BY Typing
        <4>2. e.doc <= count.writes
          BY DEF IInv, Numbered
        <4> QED  BY <1>1, <1>4, <2>2, <4>1, <4>2
      <3> QED  BY <3>1
    <2>5. \A e \in Queued' : e.doc <= doc
      BY <1>4, <1>5, <1>6, <1>7, <2>3
    <2> QED  BY <1>7, <1>8, <2>1, <2>4, <2>5 DEF Numbered
  <1>12. RowsKept'
    BY <1>2, <1>7 DEF IInv, RowsKept
  <1>13. QueueBounded'
    BY <1>2, <1>6, <1>8 DEF IInv, QueueBounded
  <1>14. LatestQueued'
    <2>1. ASSUME ~seen.failed, NEW i \in DOMAIN pendingWrites'
          PROVE  pendingWrites'[i].doc = mirror'[pendingWrites'[i].key]
      <3>1. PICK e : e = pendingWrites'[i]
        OBVIOUS
      <3>2. e \in { c \in Queued : c.key # k } \cup {item}
        BY <1>2, <1>6, <3>1 DEF Entries
      <3>3. CASE e = item
        BY <1>5, <1>9, <3>1, <3>3
      <3>4. CASE e \in Queued /\ e.key # k
        <4>1. e.key \in Keys
          BY <1>1, <3>4 DEF Items
        <4>2. e.doc = mirror[e.key]
          BY <2>1, <3>4, LatestMeans DEF IInv
        <4> QED  BY <1>9, <3>1, <3>4, <4>1, <4>2
      <3> QED  BY <3>2, <3>3, <3>4
    <2> QED  BY <1>8, <2>1 DEF LatestQueued
  <1>15. DeletedIsGone'
    BY <1>1, <1>2, <1>8, <1>9 DEF IInv, DeletedIsGone
  <1>16. CreatedOnce'
    <2> SUFFICES ASSUME ~seen'.failed, NEW j \in Rows
                 PROVE  /\ \A e \in Queued' : e.key = j =>
                             /\ table'[j] = NoDoc /\ mirror'[j] # NoDoc
                             /\ \A p \in Passes : \A c \in Carried(p)' : c.key # j
                        /\ \A p \in Passes : \A e \in Carried(p)' : e.key = j =>
                             /\ table'[j] = NoDoc /\ mirror'[j] # NoDoc
                             /\ \A s \in Passes : \A c \in Carried(s)' : c.key = j => s = p
                        /\ mirror'[j] = NoDoc => table'[j] = NoDoc
      BY DEF CreatedOnce
    <2>1. /\ j \in Keys
          /\ \A e \in Queued : e.key = j =>
               /\ table[j] = NoDoc /\ mirror[j] # NoDoc
               /\ \A p \in Passes : \A c \in Carried(p) : c.key # j
          /\ \A p \in Passes : \A e \in Carried(p) : e.key = j =>
               /\ table[j] = NoDoc /\ mirror[j] # NoDoc
               /\ \A s \in Passes : \A c \in Carried(s) : c.key = j => s = p
          /\ mirror[j] = NoDoc => table[j] = NoDoc
      BY <1>8, RowsAssumption DEF IInv, CreatedOnce
    <2>2. CASE j = k
      <3>1. mirror[j] = NoDoc
        BY <1>2, <2>2 DEF MayWrite
      <3>2. /\ table[j] = NoDoc
            /\ \A p \in Passes : \A c \in Carried(p) : c.key # j
        BY <2>1, <3>1
      <3> QED  BY <1>2, <1>4, <1>7, <1>9, <2>2, <3>2
    <2>3. CASE j # k
      <3>1. \A e \in Queued' : e.key = j => e \in Queued
        BY <1>5, <1>6, <1>7, <2>3
      <3> QED  BY <1>2, <1>7, <1>9, <2>1, <2>3, <3>1
    <2> QED  BY <2>2, <2>3
  <1>17. DrainAlone'
    BY <1>3, <1>8, SameLoadMeans DEF IInv
  <1>18. ASSUME Calm'
         PROVE  /\ Calm /\ k \in KeysOf(pendingWrites')
                /\ KeysOf(pendingWrites') = KeysOf(pendingWrites) \cup {k}
    <2>1. Calm /\ ~Overflows(k)
      BY <1>8, <1>18 DEF Calm
    <2>2. Entries(r) = { e \in Queued : e.key # k } \cup {item}
      BY <1>6, <2>1 DEF IInv, QueueBounded, Calm
    <2>3. KeysOf(r) = KeysOf(pendingWrites) \cup {k}
      <3>1. \A j : j \in KeysOf(r) <=> j \in KeysOf(pendingWrites) \/ j = k
        BY <1>5, <2>2, KeysAreEntries DEF Queued
      <3> QED  BY <3>1
    <2> QED  BY <1>2, <2>1, <2>3
  <1>19. Overtaken'
    <2>1. ASSUME Calm', NEW e \in Carried("drain")', e.doc # mirror'[e.key]
          PROVE  e.key \in KeysOf(pendingWrites') \cup pendingDeletes'
      <3>1. e \in Carried("drain") /\ e.key \in Keys
        BY <1>0, <1>7, <2>1, Typing DEF Items
      <3>2. CASE e.key = k
        BY <1>18, <2>1, <3>2
      <3>3. CASE e.key # k
        <4>1. e.key \in KeysOf(pendingWrites) \cup pendingDeletes
          BY <1>9, <1>18, <2>1, <3>1, <3>3 DEF IInv, Overtaken
        <4> QED  BY <1>2, <1>18, <2>1, <3>3, <4>1
      <3> QED  BY <3>2, <3>3
    <2>2. ASSUME Calm', NEW j \in pass'["drain"].deletes, mirror'[j] # NoDoc
          PROVE  j \in KeysOf(pendingWrites')
      <3>1. j \in pass["drain"].deletes /\ j \in Keys
        BY <1>0, <1>7, <2>2, Typing
      <3> QED  BY <1>9, <1>18, <2>2, <3>1 DEF IInv, Overtaken
    <2> QED  BY <2>1, <2>2 DEF Overtaken
  <1>20. NothingLost'
    <2>1. ASSUME Calm', NEW j \in Keys, table'[j] # mirror'[j]
          PROVE  j \in KeysOf(pendingWrites') \cup pendingDeletes' \cup InFlight'
      <3>1. CASE j = k
        BY <1>18, <2>1, <3>1
      <3>2. CASE j # k
        <4>1. j \in KeysOf(pendingWrites) \cup pendingDeletes \cup InFlight
          BY <1>2, <1>9, <1>18, <2>1, <3>2 DEF IInv, NothingLost, Calm
        <4> QED  BY <1>2, <1>7, <1>18, <2>1, <3>2, <4>1
      <3> QED  BY <3>1, <3>2
    <2> QED  BY <2>1 DEF NothingLost, Calm
  <1> QED  BY <1>10, <1>11, <1>12, <1>13, <1>14, <1>15, <1>16, <1>17, <1>19, <1>20 DEF IInv
\* A removal takes the key out of the upserts and queues its delete.
LEMMA RemoveKeeps ==
  ASSUME IInv, NEW k \in Keys, Remove(k)
  PROVE  IInv'
  <1> DEFINE r == Unqueue(pendingWrites, k)
  <1>0. "drain" \in Passes /\ Typed
    BY DEF Passes, IInv
  <1>1. /\ pendingWrites \in Seq(Items) /\ OnePerKey(pendingWrites)
        /\ pendingDeletes \in SUBSET Keys
        /\ mirror \in [Keys -> {NoDoc} \cup Docs] /\ \A j \in Keys : mirror[j] <= count.writes
        /\ count \in [writes : Nat, restarts : Nat]
        /\ Len(pendingWrites) \in Nat /\ MaxPending \in Nat
        /\ Queued \subseteq Items
    BY <1>0, Typing, SeqFacts, StoreBounds
  <1>2. /\ k \notin Rows /\ mirror[k] # NoDoc
        /\ mirror' = [mirror EXCEPT ![k] = NoDoc]
        /\ pendingWrites' = r
        /\ pendingDeletes' = pendingDeletes \cup {k}
        /\ table' = table /\ count' = count /\ seen' = seen
    BY DEF Remove
  <1>3. SameLoad
    BY <1>0, WakeMeans DEF Remove
  <1>4. /\ r \in Seq(Items) /\ OnePerKey(r)
        /\ Entries(r) = { e \in Queued : e.key # k }
        /\ Len(r) <= Len(pendingWrites) /\ Len(r) \in Nat
    BY <1>1, UnqueueMeans, SeqFacts DEF Queued
  <1> HIDE DEF r
  <1>5. /\ Queued' = Entries(r)
        /\ \A p \in Passes : Carried(p)' = Carried(p) /\ pass'[p].deletes = pass[p].deletes
        /\ InFlight' = InFlight
    BY <1>2, <1>3, SameLoadMeans DEF Queued, SameLoad
  <1>6. /\ mirror' \in [Keys -> {NoDoc} \cup Docs] /\ mirror'[k] = NoDoc
        /\ \A j \in Keys \ {k} : mirror'[j] = mirror[j]
    BY <1>1, <1>2
  <1>7. KeysOf(pendingWrites') = KeysOf(pendingWrites) \ {k}
    <2>1. \A j : j \in KeysOf(r) <=> j \in KeysOf(pendingWrites) /\ j # k
      BY <1>4, KeysAreEntries DEF Queued
    <2> QED  BY <1>2, <2>1
  <1>8. Typed'
    <2>1. pass' \in [Passes -> PassType] /\ \A p \in Passes : Shaped(pass'[p])
      BY <1>3 DEF SameLoad
    <2> QED  BY <1>0, <1>1, <1>2, <1>4, <1>6, <2>1 DEF Typed
  <1>9. Numbered'
    <2>1. \A j \in Keys : mirror'[j] <= count.writes
      BY <1>1, <1>6 DEF NoDoc
    <2> QED  BY <1>2, <1>4, <1>5, <2>1 DEF IInv, Numbered
  <1>10. RowsKept'
    BY <1>2, <1>5 DEF IInv, RowsKept
  <1>11. QueueBounded'
    BY <1>1, <1>2, <1>4 DEF IInv, QueueBounded
  <1>12. LatestQueued'
    <2>1. ASSUME ~seen.failed, NEW i \in DOMAIN pendingWrites'
          PROVE  pendingWrites'[i].doc = mirror'[pendingWrites'[i].key]
      <3>1. PICK e : e = pendingWrites'[i]
        OBVIOUS
      <3>2. e \in Queued /\ e.key # k
        BY <1>2, <1>4, <3>1 DEF Entries
      <3>3. e.key \in Keys
        BY <1>1, <3>2 DEF Items
      <3>4. e.doc = mirror[e.key]
        BY <2>1, <3>2, LatestMeans DEF IInv
      <3> QED  BY <1>6, <3>1, <3>2, <3>3, <3>4
    <2> QED  BY <1>2, <2>1 DEF LatestQueued
  <1>13. DeletedIsGone'
    BY <1>1, <1>2, <1>6 DEF IInv, DeletedIsGone
  <1>14. CreatedOnce'
    <2>1. \A j \in Rows : j \in Keys /\ j # k /\ mirror'[j] = mirror[j]
      BY <1>2, <1>6, RowsAssumption
    <2> QED  BY <1>2, <1>4, <1>5, <2>1 DEF IInv, CreatedOnce
  <1>15. DrainAlone'
    BY <1>2, <1>3, SameLoadMeans DEF IInv
  <1>16. Calm' <=> Calm
    BY <1>2 DEF Calm
  <1>17. Overtaken'
    <2>1. ASSUME Calm, NEW e \in Carried("drain"), e.doc # mirror'[e.key]
          PROVE  e.key \in KeysOf(pendingWrites') \cup pendingDeletes'
      <3>1. e.key \in Keys
        BY <1>0, Typing DEF Items
      <3> QED  BY <1>2, <1>6, <1>7, <2>1, <3>1 DEF IInv, Overtaken
    <2>2. ASSUME Calm, NEW j \in pass["drain"].deletes, mirror'[j] # NoDoc
          PROVE  j \in KeysOf(pendingWrites')
      <3>1. j \in Keys
        BY <1>0, Typing
      <3> QED  BY <1>6, <1>7, <2>2, <3>1 DEF IInv, Overtaken
    <2> QED  BY <1>0, <1>5, <1>16, <2>1, <2>2 DEF Overtaken
  <1>18. NothingLost'
    <2>1. ASSUME Calm, NEW j \in Keys, table'[j] # mirror'[j]
          PROVE  j \in KeysOf(pendingWrites') \cup pendingDeletes' \cup InFlight'
      <3>1. CASE j = k
        BY <1>2, <3>1
      <3>2. CASE j # k
        <4>1. j \in KeysOf(pendingWrites) \cup pendingDeletes \cup InFlight
          BY <1>2, <1>6, <2>1, <3>2 DEF IInv, NothingLost, Calm
        <4> QED  BY <1>2, <1>5, <1>7, <3>2, <4>1
      <3> QED  BY <3>1, <3>2
    <2> QED  BY <1>16, <2>1 DEF NothingLost, Calm
  <1> QED  BY <1>8, <1>9, <1>10, <1>11, <1>12, <1>13, <1>14, <1>15, <1>17, <1>18 DEF IInv

\* A transaction puts its document in the row and in the mirror together.  Without a
\* failure the row is not on its way anywhere: it has been written, or was never queued.
LEMMA TransactKeeps ==
  ASSUME IInv, NEW k \in Rows, Transact(k)
  PROVE  IInv'
  <1> DEFINE doc == count.writes + 1
  <1>0. "drain" \in Passes /\ Typed /\ k \in Keys
    BY RowsAssumption DEF Passes, IInv
  <1>1. /\ table \in [Keys -> {NoDoc} \cup Docs] /\ \A j \in Keys : table[j] <= count.writes
        /\ mirror \in [Keys -> {NoDoc} \cup Docs] /\ \A j \in Keys : mirror[j] <= count.writes
        /\ count \in [writes : Nat, restarts : Nat]
        /\ Queued \subseteq Items
    BY <1>0, Typing
  <1>2. /\ count.writes < MaxWrites
        /\ table[k] # NoDoc \/ mirror[k] = NoDoc
        /\ table' = [table EXCEPT ![k] = doc]
        /\ mirror' = [mirror EXCEPT ![k] = doc]
        /\ count' = [count EXCEPT !.writes = @ + 1]
        /\ pendingWrites' = pendingWrites /\ pendingDeletes' = pendingDeletes
        /\ pass' = pass /\ seen' = seen
    BY DEF Transact
  <1>3. SameLoad
    BY <1>0, <1>2, WakeMeans
  <1>4. doc \in Docs /\ doc > count.writes /\ doc # NoDoc /\ doc \in Nat
    BY <1>1, <1>2, StoreBounds DEF Docs, NoDoc
  <1>5. count'.writes = doc /\ count' \in [writes : Nat, restarts : Nat]
    BY <1>1, <1>2, <1>4
  <1> HIDE DEF doc
  <1>6. /\ Queued' = Queued
        /\ \A p \in Passes : Carried(p)' = Carried(p)
        /\ InFlight' = InFlight
    BY <1>2, <1>3, SameLoadMeans DEF Queued
  <1>7. /\ mirror' \in [Keys -> {NoDoc} \cup Docs] /\ mirror'[k] = doc
        /\ table' \in [Keys -> {NoDoc} \cup Docs] /\ table'[k] = doc
        /\ \A j \in Keys \ {k} : mirror'[j] = mirror[j] /\ table'[j] = table[j]
    BY <1>0, <1>1, <1>2, <1>4
  <1>8. ASSUME ~seen.failed
        PROVE  /\ \A e \in Queued : e.key # k
               /\ \A p \in Passes : \A e \in Carried(p) : e.key # k
    BY <1>2, <1>8 DEF IInv, CreatedOnce
  <1>9. Typed'
    BY <1>0, <1>2, <1>5, <1>7 DEF Typed
  <1>10. Numbered'
    <2>1. \A j \in Keys : mirror'[j] <= doc /\ table'[j] <= doc
      <3>1. ASSUME NEW j \in Keys  PROVE mirror[j] \in Nat /\ table[j] \in Nat
        BY <1>1 DEF NoDoc, Docs
      <3>2. ASSUME NEW j \in Keys  PROVE table[j] <= doc /\ mirror[j] <= doc
        BY <1>1, <1>4, <3>1
      <3> QED  BY <1>4, <1>7, <3>2
    <2>2. \A e \in Items : e.doc \in Nat
      BY DEF Items, Docs
    <2>3. \A e \in Queued : e.doc <= doc
      BY <1>1, <1>4, <2>2 DEF IInv, Numbered
    <2>4. ASSUME NEW p \in Passes, NEW e \in Carried(p)  PROVE e.doc <= doc
      <3>1. e \in Items
        BY Typing
      <3>2. e.doc <= count.writes
        BY DEF IInv, Numbered
      <3> QED  BY <1>1, <1>4, <2>2, <3>1, <3>2
    <2> QED  BY <1>5, <1>6, <2>1, <2>3, <2>4 DEF Numbered
  <1>11. RowsKept' /\ QueueBounded'
    BY <1>2 DEF IInv, RowsKept, QueueBounded
  <1>12. LatestQueued'
    <2>1. ASSUME ~seen.failed, NEW i \in DOMAIN pendingWrites
          PROVE  pendingWrites[i].doc = mirror'[pendingWrites[i].key]
      <3>1. pendingWrites[i] \in Queued
        BY DEF Queued, Entries
      <3>2. pendingWrites[i].key \in Keys /\ pendingWrites[i].key # k
        BY <1>1, <1>8, <2>1, <3>1 DEF Items
      <3> QED  BY <1>7, <2>1, <3>2 DEF IInv, LatestQueued
    <2> QED  BY <1>2, <2>1 DEF LatestQueued
  <1>13. \A j \in pendingDeletes : j \in Keys /\ j # k /\ mirror'[j] = mirror[j]
    BY <1>0, <1>7 DEF IInv, RowsKept, Typed
  <1>14. DeletedIsGone'
    BY <1>2, <1>13 DEF IInv, DeletedIsGone
  <1>15. CreatedOnce'
    <2> SUFFICES ASSUME ~seen.failed, NEW j \in Rows
                 PROVE  /\ \A e \in Queued : e.key = j =>
                             /\ table'[j] = NoDoc /\ mirror'[j] # NoDoc
                             /\ \A p \in Passes : \A c \in Carried(p) : c.key # j
                        /\ \A p \in Passes : \A e \in Carried(p) : e.key = j =>
                             /\ table'[j] = NoDoc /\ mirror'[j] # NoDoc
                             /\ \A s \in Passes : \A c \in Carried(s) : c.key = j => s = p
                        /\ mirror'[j] = NoDoc => table'[j] = NoDoc
      BY <1>2, <1>6 DEF CreatedOnce
    <2>1. CASE j = k
      BY <1>4, <1>7, <1>8, <2>1
    <2>2. CASE j # k
      <3>1. table'[j] = table[j] /\ mirror'[j] = mirror[j]
        BY <1>7, <2>2, RowsAssumption
      <3> QED  BY <3>1 DEF IInv, CreatedOnce
    <2> QED  BY <2>1, <2>2
  <1>16. DrainAlone'
    BY <1>2, <1>3, SameLoadMeans DEF IInv
  <1>17. Calm' <=> Calm
    BY <1>2 DEF Calm
  <1>18. Overtaken'
    <2>1. ASSUME Calm, NEW e \in Carried("drain"), e.doc # mirror'[e.key]
          PROVE  e.key \in KeysOf(pendingWrites) \cup pendingDeletes
      <3>1. e.key \in Keys /\ e.key # k
        BY <1>0, <1>8, <2>1, Typing DEF Items, Calm
      <3> QED  BY <1>7, <2>1, <3>1 DEF IInv, Overtaken
    <2>2. ASSUME Calm, NEW j \in pass["drain"].deletes, mirror'[j] # NoDoc
          PROVE  j \in KeysOf(pendingWrites)
      <3>1. j \in Keys /\ j # k
        BY <1>0, Typing DEF IInv, RowsKept
      <3> QED  BY <1>7, <2>2, <3>1 DEF IInv, Overtaken
    <2> QED  BY <1>0, <1>2, <1>6, <1>17, <2>1, <2>2 DEF Overtaken
  <1>19. NothingLost'
    <2>1. ASSUME Calm, NEW j \in Keys, table'[j] # mirror'[j]
          PROVE  j \in KeysOf(pendingWrites) \cup pendingDeletes \cup InFlight
      <3>1. table[j] # mirror[j]
        BY <1>7, <2>1
      <3> QED  BY <2>1, <3>1 DEF IInv, NothingLost, Calm
    <2> QED  BY <1>2, <1>6, <1>17, <2>1 DEF NothingLost, Calm
  <1> QED  BY <1>9, <1>10, <1>11, <1>12, <1>14, <1>15, <1>16, <1>18, <1>19 DEF IInv

\* Nothing but the place of passes without a load has changed.
LEMMA SameLoadKeeps ==
  ASSUME IInv, SameLoad, mirror' = mirror, table' = table, count' = count, seen' = seen,
         pendingWrites' = pendingWrites, pendingDeletes' = pendingDeletes
  PROVE  IInv'
  <1>0. "drain" \in Passes
    BY DEF Passes
  <1>1. /\ Queued' = Queued
        /\ \A p \in Passes : Carried(p)' = Carried(p) /\ pass'[p].deletes = pass[p].deletes
        /\ InFlight' = InFlight
    BY SameLoadMeans DEF Queued, SameLoad
  <1>2. Typed'
    BY DEF IInv, Typed, SameLoad
  <1>3. Numbered' /\ RowsKept' /\ CreatedOnce'
    BY <1>1 DEF IInv, Numbered, RowsKept, CreatedOnce
  <1>4. QueueBounded' /\ LatestQueued' /\ DeletedIsGone'
    BY DEF IInv, QueueBounded, LatestQueued, DeletedIsGone
  <1>5. DrainAlone'
    BY SameLoadMeans DEF IInv
  <1>6. Overtaken' /\ NothingLost'
    BY <1>0, <1>1 DEF IInv, Overtaken, NothingLost, Calm
  <1> QED  BY <1>2, <1>3, <1>4, <1>5, <1>6 DEF IInv

LEMMA FlushKeeps ==
  ASSUME IInv, NEW f \in Flushers, Flush(f)
  PROVE  IInv'
  <1>0. f \in Passes /\ Typed
    BY DEF Passes, IInv
  <1>1. pass[f].pc = "idle" /\ Shaped(pass[f])
    BY <1>0, Typing DEF Flush
  <1>2. CASE pass["drain"].pc # "idle"
    <2>1. /\ pass' = [pass EXCEPT ![f] = [IdlePass EXCEPT !.pc = "joined"]]
          /\ pendingWrites' = pendingWrites /\ pendingDeletes' = pendingDeletes
          /\ seen' = seen /\ mirror' = mirror /\ table' = table /\ count' = count
      BY <1>2 DEF Flush
    <2>2. SameLoad
      BY <1>0, <1>1, <2>1, IdleTurns
    <2> QED  BY <2>1, <2>2, SameLoadKeeps
  <1>3. CASE pass["drain"].pc = "idle"
    <2>1. /\ Capture(f, pendingWrites, pendingDeletes)
          /\ seen' = [seen EXCEPT !.flushed = TRUE]
          /\ mirror' = mirror /\ table' = table /\ count' = count
      BY <1>3 DEF Flush
    <2>2. pass[f].writes = <<>> /\ pass[f].deletes = {}
      BY <1>1 DEF Shaped
    <2>3. seen \in [evicted : BOOLEAN, flushed : BOOLEAN, failed : BOOLEAN]
      BY <1>0, Typing
    <2>4. /\ seen' \in [evicted : BOOLEAN, flushed : BOOLEAN, failed : BOOLEAN]
          /\ seen'.evicted = seen.evicted /\ seen'.failed = seen.failed /\ seen'.flushed
      BY <2>1, <2>3
    <2> QED  BY <1>0, <2>1, <2>2, <2>4, CaptureKeeps
  <1> QED  BY <1>2, <1>3

\* A store that has just been hydrated: nothing queued, nothing in flight.
Hydrated ==
    /\ mirror = table /\ table \in [Keys -> {NoDoc} \cup Docs]
    /\ count \in [writes : Nat, restarts : Nat] /\ \A k \in Keys : table[k] <= count.writes
    /\ pendingWrites = <<>> /\ pendingDeletes = {}
    /\ pass = [p \in Passes |-> IdlePass] /\ seen = NothingSeen

LEMMA HydratedHolds == Hydrated => IInv
  <1> SUFFICES ASSUME Hydrated PROVE IInv
    OBVIOUS
  <1>0. "drain" \in Passes /\ \A f \in Flushers : f \in Passes
    BY DEF Passes
  <1>1. /\ <<>> \in Seq(Items) /\ Len(<<>>) = 0 /\ OnePerKey(<<>>)
        /\ Entries(<<>>) = {} /\ KeysOf(<<>>) = {} /\ DOMAIN <<>> = {}
    BY EmptyQueue DEF Entries
  <1>2. /\ pass \in [Passes -> PassType]
        /\ \A p \in Passes : /\ Shaped(pass[p]) /\ Carried(p) = {}
                             /\ pass[p].deletes = {} /\ pass[p].pc = "idle"
    BY <1>1, ShapedPasses DEF Carried, Hydrated
  <1>3. /\ Queued = {}
        /\ seen \in [evicted : BOOLEAN, flushed : BOOLEAN, failed : BOOLEAN]
    BY <1>1 DEF Queued, NothingSeen, Hydrated
  <1>4. Typed
    BY <1>1, <1>2, <1>3 DEF Typed, Hydrated
  <1>5. Numbered /\ RowsKept /\ CreatedOnce
    BY <1>2, <1>3, RowsAssumption DEF Numbered, RowsKept, CreatedOnce, Hydrated
  <1>6. QueueBounded /\ LatestQueued /\ DeletedIsGone
    BY <1>1, StoreBounds DEF QueueBounded, LatestQueued, DeletedIsGone, Hydrated
  <1>7. DrainAlone /\ Overtaken /\ NothingLost
    BY <1>0, <1>2 DEF DrainAlone, Overtaken, NothingLost, Hydrated
  <1> QED  BY <1>4, <1>5, <1>6, <1>7 DEF IInv
----------------------------------------------------------------------------
(* The invariant holds, and what follows from it.                           *)

LEMMA InitEstablishes ==
  ASSUME Init
  PROVE  IInv
  <1>1. /\ mirror = table /\ table \in [Keys -> {NoDoc} \cup Docs]
        /\ count \in [writes : Nat, restarts : Nat] /\ \A k \in Keys : table[k] <= count.writes
    BY DEF Init, NoDoc
  <1> QED  BY <1>1, HydratedHolds DEF Init, Hydrated

LEMMA RestartKeeps ==
  ASSUME IInv, Restart
  PROVE  IInv'
  <1>1. /\ table \in [Keys -> {NoDoc} \cup Docs] /\ \A k \in Keys : table[k] <= count.writes
        /\ count \in [writes : Nat, restarts : Nat]
    BY DEF IInv, Typed, Numbered
  <1>2. /\ mirror' = table /\ table' = table
        /\ pendingWrites' = <<>> /\ pendingDeletes' = {}
        /\ pass' = [p \in Passes |-> IdlePass] /\ seen' = NothingSeen
        /\ count' \in [writes : Nat, restarts : Nat] /\ count'.writes = count.writes
    BY <1>1 DEF Restart
  <1>3. Hydrated'
    BY <1>1, <1>2 DEF Hydrated
  <1>4. Hydrated' => IInv'
    BY HydratedHolds, PTL
  <1> QED  BY <1>3, <1>4

LEMMA NextKeeps ==
  ASSUME IInv, [Next]_vars
  PROVE  IInv'
  <1>1. CASE UNCHANGED vars
    <2>1. Typed /\ pass' = pass
      BY <1>1 DEF IInv, vars
    <2>2. SameLoad
      BY <2>1, WakeMeans
    <2> QED  BY <1>1, <2>2, SameLoadKeeps DEF vars
  <1>2. ASSUME NEW k \in Keys, Write(k) \/ Remove(k)  PROVE IInv'
    BY <1>2, WriteKeeps, RemoveKeeps
  <1>3. ASSUME NEW k \in Rows, Transact(k)  PROVE IInv'
    BY <1>3, TransactKeeps
  <1>4. ASSUME NEW p \in Passes, PassStep(p)  PROVE IInv'
    BY <1>4, StartKeeps, UpsertKeeps, DeleteKeeps, UpsertFailsKeeps, DeleteFailsKeeps DEF PassStep
  <1>5. ASSUME NEW f \in Flushers, Flush(f) \/ Joined(f)  PROVE IInv'
    BY <1>5, FlushKeeps, JoinedKeeps
  <1> QED  BY <1>1, <1>2, <1>3, <1>4, <1>5, RestartKeeps DEF Next

\* In every state a process of the store can be in, the mirror, the queues, the passes
\* and the table are as described by IInv.
THEOREM IInvHolds == Spec => []IInv
  <1>1. Init => IInv
    BY InitEstablishes
  <1>2. IInv /\ [Next]_vars => IInv'
    BY NextKeeps
  <1> QED  BY <1>1, <1>2, PTL DEF Spec

\* The variables have their types, and no key is queued twice for an upsert.
THEOREM TypeCorrect == Spec => []TypeOK
  <1>1. IInv => TypeOK
    BY DEF IInv, Typed, TypeOK, OnePerKey
  <1> QED  BY <1>1, IInvHolds, PTL

\* drain(), write(), remove(): as long as nothing was evicted, no flush ran passes of
\* its own and no statement failed, a key whose row differs from the document served is
\* queued or in flight.
THEOREM MutationsReachTheTable == Spec => []NothingLost
  <1>1. IInv => NothingLost
    BY DEF IInv
  <1> QED  BY <1>1, IInvHolds, PTL

\* write(), remember(): a queued document is the one that is served.
THEOREM QueueIsLatest == Spec => []LatestQueued
  <1>1. IInv => LatestQueued
    BY DEF IInv
  <1> QED  BY <1>1, IInvHolds, PTL

\* write(): while no statement has failed, the queue of upserts never exceeds
\* MAX_PENDING_WRITES.
THEOREM QueueStaysBounded == Spec => []QueueBounded
  <1>1. IInv => QueueBounded
    BY DEF IInv
  <1> QED  BY <1>1, IInvHolds, PTL

\* write(), remove(): without a failure, a key is not queued both for an upsert and for
\* a delete.
THEOREM LastCallDecides == Spec => []Superseded
  <1>1. ASSUME IInv, ~seen.failed, NEW k \in KeysOf(pendingWrites)  PROVE k \notin pendingDeletes
    <2>1. PICK e \in Queued : e.key = k
      BY KeysAreEntries DEF Queued
    <2>2. "drain" \in Passes
      BY DEF Passes
    <2>3. e.doc # NoDoc
      BY <1>1, <2>2, Typing DEF Items, Docs, NoDoc
    <2>4. e.doc = mirror[k]
      BY <1>1, <2>1, LatestMeans DEF IInv
    <2> QED  BY <1>1, <2>3, <2>4 DEF IInv, DeletedIsGone
  <1>2. IInv => Superseded
    BY <1>1 DEF Superseded
  <1> QED  BY <1>2, IInvHolds, PTL

\* A row is written through the queue before any transaction and never deleted.
LEMMA RowsGrow ==
  ASSUME IInv, [Next]_vars, ~seen'.failed, NEW k \in Rows
  PROVE  table'[k] >= table[k]
  <1>0. k \in Keys /\ "drain" \in Passes
    BY RowsAssumption DEF Passes
  <1>1. /\ table \in [Keys -> {NoDoc} \cup Docs] /\ \A j \in Keys : table[j] <= count.writes
        /\ count \in [writes : Nat, restarts : Nat]
        /\ seen \in [evicted : BOOLEAN, flushed : BOOLEAN, failed : BOOLEAN]
    BY <1>0, Typing
  <1>2. table[k] \in Nat
    BY <1>0, <1>1 DEF NoDoc, Docs
  <1>3. ASSUME table'[k] = table[k]  PROVE table'[k] >= table[k]
    BY <1>2, <1>3
  <1>4. ASSUME NEW j \in Rows, Transact(j)  PROVE table'[k] >= table[k]
    <2>1. table' = [table EXCEPT ![j] = count.writes + 1]
      BY <1>4 DEF Transact
    <2>2. count.writes + 1 >= table[k]
      BY <1>0, <1>1, <1>2
    <2>3. CASE j = k
      BY <1>0, <1>1, <2>1, <2>2, <2>3
    <2>4. CASE j # k
      BY <1>0, <1>1, <1>3, <2>1, <2>4
    <2> QED  BY <2>3, <2>4
  <1>5. ASSUME NEW p \in Passes, Upsert(p)  PROVE table'[k] >= table[k]
    <2>1. /\ table' = [table EXCEPT ![Head(pass[p].writes).key] = Head(pass[p].writes).doc]
          /\ seen' = seen /\ pass[p].pc = "writing"
      BY <1>5 DEF Upsert
    <2>2. /\ pass[p].writes \in Seq(Items) /\ OnePerKey(pass[p].writes)
          /\ pass[p].writes # <<>> /\ Carried(p) \subseteq Items
      BY <2>1, Typing DEF Shaped
    <2>3. PICK e \in Carried(p) : e = Head(pass[p].writes)
      BY <2>2, TailMeans DEF Carried
    <2>4. e.doc \in Nat
      BY <2>2 DEF Items, Docs
    <2>5. CASE e.key = k
      <3>1. table[k] = 0
        BY <2>1, <2>5 DEF IInv, CreatedOnce, NoDoc
      <3> QED  BY <1>0, <1>1, <2>1, <2>3, <2>4, <2>5, <3>1
    <2>6. CASE e.key # k
      BY <1>0, <1>1, <1>3, <2>1, <2>3, <2>6
    <2> QED  BY <2>5, <2>6
  <1>6. ASSUME NEW p \in Passes, Delete(p)  PROVE table'[k] >= table[k]
    <2>1. PICK j \in pass[p].deletes : table' = [table EXCEPT ![j] = NoDoc]
      BY <1>6 DEF Delete
    <2>2. j # k
      BY DEF IInv, RowsKept
    <2> QED  BY <1>0, <1>1, <1>3, <2>1, <2>2
  <1>7. ASSUME NEW p \in Passes, UpsertFails(p) \/ DeleteFails(p)  PROVE FALSE
    BY <1>1, <1>7 DEF UpsertFails, DeleteFails
  <1>8. ASSUME table' = table  PROVE table'[k] >= table[k]
    BY <1>3, <1>8
  <1>9. ASSUME NEW p \in Passes, PassStep(p)  PROVE table'[k] >= table[k]
    BY <1>5, <1>6, <1>7, <1>8, <1>9 DEF PassStep, Start
  <1> QED  BY <1>4, <1>8, <1>9 DEF Next, vars, Write, Remove, Flush, Joined, Restart

\* remember(), drainOnce(): a conditional write in the table is not undone by an older
\* document: without a failure, the row of a key in Rows never goes back.
THEOREM CommitsAreKept == Spec => CommitKept
  <1>1. IInv /\ [Next]_vars => (~seen'.failed => \A k \in Rows : table'[k] >= table[k])
    BY RowsGrow
  <1>2. Spec => [][Next]_vars
    BY DEF Spec
  <1>3. IInv /\ [Next]_vars => [~seen'.failed => \A k \in Rows : table'[k] >= table[k]]_vars
    BY <1>1
  <1> QED  BY <1>2, <1>3, IInvHolds, PTL DEF CommitKept
=============================================================================
