------------------------- MODULE RequestRecordsProofs -------------------------
(***************************************************************************)
(* What RequestRecords keeps true for every set of requests, every queue   *)
(* and batch size, retention and interleaving: no record is in two places  *)
(* or nowhere, retention deletes only what is old enough, every loss has   *)
(* its cause, and the pages show the rows they are asked for.  Last, what  *)
(* a run of the playground is told and records (UpstreamAnswers).          *)
(***************************************************************************)
EXTENDS RequestRecords, UpstreamAnswers, WellFoundedInduction, FiniteSetTheorems,
        SequenceTheorems, TLAPS

RowsOf(r) == {x \in rows : x.req = r}
GoneOf(r) == {e \in expired : e[1].req = r}
InQueue(r) == \E i \in 1 .. Len(queue) : queue[i] = r

TypeInv ==
  /\ clock \in Nat
  /\ phase \in {"up", "draining", "closing", "stopped", "exited"}
  /\ late \in BOOLEAN /\ forced \in BOOLEAN /\ closed \in BOOLEAN /\ storeOpen \in BOOLEAN
  /\ pc \in [Requests -> {"idle", "serving", "sync", "done"}]
  /\ fate \in [Requests -> {None, "db", "closed", "store", "exit"}]
  /\ queue \in Seq(Requests) /\ cur \in Requests \cup {None}
  /\ nextId \in Nat

\* The record of r is in at most one of the places, in one when r is done.
Nowhere(r) == ~ InQueue(r) /\ cur # r /\ RowsOf(r) = {} /\ GoneOf(r) = {} /\ fate[r] = None
Waiting(r) == InQueue(r) /\ cur # r /\ RowsOf(r) = {} /\ GoneOf(r) = {} /\ fate[r] = None
InHand(r) == ~ InQueue(r) /\ cur = r /\ RowsOf(r) = {} /\ GoneOf(r) = {} /\ fate[r] = None
InTable(r) == /\ ~ InQueue(r) /\ cur # r /\ GoneOf(r) = {} /\ fate[r] = None
              /\ \E x \in rows : RowsOf(r) = {x}
Deleted(r) == /\ ~ InQueue(r) /\ cur # r /\ RowsOf(r) = {} /\ fate[r] = None
              /\ \E e \in expired : GoneOf(r) = {e}
Lost(r) == ~ InQueue(r) /\ cur # r /\ RowsOf(r) = {} /\ GoneOf(r) = {} /\ fate[r] # None

PlaceInv(r) ==
  IF pc[r] = "done" THEN Waiting(r) \/ InHand(r) \/ InTable(r) \/ Deleted(r) \/ Lost(r)
  ELSE Nowhere(r)
PlacesInv == \A r \in Requests : PlaceInv(r)

\* No record twice in the queue, whose bound is kept.
QueueInv ==
  /\ Len(queue) <= QueueCap
  /\ \A i, j \in 1 .. Len(queue) : queue[i] = queue[j] => i = j

\* Identifiers are given once.
RowsInv ==
  /\ \A x \in rows : x.id \in Nat /\ x.id < nextId /\ x.at \in Int
  /\ \A x, y \in rows : x.id = y.id => x = y

\* The cleaner's selection stays right while the clock runs and rows arrive.
CleanerInv ==
  /\ cleaner = [pc |-> cleaner.pc, cutoff |-> cleaner.cutoff, ids |-> cleaner.ids]
  /\ cleaner.cutoff \in Int
  /\ cleaner.pc \in {"select", "delete"} => cleaner.cutoff <= clock - Retention
  /\ cleaner.pc = "delete" =>
       /\ \A i \in cleaner.ids : i \in Nat /\ i < nextId
       /\ \A x \in rows : x.id \in cleaner.ids => x.at < cleaner.cutoff
  /\ \A e \in expired : e[2] - e[1].at > Retention

\* What the shutdown has waited for.
ShutdownInv ==
  /\ closed => phase \in {"closing", "stopped", "exited"}
  /\ phase \in {"closing", "stopped"} => closed
  /\ ~ storeOpen => closed /\ phase \in {"stopped", "exited"}
  /\ closed /\ ~ late => \A r \in Requests \ Hijacked : pc[r] \in {"idle", "done"}
  /\ ~ storeOpen /\ ~ late => queue = <<>> /\ cur = None
  /\ phase = "stopped" => ~ storeOpen
  /\ forced => phase = "exited"

IInv ==
  /\ TypeInv /\ PlacesInv /\ QueueInv /\ RowsInv /\ CleanerInv /\ ShutdownInv
  /\ LossExplained

-----------------------------------------------------------------------------
(* Lemmas *)

LEMMA QueueSet == ASSUME queue \in Seq(Requests), NEW r
                  PROVE  r \in ToSet(queue) <=> InQueue(r)
BY DEF ToSet, InQueue

LEMMA RowFields == \A r : NewRow(r).id = nextId /\ NewRow(r).at = clock /\ NewRow(r).req = r
BY DEF NewRow

\* A record about which nothing changes stays in its place.
LEMMA StillPlaced ==
  ASSUME NEW r, PlaceInv(r), pc'[r] = "done" <=> pc[r] = "done", fate'[r] = fate[r],
         InQueue(r)' <=> InQueue(r), cur' = r <=> cur = r,
         RowsOf(r)' = RowsOf(r), GoneOf(r)' = GoneOf(r)
  PROVE  PlaceInv(r)'
<1>1. (\E x \in rows : RowsOf(r) = {x}) => \E x \in rows' : RowsOf(r)' = {x}
  <2> SUFFICES ASSUME NEW x \in rows, RowsOf(r) = {x} PROVE x \in rows'
    OBVIOUS
  <2> QED BY DEF RowsOf
<1>2. (\E e \in expired : GoneOf(r) = {e}) => \E e \in expired' : GoneOf(r)' = {e}
  <2> SUFFICES ASSUME NEW e \in expired, GoneOf(r) = {e} PROVE e \in expired'
    OBVIOUS
  <2> QED BY DEF GoneOf
<1> QED BY <1>1, <1>2 DEF PlaceInv, Nowhere, Waiting, InHand, InTable, Deleted, Lost

LEMMA InitIInv == Init => IInv
<1> SUFFICES ASSUME Init PROVE IInv
  OBVIOUS
<1> USE RecordsAssumption, RowsAssumption
<1>1. Cardinality(InitRows) \in Nat
  BY FS_CardinalityType
<1>2. TypeInv
  <2>1. /\ clock = 0 /\ phase = "up" /\ late = FALSE /\ forced = FALSE /\ closed = FALSE
        /\ storeOpen = TRUE /\ queue = <<>> /\ cur = None
        /\ pc = [r \in Requests |-> "idle"] /\ fate = [r \in Requests |-> None]
        /\ nextId = Cardinality(InitRows) + 1
    BY DEF Init
  <2>2. queue \in Seq(Requests)
    BY <2>1
  <2>3. clock \in Nat /\ nextId \in Nat
    BY <1>1, <2>1
  <2>4. /\ pc \in [Requests -> {"idle", "serving", "sync", "done"}]
        /\ fate \in [Requests -> {None, "db", "closed", "store", "exit"}]
    BY <2>1
  <2> QED BY <2>1, <2>2, <2>3, <2>4 DEF TypeInv
<1>3. PlacesInv
  <2> SUFFICES ASSUME NEW r \in Requests PROVE PlaceInv(r)
    BY DEF PlacesInv
  <2>1. RowsOf(r) = {} /\ GoneOf(r) = {} /\ ~ InQueue(r)
    BY DEF Init, RowsOf, GoneOf, InQueue
  <2> QED BY <2>1 DEF Init, PlaceInv, Nowhere
<1>4. QueueInv
  BY DEF Init, QueueInv
<1>5. RowsInv
  BY <1>1 DEF Init, RowsInv
<1>6. CleanerInv
  BY DEF Init, CleanerInv
<1>7. ShutdownInv /\ LossExplained
  BY DEF Init, ShutdownInv, LossExplained, None
<1> QED BY <1>2, <1>3, <1>4, <1>5, <1>6, <1>7 DEF IInv

\* A step that leaves the records, the recorder and the table alone.
LEMMA PlacesKept ==
  ASSUME IInv, UNCHANGED <<fate, queue, cur, rows, expired>>,
         \A r \in Requests : pc'[r] = "done" <=> pc[r] = "done"
  PROVE  PlacesInv' /\ QueueInv'
<1>1. QueueInv'
  BY DEF IInv, QueueInv
<1>2. ASSUME NEW r \in Requests PROVE PlaceInv(r)'
  <2>1. RowsOf(r)' = RowsOf(r) /\ GoneOf(r)' = GoneOf(r) /\ (InQueue(r)' <=> InQueue(r))
    BY DEF RowsOf, GoneOf, InQueue
  <2> QED BY <2>1, StillPlaced DEF IInv, PlacesInv
<1> QED BY <1>1, <1>2 DEF PlacesInv

\* One that leaves the table, the clock and the cleaner alone.
LEMMA TableKept ==
  ASSUME IInv, UNCHANGED <<clock, cleaner, rows, nextId, expired>>
  PROVE  RowsInv' /\ CleanerInv'
BY DEF IInv, RowsInv, CleanerInv

\* One that does not concern the shutdown.
LEMMA PhaseKept ==
  ASSUME IInv, UNCHANGED <<phase, late, forced, closed, storeOpen, fate>>,
         \A r \in Requests \ Hijacked : closed => pc'[r] = pc[r] \/ pc'[r] \in {"idle", "done"},
         ~ storeOpen /\ ~ late => queue' = queue /\ cur' = cur
  PROVE  ShutdownInv' /\ LossExplained'
<1>1. LossExplained'
  BY DEF IInv, LossExplained
<1>2. ShutdownInv'
  BY DEF IInv, ShutdownInv
<1> QED BY <1>1, <1>2

-----------------------------------------------------------------------------
(* Steps that keep the records where they are *)

LEMMA ArriveKeeps == ASSUME IInv, NEW r \in Requests, Arrive(r) PROVE IInv'
<1>0. /\ phase = "up" /\ pc[r] = "idle" /\ pc' = [pc EXCEPT ![r] = "serving"]
      /\ UNCHANGED <<clock, fate, expired, cleaner, rows, nextId, procVars, recorderVars>>
  BY DEF Arrive
<1>1. TypeInv'
  BY <1>0 DEF IInv, TypeInv, procVars, recorderVars
<1>2. PlacesInv' /\ QueueInv'
  BY <1>0, PlacesKept DEF IInv, TypeInv, recorderVars
<1>3. RowsInv' /\ CleanerInv'
  BY <1>0, TableKept
<1>4. ShutdownInv' /\ LossExplained'
  BY <1>0, PhaseKept DEF procVars, recorderVars, IInv, ShutdownInv
<1> QED BY <1>1, <1>2, <1>3, <1>4 DEF IInv

\* Steps of the shutdown before the process ends.
LEMMA StopKeeps ==
  ASSUME IInv, Signal \/ Deadline \/ ShutdownDone \/ StopStore
  PROVE  IInv'
<1>0. UNCHANGED <<clock, forced, pc, fate, queue, cur, cleaner, rows, nextId, expired>>
  BY DEF Signal, Deadline, ShutdownDone, StopStore, dbVars, recorderVars
<1>1. TypeInv'
  BY <1>0 DEF IInv, TypeInv, Signal, Deadline, ShutdownDone, StopStore, recorderVars
<1>2. PlacesInv' /\ QueueInv' /\ RowsInv' /\ CleanerInv'
  BY <1>0, PlacesKept, TableKept
<1>3. LossExplained'
  <2>1. late => late'
    BY DEF IInv, TypeInv, Signal, Deadline, ShutdownDone, StopStore
  <2> QED BY <1>0, <2>1 DEF IInv, LossExplained
<1>4. ShutdownInv'
  <2>1. CASE Signal
    BY <1>0, <2>1 DEF Signal, IInv, ShutdownInv, recorderVars
  <2>2. CASE Deadline
    BY <1>0, <2>2 DEF Deadline, IInv, ShutdownInv, recorderVars
  <2>3. CASE ShutdownDone
    BY <1>0, <2>3 DEF ShutdownDone, IInv, ShutdownInv
  <2>4. CASE StopStore
    BY <1>0, <2>4 DEF StopStore, WorkerDone, IInv, ShutdownInv, recorderVars
  <2> QED BY <2>1, <2>2, <2>3, <2>4
<1> QED BY <1>1, <1>2, <1>3, <1>4 DEF IInv

LEMMA ClockKeeps == ASSUME IInv, Tick PROVE IInv'
<1>0. /\ clock' = clock + Step
      /\ UNCHANGED <<pc, fate, cleaner, dbVars, procVars, recorderVars>>
  BY DEF Tick
<1>1. clock \in Nat /\ clock' \in Nat /\ clock <= clock' /\ Retention \in Nat
  BY <1>0, RecordsAssumption DEF IInv, TypeInv
<1>2. TypeInv'
  BY <1>0, <1>1 DEF IInv, TypeInv, dbVars, procVars, recorderVars
<1>3. PlacesInv' /\ QueueInv' /\ ShutdownInv' /\ LossExplained'
  BY <1>0, PlacesKept, PhaseKept DEF dbVars, procVars, recorderVars
<1>4. RowsInv'
  BY <1>0 DEF IInv, RowsInv, dbVars
<1>5. CleanerInv'
  BY <1>0, <1>1 DEF IInv, CleanerInv, dbVars
<1> QED BY <1>2, <1>3, <1>4, <1>5 DEF IInv

\* The admin reads.
LEMMA ReadKeeps ==
  ASSUME IInv, (\E q \in Walks : Open(q)) \/ NextPage \/ UNCHANGED vars
  PROVE  IInv'
<1>0. UNCHANGED <<clock, pc, fate, cleaner, dbVars, procVars, recorderVars>>
  BY DEF Open, NextPage, vars, dbVars, procVars, recorderVars
<1>1. TypeInv'
  BY <1>0 DEF IInv, TypeInv, dbVars, procVars, recorderVars
<1> QED BY <1>0, <1>1, PlacesKept, TableKept, PhaseKept DEF IInv, dbVars, procVars, recorderVars

-----------------------------------------------------------------------------
(* Steps that move a record *)

\* One insert: the row is in the table or the loss is noted, no other record
\* moves, and the row is too young for a deletion under way.
LEMMA Inserted ==
  ASSUME IInv, NEW r \in Requests, InsertBounded(r), RowsOf(r) = {}, fate[r] = None,
         UNCHANGED <<clock, cleaner, expired>>
  PROVE  /\ nextId' \in Nat
         /\ fate' \in [Requests -> {None, "db", "closed", "store", "exit"}]
         /\ \/ (\E x \in rows' : RowsOf(r)' = {x}) /\ fate'[r] = None
            \/ RowsOf(r)' = {} /\ fate'[r] = "db"
            \/ RowsOf(r)' = {} /\ fate'[r] = "store" /\ ~ storeOpen
         /\ \A q \in Requests \ {r} : RowsOf(q)' = RowsOf(q) /\ fate'[q] = fate[q]
         /\ RowsInv' /\ CleanerInv'
<1> USE DEF IInv, TypeInv
<1>1. CASE rows' = rows \union {NewRow(r)} /\ nextId' = nextId + 1 /\ UNCHANGED fate
  <2> DEFINE x == NewRow(r)
  <2>1. x.id = nextId /\ x.at = clock /\ x.req = r /\ x.id \in Nat /\ x.at \in Int
    BY RowFields
  <2> HIDE DEF x
  <2>2. rows' = rows \union {x}
    BY <1>1 DEF x
  <2>3. RowsOf(r)' = {x} /\ x \in rows'
    BY <2>1, <2>2 DEF RowsOf
  <2>4. \A q \in Requests \ {r} : RowsOf(q)' = RowsOf(q)
    BY <2>1, <2>2 DEF RowsOf
  <2>5. RowsInv'
    <3>1. \A y \in rows : y.id \in Nat /\ y.id < nextId /\ y.at \in Int
      BY DEF RowsInv
    <3>2. \A y \in rows' : y.id \in Nat /\ y.id < nextId' /\ y.at \in Int
      BY <1>1, <2>1, <2>2, <3>1
    <3>3. \A y, z \in rows' : y.id = z.id => y = z
      BY <2>1, <2>2, <3>1 DEF RowsInv
    <3> QED BY <3>2, <3>3 DEF RowsInv
  <2>6. CleanerInv'
    BY <1>1, <2>1, <2>2 DEF CleanerInv
  <2> QED BY <1>1, <2>3, <2>4, <2>5, <2>6
<1>2. CASE /\ UNCHANGED <<rows, nextId>>
           /\ \/ fate' = [fate EXCEPT ![r] = "db"]
              \/ fate' = [fate EXCEPT ![r] = "store"] /\ ~ storeOpen
  <2>1. \A q : RowsOf(q)' = RowsOf(q)
    BY <1>2 DEF RowsOf
  <2>2. RowsInv' /\ CleanerInv'
    BY <1>2, TableKept
  <2> QED BY <1>2, <2>1, <2>2
<1> QED BY <1>1, <1>2 DEF InsertBounded

LEMMA RecordKeeps == ASSUME IInv, NEW r \in Requests, Record(r) PROVE IInv'
<1>0. /\ pc[r] = "serving" /\ UNCHANGED <<clock, closed, cur, cleaner, dbVars, procVars>>
  BY DEF Record
<1>1. /\ Nowhere(r) /\ QueueInv /\ queue \in Seq(Requests) /\ Len(queue) \in Nat
      /\ pc \in [Requests -> {"idle", "serving", "sync", "done"}]
      /\ fate \in [Requests -> {None, "db", "closed", "store", "exit"}]
      /\ closed \in BOOLEAN
  BY <1>0 DEF IInv, PlacesInv, PlaceInv, TypeInv
<1>2. RowsInv' /\ CleanerInv'
  BY <1>0, TableKept DEF dbVars
<1>3. \A q : RowsOf(q)' = RowsOf(q) /\ GoneOf(q)' = GoneOf(q)
  BY <1>0 DEF RowsOf, GoneOf, dbVars
<1>4. CASE closed /\ fate' = [fate EXCEPT ![r] = "closed"]
           /\ pc' = [pc EXCEPT ![r] = "done"] /\ UNCHANGED queue
  <2>1. TypeInv'
    BY <1>0, <1>1, <1>4 DEF IInv, TypeInv, dbVars, procVars
  <2>2. QueueInv'
    BY <1>1, <1>4 DEF QueueInv
  <2>3. \A q : InQueue(q)' <=> InQueue(q)
    BY <1>4 DEF InQueue
  <2>4. ASSUME NEW q \in Requests PROVE PlaceInv(q)'
    <3>1. CASE q = r
      BY <1>0, <1>1, <1>3, <1>4, <2>3, <3>1 DEF PlaceInv, Lost, Nowhere, None
    <3>2. CASE q # r
      BY <1>0, <1>1, <1>3, <1>4, <2>3, <3>2, StillPlaced DEF IInv, PlacesInv
    <3> QED BY <3>1, <3>2
  <2>5. ShutdownInv'
    BY <1>0, <1>1, <1>4 DEF IInv, ShutdownInv, procVars
  <2>6. LossExplained'
    <3>1. late \/ r \in Hijacked
      BY <1>0, <1>4 DEF IInv, ShutdownInv, TypeInv
    <3> QED BY <1>0, <1>1, <1>4, <3>1 DEF IInv, LossExplained, procVars
  <2> QED BY <1>2, <2>1, <2>2, <2>4, <2>5, <2>6 DEF IInv, PlacesInv
<1>5. CASE ~ closed /\ Len(queue) < QueueCap /\ queue' = Append(queue, r)
           /\ pc' = [pc EXCEPT ![r] = "done"] /\ UNCHANGED fate
  <2>0. /\ queue' \in Seq(Requests) /\ Len(queue') = Len(queue) + 1
        /\ queue'[Len(queue) + 1] = r
        /\ \A i \in 1 .. Len(queue) : queue'[i] = queue[i]
    BY <1>1, <1>5
  <2>1. TypeInv'
    BY <1>0, <1>1, <1>5, <2>0 DEF IInv, TypeInv, dbVars, procVars
  <2>2. QueueInv'
    <3>1. \A i \in 1 .. Len(queue) : queue[i] # r
      BY <1>1 DEF Nowhere, InQueue
    <3>2. Len(queue') <= QueueCap
      BY <1>1, <1>5, <2>0, RecordsAssumption
    <3>3. \A i, j \in 1 .. Len(queue') : queue'[i] = queue'[j] => i = j
      BY <1>1, <2>0, <3>1 DEF QueueInv
    <3> QED BY <3>2, <3>3 DEF QueueInv
  <2>3. InQueue(r)' /\ \A q : q # r => (InQueue(q)' <=> InQueue(q))
    <3>1. InQueue(r)'
      BY <1>1, <2>0 DEF InQueue
    <3>2. ASSUME NEW q, q # r PROVE InQueue(q)' <=> InQueue(q)
      BY <1>1, <2>0, <3>2 DEF InQueue
    <3> QED BY <3>1, <3>2
  <2>4. ASSUME NEW q \in Requests PROVE PlaceInv(q)'
    <3>1. CASE q = r
      BY <1>0, <1>1, <1>3, <1>5, <2>3, <3>1 DEF PlaceInv, Waiting, Nowhere
    <3>2. CASE q # r
      BY <1>0, <1>1, <1>3, <1>5, <2>3, <3>2, StillPlaced DEF IInv, PlacesInv
    <3> QED BY <3>1, <3>2
  <2>5. ShutdownInv' /\ LossExplained'
    BY <1>0, <1>1, <1>5, PhaseKept DEF IInv, ShutdownInv, procVars
  <2> QED BY <1>2, <2>1, <2>2, <2>4, <2>5 DEF IInv, PlacesInv
<1>6. CASE ~ closed /\ pc' = [pc EXCEPT ![r] = "sync"] /\ UNCHANGED <<queue, fate>>
  <2>1. TypeInv'
    BY <1>0, <1>1, <1>6 DEF IInv, TypeInv, dbVars, procVars
  <2>2. PlacesInv' /\ QueueInv'
    BY <1>0, <1>1, <1>6, PlacesKept DEF dbVars
  <2>3. ShutdownInv' /\ LossExplained'
    BY <1>0, <1>1, <1>6, PhaseKept DEF IInv, ShutdownInv, procVars
  <2> QED BY <1>2, <2>1, <2>2, <2>3 DEF IInv
<1> QED BY <1>4, <1>5, <1>6 DEF Record

LEMMA SyncKeeps == ASSUME IInv, NEW r \in Requests, SyncInsert(r) PROVE IInv'
<1>0. /\ pc[r] = "sync" /\ InsertBounded(r) /\ pc' = [pc EXCEPT ![r] = "done"]
      /\ UNCHANGED <<clock, expired, cleaner, procVars, recorderVars>>
  BY DEF SyncInsert
<1>1. /\ Nowhere(r) /\ RowsOf(r) = {} /\ fate[r] = None
      /\ pc \in [Requests -> {"idle", "serving", "sync", "done"}]
  BY <1>0 DEF IInv, PlacesInv, PlaceInv, TypeInv, Nowhere
<1>2. /\ nextId' \in Nat
      /\ fate' \in [Requests -> {None, "db", "closed", "store", "exit"}]
      /\ \/ (\E x \in rows' : RowsOf(r)' = {x}) /\ fate'[r] = None
         \/ RowsOf(r)' = {} /\ fate'[r] = "db"
         \/ RowsOf(r)' = {} /\ fate'[r] = "store" /\ ~ storeOpen
      /\ \A q \in Requests \ {r} : RowsOf(q)' = RowsOf(q) /\ fate'[q] = fate[q]
      /\ RowsInv' /\ CleanerInv'
  BY <1>0, <1>1, Inserted
<1>3. TypeInv'
  BY <1>0, <1>1, <1>2 DEF IInv, TypeInv, procVars, recorderVars
<1>4. QueueInv'
  BY <1>0 DEF IInv, QueueInv, recorderVars
<1>5. \A q : (InQueue(q)' <=> InQueue(q)) /\ GoneOf(q)' = GoneOf(q)
  BY <1>0 DEF InQueue, GoneOf, recorderVars
<1>6. ASSUME NEW q \in Requests PROVE PlaceInv(q)'
  <2>1. CASE q = r
    BY <1>0, <1>1, <1>2, <1>5, <2>1 DEF PlaceInv, InTable, Lost, Nowhere, recorderVars, None
  <2>2. CASE q # r
    BY <1>0, <1>1, <1>2, <1>5, <2>2, StillPlaced DEF IInv, PlacesInv, recorderVars
  <2> QED BY <2>1, <2>2
<1>7. ShutdownInv'
  BY <1>0, <1>1 DEF IInv, ShutdownInv, procVars, recorderVars
<1>8. LossExplained'
  <2>1. ~ storeOpen => late \/ r \in Hijacked
    BY <1>0 DEF IInv, ShutdownInv, TypeInv
  <2> QED BY <1>0, <1>2, <2>1 DEF IInv, LossExplained, procVars, None
<1> QED BY <1>2, <1>3, <1>4, <1>6, <1>7, <1>8 DEF IInv, PlacesInv

LEMMA TakeKeeps == ASSUME IInv, WorkerTake PROVE IInv'
<1>0. /\ cur = None /\ queue # <<>> /\ cur' = Head(queue) /\ queue' = Tail(queue)
      /\ UNCHANGED <<clock, pc, fate, closed, cleaner, dbVars, procVars>>
  BY DEF WorkerTake
<1>1. queue \in Seq(Requests) /\ Len(queue) \in Nat /\ QueueInv /\ QueueCap \in Nat
  BY RecordsAssumption DEF IInv, TypeInv
<1>2. /\ queue' \in Seq(Requests) /\ Len(queue') = Len(queue) - 1 /\ Len(queue) > 0
      /\ \A i \in 1 .. Len(queue') : queue'[i] = queue[i + 1]
      /\ cur' = queue[1] /\ cur' \in Requests
  BY <1>0, <1>1
<1> PICK h \in Requests : h = cur'
  BY <1>2
<1>3. TypeInv'
  BY <1>0, <1>2 DEF IInv, TypeInv, dbVars, procVars
<1>4. QueueInv'
  BY <1>1, <1>2 DEF QueueInv
<1>5. ~ InQueue(h)' /\ InQueue(h) /\ \A q : q # h => (InQueue(q)' <=> InQueue(q))
  <2>1. InQueue(h)
    BY <1>1, <1>2 DEF InQueue
  <2>2. \A i \in 1 .. Len(queue') : queue'[i] # queue[1]
    BY <1>1, <1>2 DEF QueueInv
  <2>3. ASSUME NEW q, q # h, InQueue(q) PROVE InQueue(q)'
    <3>1. PICK i \in 1 .. Len(queue) : queue[i] = q
      BY <2>3 DEF InQueue
    <3>2. i # 1 /\ i - 1 \in 1 .. Len(queue') /\ queue'[i - 1] = q
      BY <1>1, <1>2, <2>3, <3>1
    <3> QED BY <3>2 DEF InQueue
  <2>4. ASSUME NEW q, InQueue(q)' PROVE InQueue(q)
    <3>1. PICK i \in 1 .. Len(queue') : queue'[i] = q
      BY <2>4 DEF InQueue
    <3>2. i + 1 \in 1 .. Len(queue) /\ queue[i + 1] = q
      BY <1>1, <1>2, <3>1
    <3> QED BY <3>2 DEF InQueue
  <2>5. ~ InQueue(h)'
    BY <1>2, <2>2 DEF InQueue
  <2> QED BY <2>1, <2>3, <2>4, <2>5
<1>6. \A q : RowsOf(q)' = RowsOf(q) /\ GoneOf(q)' = GoneOf(q)
  BY <1>0 DEF RowsOf, GoneOf, dbVars
<1>7. ASSUME NEW q \in Requests PROVE PlaceInv(q)'
  <2>1. CASE q = h
    <3>1. PlaceInv(q) /\ InQueue(q) /\ ~ InQueue(q)'
      BY <1>5, <2>1 DEF IInv, PlacesInv
    <3>2. Waiting(q) /\ pc[q] = "done"
      BY <3>1 DEF PlaceInv, Nowhere, InHand, InTable, Deleted, Lost
    <3> QED BY <1>0, <1>6, <2>1, <3>1, <3>2 DEF PlaceInv, Waiting, InHand
  <2>2. CASE q # h
    <3>1. cur # q
      BY <1>0, RecordsAssumption
    <3> QED BY <1>0, <1>5, <1>6, <2>2, <3>1, StillPlaced DEF IInv, PlacesInv
  <2> QED BY <2>1, <2>2
<1>8. ShutdownInv' /\ LossExplained'
  BY <1>0, PhaseKept DEF procVars, IInv, ShutdownInv
<1>9. RowsInv' /\ CleanerInv'
  BY <1>0, TableKept DEF dbVars
<1> QED BY <1>3, <1>4, <1>7, <1>8, <1>9 DEF IInv, PlacesInv

LEMMA WorkerInsertKeeps == ASSUME IInv, WorkerInsert PROVE IInv'
<1>0. /\ cur # None /\ InsertBounded(cur) /\ cur' = None
      /\ UNCHANGED <<clock, pc, queue, closed, expired, cleaner, procVars>>
  BY DEF WorkerInsert
<1>1. cur \in Requests /\ PlaceInv(cur)
  BY <1>0 DEF IInv, TypeInv, PlacesInv
<1> PICK w \in Requests : w = cur
  BY <1>1
<1>2. InHand(w) /\ RowsOf(w) = {} /\ fate[w] = None /\ pc[w] = "done"
  BY <1>1 DEF PlaceInv, Nowhere, Waiting, InHand, InTable, Deleted, Lost
<1>3. /\ nextId' \in Nat
      /\ fate' \in [Requests -> {None, "db", "closed", "store", "exit"}]
      /\ \/ (\E x \in rows' : RowsOf(w)' = {x}) /\ fate'[w] = None
         \/ RowsOf(w)' = {} /\ fate'[w] = "db"
         \/ RowsOf(w)' = {} /\ fate'[w] = "store" /\ ~ storeOpen
      /\ \A q \in Requests \ {w} : RowsOf(q)' = RowsOf(q) /\ fate'[q] = fate[q]
      /\ RowsInv' /\ CleanerInv'
  BY <1>0, <1>1, <1>2, Inserted
<1>4. TypeInv'
  BY <1>0, <1>3 DEF IInv, TypeInv, procVars
<1>5. QueueInv'
  BY <1>0 DEF IInv, QueueInv
<1>6. \A q : (InQueue(q)' <=> InQueue(q)) /\ GoneOf(q)' = GoneOf(q)
  BY <1>0 DEF InQueue, GoneOf
<1>7. ASSUME NEW q \in Requests PROVE PlaceInv(q)'
  <2>1. CASE q = w
    BY <1>0, <1>1, <1>2, <1>3, <1>6, <2>1 DEF PlaceInv, InTable, Lost, InHand, None
  <2>2. CASE q # w
    <3>1. cur' # q
      BY <1>0, RecordsAssumption
    <3> QED BY <1>0, <1>3, <1>6, <2>2, <3>1, StillPlaced DEF IInv, PlacesInv
  <2> QED BY <2>1, <2>2
<1>8. ShutdownInv'
  BY <1>0 DEF IInv, ShutdownInv, procVars
<1>9. LossExplained'
  <2>1. ~ storeOpen => late
    BY <1>0 DEF IInv, ShutdownInv, TypeInv
  <2> QED BY <1>0, <1>3, <2>1 DEF IInv, LossExplained, procVars, None
<1> QED BY <1>3, <1>4, <1>5, <1>7, <1>8, <1>9 DEF IInv, PlacesInv

\* The process ends: whatever was in memory is noted as lost.
LEMMA ExitKeeps ==
  ASSUME IInv, NEW f \in BOOLEAN, Exit(f), phase # "exited",
         ~ f => phase = "stopped"
  PROVE  IInv'
<1> DEFINE Live(r) == pc[r] \in {"serving", "sync"} \/ r = cur \/ InQueue(r)
<1>0. /\ phase' = "exited" /\ forced' = f /\ queue' = <<>> /\ cur' = None
      /\ fate' = [r \in Requests |-> IF Live(r) THEN "exit" ELSE fate[r]]
      /\ pc' = [r \in Requests |-> IF pc[r] = "idle" THEN "idle" ELSE "done"]
      /\ UNCHANGED <<clock, late, storeOpen, closed, cleaner, dbVars>>
  <2>1. \A r : r \in ToSet(queue) <=> InQueue(r)
    BY QueueSet DEF IInv, TypeInv
  <2> QED BY <2>1 DEF Exit
<1> HIDE DEF Live
<1>1. TypeInv'
  <2>1. queue' \in Seq(Requests) /\ cur' \in Requests \cup {None}
    BY <1>0
  <2>2. /\ pc' \in [Requests -> {"idle", "serving", "sync", "done"}]
        /\ fate' \in [Requests -> {None, "db", "closed", "store", "exit"}]
    BY <1>0 DEF IInv, TypeInv
  <2> QED BY <1>0, <2>1, <2>2 DEF IInv, TypeInv, dbVars
<1>2. QueueInv'
  BY <1>0, RecordsAssumption DEF QueueInv
<1>3. RowsInv' /\ CleanerInv'
  BY <1>0, TableKept DEF dbVars
<1>4. \A q : /\ RowsOf(q)' = RowsOf(q) /\ GoneOf(q)' = GoneOf(q) /\ ~ InQueue(q)'
  BY <1>0 DEF RowsOf, GoneOf, InQueue, dbVars
<1>5. ASSUME NEW r \in Requests PROVE PlaceInv(r)'
  <2>0. PlaceInv(r) /\ cur' # r /\ pc[r] \in {"idle", "serving", "sync", "done"}
    BY <1>0, RecordsAssumption DEF IInv, PlacesInv, TypeInv
  <2>1. CASE Live(r)
    <3>1. RowsOf(r) = {} /\ GoneOf(r) = {} /\ pc[r] # "idle"
      BY <2>0, <2>1 DEF Live, PlaceInv, Nowhere, Waiting, InHand, InTable, Deleted, Lost
    <3>2. fate'[r] # None /\ pc'[r] = "done"
      BY <1>0, <2>1, <3>1 DEF None
    <3> QED BY <1>4, <2>0, <3>1, <3>2 DEF PlaceInv, Lost
  <2>2. CASE ~ Live(r)
    <3>1. fate'[r] = fate[r] /\ cur # r /\ ~ InQueue(r) /\ (pc'[r] = "done" <=> pc[r] = "done")
      BY <1>0, <2>0, <2>2 DEF Live
    <3> QED BY <1>4, <2>0, <3>1, StillPlaced
  <2> QED BY <2>1, <2>2
<1>6. ShutdownInv'
  BY <1>0 DEF IInv, ShutdownInv
<1>7. LossExplained'
  <2> SUFFICES ASSUME NEW r \in Requests, fate'[r] \in {"closed", "store", "exit"}
               PROVE  late' \/ forced' \/ r \in Hijacked
    BY DEF LossExplained
  <2>1. CASE f
    BY <1>0, <2>1
  <2>2. CASE ~ f
    <3>0. phase = "stopped" /\ closed /\ ~ storeOpen /\ ~ forced
      BY <2>2 DEF IInv, ShutdownInv, TypeInv
    <3>1. CASE Live(r)
      <4>1. CASE late
        BY <1>0, <4>1
      <4>2. CASE ~ late
        <5>1. queue = <<>> /\ cur = None /\ (r \notin Hijacked => pc[r] \in {"idle", "done"})
          BY <3>0, <4>2 DEF IInv, ShutdownInv
        <5>2. pc[r] \in {"serving", "sync"}
          BY <3>1, <5>1, RecordsAssumption DEF Live, InQueue
        <5> QED BY <5>1, <5>2
      <4> QED BY <4>1, <4>2
    <3>2. CASE ~ Live(r)
      <4>1. fate[r] \in {"closed", "store", "exit"}
        BY <1>0, <3>2
      <4> QED BY <1>0, <3>0, <4>1 DEF IInv, LossExplained
    <3> QED BY <3>1, <3>2
  <2> QED BY <2>1, <2>2
<1> QED BY <1>1, <1>2, <1>3, <1>5, <1>6, <1>7 DEF IInv, PlacesInv

\* A cleanup's selection: rows older than the cutoff, all numbered before.
LEMMA CleanupSelectKeeps == ASSUME IInv, CleanupWake \/ CleanupSelect PROVE IInv'
<1>0. UNCHANGED <<clock, pc, fate, dbVars, procVars, recorderVars>>
  BY DEF CleanupWake, CleanupSelect
<1>1. TypeInv'
  BY <1>0 DEF IInv, TypeInv, dbVars, procVars, recorderVars
<1>2. PlacesInv' /\ QueueInv' /\ ShutdownInv' /\ LossExplained'
  BY <1>0, PlacesKept, PhaseKept DEF dbVars, procVars, recorderVars
<1>3. RowsInv'
  BY <1>0 DEF IInv, RowsInv, dbVars
<1>4. CleanerInv'
  <2>0. /\ CleanerInv /\ clock \in Nat /\ Retention \in Nat /\ RowsInv
        /\ UNCHANGED <<clock, rows, nextId, expired>>
    BY <1>0, RecordsAssumption DEF IInv, TypeInv, dbVars
  <2>1. CASE CleanupWake
    <3>1. cleaner' = [pc |-> "select", cutoff |-> clock - Retention, ids |-> cleaner.ids]
      BY <2>0, <2>1 DEF CleanupWake, CleanerInv
    <3> QED BY <2>0, <3>1 DEF CleanerInv
  <2>2. CASE CleanupSelect
    <3> DEFINE c == cleaner.cutoff
    <3>1. \/ cleaner' = [pc |-> "wait", cutoff |-> c, ids |-> {}]
          \/ cleaner' = [pc |-> "delete", cutoff |-> c, ids |-> Oldest(c)]
      BY <2>0, <2>2 DEF CleanupSelect, CleanerInv
    <3>2. c \in Int /\ c <= clock - Retention
      BY <2>0, <2>2 DEF CleanupSelect, CleanerInv
    <3>3. \A i \in Oldest(c) : \E x \in rows : x.at < c /\ x.id = i
      BY DEF Oldest
    <3>4. /\ \A i \in Oldest(c) : i \in Nat /\ i < nextId
          /\ \A x \in rows : x.id \in Oldest(c) => x.at < c
      BY <2>0, <3>3 DEF RowsInv
    <3> HIDE DEF c
    <3> QED BY <2>0, <3>1, <3>2, <3>4 DEF CleanerInv
  <2> QED BY <2>1, <2>2
<1> QED BY <1>1, <1>2, <1>3, <1>4 DEF IInv

\* A deletion moves rows from the table to the deleted ones.
LEMMA CleanupDeleteKeeps == ASSUME IInv, CleanupDelete PROVE IInv'
<1>0. /\ cleaner.pc = "delete"
      /\ UNCHANGED <<clock, pc, fate, nextId, procVars, recorderVars>>
  BY DEF CleanupDelete
<1>1. /\ CleanerInv /\ RowsInv /\ clock \in Nat /\ Retention \in Nat
  BY RecordsAssumption DEF IInv, TypeInv
<1>2. TypeInv' /\ QueueInv' /\ ShutdownInv' /\ LossExplained'
  <2>1. TypeInv'
    BY <1>0 DEF IInv, TypeInv, procVars, recorderVars
  <2>2. QueueInv'
    BY <1>0 DEF IInv, QueueInv, recorderVars
  <2> QED BY <1>0, <2>1, <2>2, PhaseKept DEF procVars, recorderVars
<1> DEFINE away == {r \in rows : r.id \in cleaner.ids}
<1>3. \E l : /\ cleaner' = [pc |-> l, cutoff |-> cleaner.cutoff, ids |-> {}]
             /\ l \in {"wait", "select"}
  BY <1>1 DEF CleanupDelete, CleanerInv
<1>4. CASE rows' = rows \ away /\ expired' = expired \union {<<r, clock>> : r \in away}
  <2>1. RowsInv'
    BY <1>0, <1>1, <1>4 DEF RowsInv
  <2>2. \A e \in expired' : e[2] - e[1].at > Retention
    <3>1. ASSUME NEW x \in away PROVE clock - x.at > Retention
      BY <1>0, <1>1 DEF CleanerInv, RowsInv
    <3> QED BY <1>1, <1>4, <3>1 DEF CleanerInv
  <2>3. CleanerInv'
    BY <1>0, <1>1, <1>3, <2>2 DEF CleanerInv
  <2>4. ASSUME NEW r \in Requests PROVE PlaceInv(r)'
    <3>0. /\ PlaceInv(r) /\ (InQueue(r)' <=> InQueue(r)) /\ cur' = cur /\ pc' = pc /\ fate' = fate
      BY <1>0 DEF IInv, PlacesInv, InQueue, recorderVars
    <3>1. RowsOf(r)' = RowsOf(r) \ away
      BY <1>4 DEF RowsOf
    <3>2. GoneOf(r)' = GoneOf(r) \union {<<x, clock>> : x \in RowsOf(r) \cap away}
      <4>1. ASSUME NEW e PROVE e \in GoneOf(r)' <=>
                 e \in GoneOf(r) \/ \E x \in RowsOf(r) \cap away : e = <<x, clock>>
        BY <1>4 DEF GoneOf, RowsOf
      <4> QED BY <4>1
    <3> HIDE DEF away
    <3>3. CASE RowsOf(r) \cap away = {}
      <4>1. RowsOf(r)' = RowsOf(r) /\ GoneOf(r)' = GoneOf(r)
        BY <3>1, <3>2, <3>3
      <4> QED BY <3>0, <4>1, StillPlaced
    <3>4. CASE RowsOf(r) \cap away # {}
      <4>1. InTable(r) /\ pc[r] = "done"
        BY <3>0, <3>4 DEF PlaceInv, Nowhere, Waiting, InHand, Deleted, Lost
      <4>2. PICK x \in rows : RowsOf(r) = {x}
        BY <4>1 DEF InTable
      <4>3. RowsOf(r)' = {} /\ GoneOf(r)' = {<<x, clock>>}
        BY <3>1, <3>2, <3>4, <4>1, <4>2 DEF InTable
      <4>4. <<x, clock>> \in expired'
        BY <4>3 DEF GoneOf
      <4> QED BY <3>0, <4>1, <4>3, <4>4 DEF PlaceInv, InTable, Deleted
    <3> QED BY <3>3, <3>4
  <2> QED BY <1>2, <2>1, <2>3, <2>4 DEF IInv, PlacesInv
<1>5. CASE UNCHANGED <<rows, expired>>
  <2>1. PlacesInv'
    BY <1>0, <1>5, PlacesKept DEF recorderVars
  <2>2. RowsInv'
    BY <1>0, <1>1, <1>5 DEF RowsInv
  <2>3. CleanerInv'
    BY <1>0, <1>1, <1>3, <1>5 DEF CleanerInv
  <2> QED BY <1>2, <2>1, <2>2, <2>3 DEF IInv
<1> QED BY <1>4, <1>5 DEF CleanupDelete

-----------------------------------------------------------------------------
(* The invariant, and the properties it implies *)

LEMMA NextIInv == IInv /\ [Next]_vars => IInv'
<1> SUFFICES ASSUME IInv, [Next]_vars PROVE IInv'
  OBVIOUS
<1>1. CASE \E r \in Requests : Arrive(r) \/ Record(r) \/ SyncInsert(r)
  BY <1>1, ArriveKeeps, RecordKeeps, SyncKeeps
<1>2. CASE WorkerTake \/ WorkerInsert
  BY <1>2, TakeKeeps, WorkerInsertKeeps
<1>3. CASE Signal \/ Deadline \/ ShutdownDone \/ StopStore
  BY <1>3, StopKeeps
<1>4. CASE Return \/ SecondSignal
  <2>1. CASE Return
    BY <2>1, ExitKeeps DEF Return
  <2>2. CASE SecondSignal
    BY <2>2, ExitKeeps DEF SecondSignal
  <2> QED BY <1>4, <2>1, <2>2
<1>5. CASE CleanupWake \/ CleanupSelect \/ CleanupDelete
  BY <1>5, CleanupSelectKeeps, CleanupDeleteKeeps
<1>6. CASE (\E q \in Walks : Open(q)) \/ NextPage \/ Idle \/ UNCHANGED vars
  BY <1>6, ReadKeeps DEF Idle
<1>7. CASE Tick
  BY <1>7, ClockKeeps
<1> QED BY <1>1, <1>2, <1>3, <1>4, <1>5, <1>6, <1>7 DEF Next

LEMMA AlwaysIInv == Spec => []IInv
BY InitIInv, NextIInv, PTL DEF Spec

\* Every finished request's record is in exactly one place and an unfinished
\* one's in none, the queue keeps its bound, identifiers are unique, and
\* retention deletes nothing that is not old enough: through every interleaving
\* of handlers, worker, cleaner and shutdown, and whatever insert fails.
THEOREM AlwaysAccounted == Spec => []Accounted
<1>1. IInv => Accounted
  <2> SUFFICES ASSUME IInv PROVE Accounted
    OBVIOUS
  <2>1. ASSUME NEW r \in Requests PROVE Places(r) = IF pc[r] = "done" THEN 1 ELSE 0
    <3> DEFINE n == Cardinality(RowsOf(r))
               m == Cardinality(GoneOf(r))
    <3>1. Places(r) = (IF InQueue(r) THEN 1 ELSE 0) + (IF cur = r THEN 1 ELSE 0) + n + m
                        + (IF fate[r] # None THEN 1 ELSE 0)
      BY QueueSet DEF Places, RowsOf, GoneOf, IInv, TypeInv
    <3>2. /\ RowsOf(r) = {} => n = 0
          /\ GoneOf(r) = {} => m = 0
      BY FS_EmptySet
    <3>3. /\ (\E x \in rows : RowsOf(r) = {x}) => n = 1
          /\ (\E e \in expired : GoneOf(r) = {e}) => m = 1
      BY FS_Singleton
    <3> HIDE DEF n, m
    <3>4. PlaceInv(r)
      BY DEF IInv, PlacesInv
    <3> QED BY <3>1, <3>2, <3>3, <3>4
            DEF PlaceInv, Nowhere, Waiting, InHand, InTable, Deleted, Lost
  <2> QED BY <2>1 DEF Accounted, IInv, QueueInv, RowsInv, CleanerInv
<1> QED BY <1>1, AlwaysIInv, PTL

\* A record is lost other than by a failing insert only when the drain ran out
\* of time, a second signal ended the process, or its request was a relay.
THEOREM AlwaysExplained == Spec => []LossExplained
<1>1. IInv => LossExplained
  BY DEF IInv
<1> QED BY <1>1, AlwaysIInv, PTL

-----------------------------------------------------------------------------
(* Pages of the request log *)

Numbered(s) == \A x \in s : x.id \in Nat
Distinct(s) == \A x, y \in s : x.id = y.id => x = y

LEMMA LeastId ==
  ASSUME NEW s, s # {}, Numbered(s)
  PROVE  \E m \in s : \A x \in s : m.id <= x.id
<1> DEFINE T == {x.id : x \in s}
           R == OpToRel(<, Nat)
<1>1. T \subseteq Nat /\ T # {}
  BY DEF Numbered
<1>2. \E n \in T : \A k \in T : ~(<<k, n>> \in R)
  BY <1>1, NatLessThanWellFounded, WFMin
<1>3. PICK m \in s : \A x \in s : ~(<<x.id, m.id>> \in R)
  BY <1>2
<1>4. \A x \in s : ~(x.id < m.id)
  BY <1>1, <1>3, Zenon DEF OpToRel
<1> QED BY <1>4 DEF Numbered

\* A finite set of rows can be put in the order of NewestFirst: the row with
\* the least id comes last, after the order of the others.
LEMMA OrderExists ==
  ASSUME NEW s, IsFiniteSet(s), Numbered(s), Distinct(s)
  PROVE  \E f \in [1 .. Cardinality(s) -> s] :
           \A i, j \in 1 .. Cardinality(s) : i < j => f[i].id > f[j].id
<1> DEFINE Orders(t, n) == {f \in [1 .. n -> t] : \A i, j \in 1 .. n : i < j => f[i].id > f[j].id}
           Sized(n) == {t \in SUBSET s : IsFiniteSet(t) /\ Cardinality(t) = n}
           Bad == {n \in Nat : \E t \in Sized(n) : Orders(t, n) = {}}
<1>1. ASSUME NEW n \in Nat, NEW t \in Sized(n + 1), \A u \in Sized(n) : Orders(u, n) # {}
      PROVE  Orders(t, n + 1) # {}
  <2>1. t # {} /\ t \subseteq s /\ IsFiniteSet(t)
    BY FS_EmptySet
  <2>2. PICK m \in t : \A x \in t : m.id <= x.id
    BY <2>1, LeastId DEF Numbered
  <2>3. t \ {m} \in Sized(n)
    <3>1. IsFiniteSet(t \ {m}) /\ Cardinality(t \ {m}) = Cardinality(t) - 1
      BY <2>1, <2>2, FS_RemoveElement
    <3>2. Cardinality(t) = n + 1
      OBVIOUS
    <3>3. Cardinality(t \ {m}) = n
      BY <3>1, <3>2
    <3> QED BY <2>1, <3>1, <3>3
  <2>4. PICK g \in Orders(t \ {m}, n) : TRUE
    BY <1>1, <2>3
  <2> DEFINE f == [i \in 1 .. n + 1 |-> IF i = n + 1 THEN m ELSE g[i]]
  <2>5. \A i \in 1 .. n : i \in 1 .. n + 1 /\ i # n + 1 /\ f[i] = g[i] /\ g[i] \in t /\ g[i] # m
    BY <2>4
  <2>6. f[n + 1] = m
    OBVIOUS
  <2>7. \A i \in 1 .. n + 1 : i = n + 1 \/ i \in 1 .. n
    OBVIOUS
  <2>8. f \in [1 .. n + 1 -> t]
    BY <2>5, <2>7
  <2> HIDE DEF f
  <2>9. ASSUME NEW i \in 1 .. n + 1, NEW j \in 1 .. n + 1, i < j PROVE f[i].id > f[j].id
    <3>1. i \in 1 .. n
      BY <2>9
    <3>2. CASE j = n + 1
      <4>1. g[i].id # m.id /\ m.id <= g[i].id /\ g[i].id \in Nat /\ m.id \in Nat
        BY <2>1, <2>2, <2>5, <3>1 DEF Distinct, Numbered
      <4> QED BY <2>5, <2>6, <3>1, <3>2, <4>1
    <3>3. CASE j \in 1 .. n
      BY <2>4, <2>5, <2>9, <3>1, <3>3
    <3> QED BY <2>7, <3>2, <3>3
  <2> QED BY <2>8, <2>9
<1>2. ASSUME NEW t \in Sized(0) PROVE Orders(t, 0) # {}
  <2>1. [i \in 1 .. 0 |-> i] \in Orders(t, 0)
    OBVIOUS
  <2> QED BY <2>1
<1>3. Bad = {}
  <2> SUFFICES ASSUME Bad # {} PROVE FALSE
    OBVIOUS
  <2> DEFINE R == OpToRel(<, Nat)
  <2>1. Bad \subseteq Nat
    OBVIOUS
  <2>2. PICK n \in Bad : \A k \in Bad : ~(<<k, n>> \in R)
    BY <2>1, NatLessThanWellFounded, WFMin
  <2>3. n \in Nat /\ n # 0
    BY <1>2
  <2>4. n - 1 \in Nat /\ n - 1 < n /\ (n - 1) + 1 = n
    BY <2>3
  <2>5. n - 1 \notin Bad
    <3>1. <<n - 1, n>> \in R
      BY <2>3, <2>4, Zenon DEF OpToRel
    <3> QED BY <2>2, <3>1
  <2>6. \A u \in Sized(n - 1) : Orders(u, n - 1) # {}
    BY <2>4, <2>5
  <2>7. \A t \in Sized((n - 1) + 1) : Orders(t, (n - 1) + 1) # {}
    BY <1>1, <2>4, <2>6
  <2>8. PICK t \in Sized(n) : Orders(t, n) = {}
    OBVIOUS
  <2> QED BY <2>4, <2>7, <2>8
<1>4. Cardinality(s) \in Nat /\ s \in Sized(Cardinality(s))
  BY FS_CardinalityType
<1>5. Orders(s, Cardinality(s)) # {}
  BY <1>3, <1>4
<1> QED BY <1>5

LEMMA Ordered ==
  ASSUME NEW s, IsFiniteSet(s), Numbered(s), Distinct(s)
  PROVE  LET n == Cardinality(s)
             f == NewestFirst(s)
         IN  /\ n \in Nat /\ f \in [1 .. n -> s]
             /\ \A i, j \in 1 .. n : i < j => f[i].id > f[j].id
             /\ \A x \in s : \E i \in 1 .. n : f[i] = x
<1> DEFINE n == Cardinality(s)
           f == NewestFirst(s)
<1>1. n \in Nat
  BY FS_CardinalityType
<1>2. /\ f \in [1 .. n -> s] /\ \A i, j \in 1 .. n : i < j => f[i].id > f[j].id
  BY OrderExists DEF NewestFirst
<1> HIDE DEF f
<1>3. ASSUME NEW x \in s, \A i \in 1 .. n : f[i] # x PROVE FALSE
  <2>1. f \in [1 .. n -> s \ {x}]
    BY <1>2, <1>3
  <2>2. IsFiniteSet(s \ {x}) /\ Cardinality(s \ {x}) = n - 1
    BY FS_RemoveElement
  <2>3. IsFiniteSet(1 .. n) /\ Cardinality(1 .. n) = n
    BY <1>1, FS_Interval
  <2>4. PICK i \in 1 .. n, j \in 1 .. n : i # j /\ f[i] = f[j]
    BY <1>1, <2>1, <2>2, <2>3, FS_PigeonHole
  <2>5. i < j \/ j < i
    BY <1>1, <2>4
  <2>6. f[i].id \in Nat
    BY <1>2 DEF Numbered
  <2> QED BY <1>2, <2>4, <2>5, <2>6
<1> QED BY <1>1, <1>2, <1>3 DEF f

\* A query's rows, and the ones of them that are below the cursor.
Selected(x, q) == x \in SessionFilters({x}, q)
Below(R, q, before) == {r \in SessionFilters(R, q) : before > 0 => r.id < before}

LEMMA Selection == ASSUME NEW R, NEW q
                   PROVE  SessionFilters(R, q) = {x \in R : Selected(x, q)}
BY DEF SessionFilters, Selected

LEMMA LeastOfTwo == ASSUME NEW a \in Nat, NEW b \in Nat
                    PROVE  Min({a, b}) = IF a <= b THEN a ELSE b
<1>1. PICK m \in {a, b} : m = (IF a <= b THEN a ELSE b) /\ \A y \in {a, b} : m <= y
  OBVIOUS
<1>2. Min({a, b}) \in {a, b} /\ \A y \in {a, b} : Min({a, b}) <= y
  BY <1>1 DEF Min
<1> QED BY <1>1, <1>2

\* One page: rows of the selection, newest first, and all of them down to the
\* cursor it hands out.
PageShows(page, s) ==
  /\ page = [records |-> page.records, has_more |-> page.has_more, next |-> page.next]
  /\ page.has_more \in BOOLEAN
  /\ page.records \in Seq(s)
  /\ \A i, j \in 1 .. Len(page.records) : i < j => page.records[i].id > page.records[j].id
  /\ page.has_more =>
       /\ \E x \in s : page.next = x.id
       /\ \A i \in 1 .. Len(page.records) : page.records[i].id >= page.next
       /\ \A x \in s : x.id < page.next \/ \E i \in 1 .. Len(page.records) : page.records[i] = x
  /\ ~ page.has_more => \A x \in s : \E i \in 1 .. Len(page.records) : page.records[i] = x

LEMMA QueryPageShows ==
  ASSUME NEW R, IsFiniteSet(R), Numbered(R), Distinct(R), NEW q, NEW before
  PROVE  PageShows(QueryPage(R, q, before), Below(R, q, before))
<1> DEFINE s == Below(R, q, before)
           n == Cardinality(s)
           f == NewestFirst(s)
           limit == PageSize(q)
           m == Min({limit + 1, n})
           found == Query(R, q, before, limit + 1)
           page == QueryPage(R, q, before)
<1>1. s \subseteq R
  BY DEF Below, SessionFilters
<1>2. IsFiniteSet(s) /\ Numbered(s) /\ Distinct(s)
  BY <1>1, FS_Subset DEF Numbered, Distinct
<1>3. /\ n \in Nat /\ f \in [1 .. n -> s]
      /\ \A i, j \in 1 .. n : i < j => f[i].id > f[j].id
      /\ \A x \in s : \E i \in 1 .. n : f[i] = x
  BY <1>2, Ordered
<1>4. limit \in Nat \ {0}
  BY DEF PageSize, MaxPage, DefaultPage
<1>5. found = SubSeq(f, 1, m)
  BY DEF Query, Below
<1>6. page = IF Len(found) <= limit
             THEN [records |-> found, has_more |-> FALSE, next |-> 0]
             ELSE [records |-> SubSeq(found, 1, limit), has_more |-> TRUE,
                   next |-> found[limit].id]
  BY DEF QueryPage
<1> SUFFICES PageShows(page, s)
  OBVIOUS
<1> HIDE DEF s, n, f, limit, found, page
<1>7. m \in Nat /\ m = IF limit + 1 <= n THEN limit + 1 ELSE n
  BY <1>3, <1>4, LeastOfTwo
<1> HIDE DEF m
<1>8. /\ found \in Seq(s) /\ Len(found) = m
      /\ \A i \in 1 .. m : found[i] = f[i]
  <2>1. \A i \in 1 .. m : f[i] \in s
    BY <1>3, <1>7
  <2>2. /\ SubSeq(f, 1, m) \in Seq(s)
        /\ Len(SubSeq(f, 1, m)) = IF 1 <= m THEN m - 1 + 1 ELSE 0
        /\ \A i \in 1 .. m - 1 + 1 : SubSeq(f, 1, m)[i] = f[1 + i - 1]
    BY <1>7, <2>1, SubSeqProperties
  <2> QED BY <1>5, <1>7, <2>2
<1>9. CASE m <= limit
  <2>1. m = n
    BY <1>3, <1>4, <1>7, <1>9
  <2>2. page = [records |-> found, has_more |-> FALSE, next |-> 0]
    BY <1>6, <1>8, <1>9
  <2>3. page.records = found /\ page.has_more = FALSE
    BY <2>2
  <2>4. /\ page = [records |-> page.records, has_more |-> page.has_more, next |-> page.next]
        /\ page.has_more \in BOOLEAN /\ page.records \in Seq(s)
    BY <1>8, <2>2, <2>3
  <2>5. \A i, j \in 1 .. Len(found) : i < j => found[i].id > found[j].id
    BY <1>3, <1>8, <2>1
  <2>6. \A x \in s : \E i \in 1 .. Len(found) : found[i] = x
    BY <1>3, <1>8, <2>1
  <2> QED BY <2>3, <2>4, <2>5, <2>6, Zenon DEF PageShows
<1>10. CASE ~ (m <= limit)
  <2>1. m = limit + 1 /\ m <= n
    BY <1>3, <1>4, <1>7, <1>10
  <2> DEFINE recs == SubSeq(found, 1, limit)
  <2>2. page = [records |-> recs, has_more |-> TRUE, next |-> found[limit].id]
    BY <1>6, <1>8, <1>10
  <2>3. page.records = recs /\ page.has_more = TRUE /\ page.next = f[limit].id
    BY <1>4, <1>8, <2>1, <2>2
  <2>4. /\ recs \in Seq(s) /\ Len(recs) = limit
        /\ \A i \in 1 .. limit : recs[i] = f[i]
    <3>1. \A i \in 1 .. limit : found[i] \in s /\ found[i] = f[i]
      BY <1>4, <1>8, <2>1
    <3>2. /\ SubSeq(found, 1, limit) \in Seq(s)
          /\ Len(SubSeq(found, 1, limit)) = IF 1 <= limit THEN limit - 1 + 1 ELSE 0
          /\ \A i \in 1 .. limit - 1 + 1 : SubSeq(found, 1, limit)[i] = found[1 + i - 1]
      BY <1>4, <3>1, SubSeqProperties
    <3> QED BY <1>4, <3>1, <3>2
  <2> HIDE DEF recs
  <2>5. \A i \in 1 .. n : f[i] \in s /\ f[i].id \in Nat
    BY <1>2, <1>3 DEF Numbered
  <2>6. limit \in 1 .. n /\ \A i \in 1 .. limit : i \in 1 .. n
    BY <1>3, <1>4, <2>1
  <2>7. \A i, j \in 1 .. limit : i < j => recs[i].id > recs[j].id
    BY <1>3, <2>4, <2>6
  <2>8. \A i \in 1 .. limit : recs[i].id >= f[limit].id
    <3> SUFFICES ASSUME NEW i \in 1 .. limit PROVE f[i].id >= f[limit].id
      BY <2>4
    <3>1. i = limit \/ i < limit
      BY <1>4
    <3> QED BY <1>3, <2>5, <2>6, <3>1
  <2>9. ASSUME NEW x \in s
        PROVE  x.id < f[limit].id \/ \E i \in 1 .. limit : recs[i] = x
    <3>1. PICK i \in 1 .. n : f[i] = x
      BY <1>3
    <3>2. i \in 1 .. limit \/ limit < i
      BY <1>3, <1>4
    <3> QED BY <1>3, <2>4, <2>5, <2>6, <3>1, <3>2
  <2>10. /\ page = [records |-> page.records, has_more |-> page.has_more, next |-> page.next]
         /\ page.has_more \in BOOLEAN /\ page.records \in Seq(s)
         /\ Len(page.records) = limit
    BY <2>2, <2>3, <2>4
  <2>11. \E x \in s : page.next = x.id
    BY <2>3, <2>5, <2>6
  <2>12. /\ \A i, j \in 1 .. Len(page.records) : i < j => page.records[i].id > page.records[j].id
         /\ \A i \in 1 .. Len(page.records) : page.records[i].id >= page.next
    BY <2>3, <2>7, <2>8, <2>10, Zenon
  <2>13. \A x \in s : x.id < page.next \/ \E i \in 1 .. Len(page.records) : page.records[i] = x
    BY <2>3, <2>9, <2>10, Zenon
  <2> QED BY <2>3, <2>10, <2>11, <2>12, <2>13, Zenon DEF PageShows
<1> QED BY <1>9, <1>10

-----------------------------------------------------------------------------
(* The walk through the pages *)

TableInv ==
  /\ IsFiniteSet(rows) /\ nextId > 0
  /\ \A x \in rows : x.id > 0 /\ Showable(x)

Gone == {e[1] : e \in expired}
Shown(x) == \E i \in 1 .. Len(reader.seen) : reader.seen[i] = x

\* What has been shown is in order and selected; what was there at the first page
\* has been shown or deleted, or lies below the cursor.
ReaderInv ==
  /\ "pc" \in DOMAIN reader
  /\ reader.pc \in {"walking", "done"} =>
       /\ InvalidFilter(reader.q) = "ok"
       /\ reader.seen \in Seq(ToSet(reader.seen))
       /\ \A i \in 1 .. Len(reader.seen) :
            reader.seen[i].id \in Nat /\ Selected(reader.seen[i], reader.q)
       /\ \A i, j \in 1 .. Len(reader.seen) : i < j => reader.seen[i].id > reader.seen[j].id
       /\ reader.pc = "walking" =>
            /\ reader.before \in Nat \ {0}
            /\ \A i \in 1 .. Len(reader.seen) : reader.seen[i].id >= reader.before
            /\ \A x \in reader.start :
                 \/ Shown(x) \/ x \in Gone
                 \/ x \in rows /\ x.id < reader.before /\ Selected(x, reader.q)
       /\ reader.pc = "done" => \A x \in reader.start : Shown(x) \/ x \in Gone

\* Rows leave the table only into the deleted ones.
LEMMA TableStep ==
  ASSUME IInv, TableInv, [Next]_vars
  PROVE  /\ TableInv' /\ Gone \subseteq Gone'
         /\ \A x \in rows : x \in rows' \/ x \in Gone'
<1> DEFINE Kept == /\ TableInv' /\ Gone \subseteq Gone'
                   /\ \A x \in rows : x \in rows' \/ x \in Gone'
<1> SUFFICES Kept
  OBVIOUS
<1>1. ASSUME NEW r \in Requests, InsertBounded(r), expired' = expired PROVE Kept
  <2>1. Gone' = Gone
    BY <1>1 DEF Gone
  <2>2. CASE UNCHANGED <<rows, nextId>>
    BY <2>1, <2>2 DEF TableInv
  <2>3. CASE rows' = rows \union {NewRow(r)} /\ nextId' = nextId + 1
    <3>1. IsFiniteSet(rows')
      BY <2>3, FS_AddElement DEF TableInv
    <3>2. nextId' > 0 /\ NewRow(r).id > 0
      BY <2>3, RowFields DEF TableInv, IInv, TypeInv
    <3>3. Showable(NewRow(r))
      BY ShowableAssumption DEF Showable, NewRow
    <3>4. \A x \in rows' : x.id > 0 /\ Showable(x)
      BY <2>3, <3>2, <3>3 DEF TableInv
    <3> QED BY <2>1, <2>3, <3>1, <3>2, <3>4 DEF TableInv
  <2> QED BY <1>1, <2>2, <2>3 DEF InsertBounded
<1>2. ASSUME UNCHANGED <<rows, nextId, expired>> PROVE Kept
  BY <1>2 DEF TableInv, Gone
<1>3. ASSUME CleanupDelete PROVE Kept
  <2>1. CASE UNCHANGED <<rows, expired>>
    BY <1>2, <1>3, <2>1 DEF CleanupDelete
  <2>2. CASE \E away \in SUBSET rows :
               rows' = rows \ away /\ expired' = expired \union {<<r, clock>> : r \in away}
    <3>1. PICK away \in SUBSET rows :
               rows' = rows \ away /\ expired' = expired \union {<<r, clock>> : r \in away}
      BY <2>2
    <3>2. IsFiniteSet(rows') /\ nextId' = nextId
      BY <1>3, <3>1, FS_Subset DEF CleanupDelete, TableInv
    <3>3. \A r \in away : r \in Gone'
      <4> SUFFICES ASSUME NEW r \in away PROVE r \in Gone'
        OBVIOUS
      <4>1. <<r, clock>> \in expired' /\ <<r, clock>>[1] = r
        BY <3>1
      <4> QED BY <4>1 DEF Gone
    <3>4. Gone \subseteq Gone'
      BY <3>1 DEF Gone
    <3> QED BY <3>1, <3>2, <3>3, <3>4 DEF TableInv
  <2> QED BY <1>3, <2>1, <2>2 DEF CleanupDelete
<1>4. ASSUME NEW r \in Requests, SyncInsert(r) PROVE Kept
  BY <1>1, <1>4 DEF SyncInsert
<1>5. ASSUME WorkerInsert PROVE Kept
  <2>1. cur \in Requests
    BY <1>5 DEF WorkerInsert, IInv, TypeInv
  <2> QED BY <1>1, <1>5, <2>1 DEF WorkerInsert
<1> HIDE DEF Kept
<1>6. ASSUME NEW r \in Requests, Arrive(r) \/ Record(r) PROVE Kept
  BY <1>2, <1>6 DEF Arrive, Record, dbVars
<1>7. CASE WorkerTake \/ Signal \/ Deadline \/ ShutdownDone \/ StopStore
  BY <1>2, <1>7 DEF WorkerTake, Signal, Deadline, ShutdownDone, StopStore, dbVars
<1>8. CASE Return \/ SecondSignal
  BY <1>2, <1>8 DEF Return, SecondSignal, Exit, dbVars
<1>9. CASE CleanupWake \/ CleanupSelect \/ NextPage \/ Tick
  BY <1>2, <1>9 DEF CleanupWake, CleanupSelect, NextPage, Tick, dbVars
<1>10. ASSUME NEW q \in Walks, Open(q) PROVE Kept
  BY <1>2, <1>10 DEF Open, dbVars
<1>11. CASE Idle \/ UNCHANGED vars
  BY <1>2, <1>11 DEF Idle, vars
<1> QED BY <1>3, <1>4, <1>5, <1>6, <1>7, <1>8, <1>9, <1>10, <1>11 DEF Next

\* A reader who does not turn a page keeps what is true of the walk.
LEMMA ReaderWaits ==
  ASSUME ReaderInv, reader' = reader, Gone \subseteq Gone',
         \A x \in rows : x \in rows' \/ x \in Gone'
  PROVE  ReaderInv'
<1> SUFFICES ASSUME reader.pc \in {"walking", "done"} PROVE ReaderInv'
  BY DEF ReaderInv
<1>1. \A x : Shown(x)' <=> Shown(x)
  BY DEF Shown
<1>2. reader.pc = "walking" =>
        \A x \in reader.start :
          Shown(x) \/ x \in Gone' \/ (x \in rows' /\ x.id < reader.before /\ Selected(x, reader.q))
  BY DEF ReaderInv
<1>3. reader.pc = "done" => \A x \in reader.start : Shown(x) \/ x \in Gone'
  BY DEF ReaderInv
<1> QED BY <1>1, <1>2, <1>3 DEF ReaderInv

\* Every page of a filter that validates can be shown.
LEMMA PageServed ==
  ASSUME IInv, TableInv, NEW q, NEW before, InvalidFilter(q) = "ok"
  PROVE  /\ RequestsList(rows, q, before).code = "ok"
         /\ RequestsList(rows, q, before).page = QueryPage(rows, q, before)
         /\ PageShows(QueryPage(rows, q, before), Below(rows, q, before))
<1> DEFINE page == QueryPage(rows, q, before)
           s == Below(rows, q, before)
<1>1. PageShows(page, s)
  BY QueryPageShows DEF TableInv, IInv, RowsInv, Numbered, Distinct
<1>2. s \subseteq rows
  BY DEF Below, SessionFilters
<1>3. page.records \in Seq(s)
  BY <1>1, Zenon DEF PageShows
<1> HIDE DEF page, s
<1>4. \A i \in DOMAIN page.records : Showable(page.records[i])
  BY <1>2, <1>3 DEF TableInv
<1> DEFINE code == CASE InvalidFilter(q) # "ok" -> "invalid_filter"
                     [] \E i \in DOMAIN page.records : ~Showable(page.records[i]) -> "system_error"
                     [] OTHER -> "ok"
<1>5. code = "ok"
  BY <1>4
<1>6. RequestsList(rows, q, before) =
        [code |-> code, page |-> IF code = "ok" THEN page ELSE [page EXCEPT !.records = <<>>]]
  BY DEF RequestsList, page
<1> HIDE DEF code
<1>7. RequestsList(rows, q, before) = [code |-> "ok", page |-> page]
  BY <1>5, <1>6
<1> QED BY <1>1, <1>7 DEF page, s

\* One page more, of a walk that has shown the rows above the cursor.
LEMMA TurnShows ==
  ASSUME IInv, TableInv, NEW q, NEW before, NEW seen, NEW start,
         Turn(q, before, seen, start), UNCHANGED <<rows, expired>>,
         InvalidFilter(q) = "ok",
         seen \in Seq(ToSet(seen)),
         \A i \in 1 .. Len(seen) : seen[i].id \in Nat /\ Selected(seen[i], q),
         \A i, j \in 1 .. Len(seen) : i < j => seen[i].id > seen[j].id,
         seen = <<>> \/ (before \in Nat \ {0} /\ \A i \in 1 .. Len(seen) : seen[i].id >= before),
         \A x \in start : (\E i \in 1 .. Len(seen) : seen[i] = x) \/ x \in Gone
                            \/ x \in Below(rows, q, before)
  PROVE  ReaderInv'
<1> DEFINE page == QueryPage(rows, q, before)
           s == Below(rows, q, before)
           recs == page.records
           S == ToSet(seen) \cup s
           all == seen \o recs
<1>1. PageShows(page, s)
  BY PageServed
<1>2. reader' = [pc |-> IF page.has_more THEN "walking" ELSE "done", q |-> q,
                 before |-> page.next, seen |-> all, start |-> start]
  <2>1. RequestsList(rows, q, before).page = page
    BY PageServed
  <2> QED BY <2>1 DEF Turn
<1>3. \A x \in s : /\ x \in rows /\ x.id \in Nat \ {0} /\ Selected(x, q)
                   /\ before > 0 => x.id < before
  <2>1. \A x \in s : x \in SessionFilters(rows, q) /\ (before > 0 => x.id < before)
    BY DEF Below
  <2>2. \A x \in s : x \in rows /\ Selected(x, q)
    BY <2>1, Selection
  <2> QED BY <2>1, <2>2 DEF IInv, RowsInv, TableInv
<1>4. /\ recs \in Seq(s) /\ page.has_more \in BOOLEAN
      /\ \A i, j \in 1 .. Len(recs) : i < j => recs[i].id > recs[j].id
      /\ page.has_more =>
           /\ \E x \in s : page.next = x.id
           /\ \A i \in 1 .. Len(recs) : recs[i].id >= page.next
           /\ \A x \in s : x.id < page.next \/ \E i \in 1 .. Len(recs) : recs[i] = x
      /\ ~ page.has_more => \A x \in s : \E i \in 1 .. Len(recs) : recs[i] = x
  BY <1>1, Zenon DEF PageShows
<1> HIDE DEF page, s, recs
<1> DEFINE n == Len(seen)
           k == Len(recs)
<1>5. n \in Nat /\ k \in Nat
  BY <1>4
<1>6. seen \in Seq(S) /\ recs \in Seq(S)
  BY <1>4
<1>7. /\ all \in Seq(S) /\ Len(all) = n + k
      /\ \A i \in 1 .. n + k : all[i] = IF i <= n THEN seen[i] ELSE recs[i - n]
  BY <1>6, ConcatProperties
<1> HIDE DEF S, all
<1>8. /\ \A i \in 1 .. n : i \in 1 .. n + k /\ all[i] = seen[i]
      /\ \A i \in 1 .. k : i + n \in 1 .. n + k /\ all[i + n] = recs[i]
      /\ \A i \in 1 .. n + k : i \in 1 .. n \/ (i - n \in 1 .. k /\ i > n /\ all[i] = recs[i - n])
  <2> SUFFICES
        /\ \A i \in 1 .. n : i \in 1 .. n + k /\ i <= n
        /\ \A i \in 1 .. k : i + n \in 1 .. n + k /\ ~ (i + n <= n) /\ (i + n) - n = i
        /\ \A i \in 1 .. n + k : i \in 1 .. n \/ (i - n \in 1 .. k /\ i > n /\ ~ (i <= n))
    BY <1>7
  <2> HIDE DEF n, k
  <2> QED BY <1>5
<1>9. all \in Seq(ToSet(all))
  <2>1. \A i \in 1 .. Len(all) : all[i] \in ToSet(all)
    BY <1>7 DEF ToSet
  <2> QED BY <1>7, <2>1
<1>10. \A i \in 1 .. k : recs[i] \in s
  BY <1>4
<1>11. \A i \in 1 .. n + k : all[i].id \in Nat /\ Selected(all[i], q)
  BY <1>3, <1>8, <1>10
<1>12. ASSUME NEW i \in 1 .. n, NEW j \in 1 .. k PROVE seen[i].id > recs[j].id
  <2>1. before \in Nat \ {0} /\ seen[i].id >= before
    BY <1>12
  <2>2. recs[j].id < before /\ recs[j].id \in Nat
    BY <1>3, <1>10, <2>1
  <2> QED BY <2>1, <2>2
<1>13. ASSUME NEW i \in 1 .. n + k, NEW j \in 1 .. n + k, i < j
       PROVE  all[i].id > all[j].id
  <2>1. CASE j \in 1 .. n
    BY <1>5, <1>8, <1>13, <2>1
  <2>2. CASE i \in 1 .. n /\ j \notin 1 .. n
    <3>1. j - n \in 1 .. k /\ all[j] = recs[j - n] /\ all[i] = seen[i]
      BY <1>8, <2>2
    <3> QED BY <1>12, <2>2, <3>1
  <2>3. CASE i \notin 1 .. n /\ j \notin 1 .. n
    <3>1. /\ i - n \in 1 .. k /\ all[i] = recs[i - n]
          /\ j - n \in 1 .. k /\ all[j] = recs[j - n]
      BY <1>8, <2>3
    <3>2. i - n < j - n
      BY <1>5, <1>13
    <3> QED BY <1>4, <3>1, <3>2
  <2>4. CASE i \notin 1 .. n /\ j \in 1 .. n
    BY <1>5, <1>13, <2>4
  <2> QED BY <2>1, <2>2, <2>3, <2>4
<1>14. /\ reader'.q = q /\ reader'.seen = all /\ reader'.start = start
       /\ reader'.before = page.next
       /\ reader'.pc = IF page.has_more THEN "walking" ELSE "done"
  BY <1>2
<1>15. Gone' = Gone /\ rows' = rows
  BY DEF Gone
<1>16. \A x : (\E i \in 1 .. n : seen[i] = x) \/ (\E i \in 1 .. k : recs[i] = x) => Shown(x)'
  <2> SUFFICES ASSUME NEW x, (\E i \in 1 .. n : seen[i] = x) \/ (\E i \in 1 .. k : recs[i] = x)
               PROVE  Shown(x)'
    OBVIOUS
  <2>1. \E i \in 1 .. n + k : all[i] = x
    BY <1>8
  <2>2. \E i \in 1 .. Len(reader'.seen) : reader'.seen[i] = x
    BY <1>7, <1>14, <2>1
  <2> QED BY <2>2 DEF Shown
<1>17. reader'.pc = "walking" =>
         /\ reader'.before \in Nat \ {0}
         /\ \A i \in 1 .. Len(reader'.seen) : reader'.seen[i].id >= reader'.before
         /\ \A x \in reader'.start :
              \/ Shown(x)' \/ x \in Gone'
              \/ x \in rows' /\ x.id < reader'.before /\ Selected(x, reader'.q)
  <2> SUFFICES ASSUME page.has_more
               PROVE  /\ page.next \in Nat \ {0}
                      /\ \A i \in 1 .. n + k : all[i].id >= page.next
                      /\ \A x \in start : \/ Shown(x)' \/ x \in Gone
                                          \/ x \in rows /\ x.id < page.next /\ Selected(x, q)
    BY <1>4, <1>7, <1>14, <1>15
  <2>1. PICK y \in s : page.next = y.id
    BY <1>4
  <2>2. page.next \in Nat \ {0}
    BY <1>3, <2>1
  <2>3. ASSUME NEW i \in 1 .. n + k PROVE all[i].id >= page.next
    <3>1. CASE i \in 1 .. n
      <4>1. before \in Nat \ {0} /\ all[i].id >= before /\ all[i].id \in Nat
        BY <1>8, <1>11, <3>1
      <4>2. y.id < before
        BY <1>3, <2>1, <4>1
      <4> QED BY <2>1, <2>2, <4>1, <4>2
    <3>2. CASE i \notin 1 .. n
      BY <1>4, <1>8, <3>2
    <3> QED BY <3>1, <3>2
  <2>4. ASSUME NEW x \in start
        PROVE  \/ Shown(x)' \/ x \in Gone
               \/ x \in rows /\ x.id < page.next /\ Selected(x, q)
    <3>1. CASE x \in s
      BY <1>3, <1>4, <1>16, <3>1
    <3>2. CASE x \notin s
      BY <1>16, <3>2 DEF s
    <3> QED BY <3>1, <3>2
  <2> QED BY <2>2, <2>3, <2>4
<1>18. reader'.pc = "done" => \A x \in reader'.start : Shown(x)' \/ x \in Gone'
  <2> SUFFICES ASSUME ~ page.has_more, NEW x \in start PROVE Shown(x)' \/ x \in Gone
    BY <1>14, <1>15
  <2>1. CASE x \in s
    BY <1>4, <1>16, <2>1
  <2>2. CASE x \notin s
    BY <1>16, <2>2 DEF s
  <2> QED BY <2>1, <2>2
<1>19. /\ InvalidFilter(reader'.q) = "ok"
       /\ reader'.seen \in Seq(ToSet(reader'.seen))
       /\ \A i \in 1 .. Len(reader'.seen) :
            reader'.seen[i].id \in Nat /\ Selected(reader'.seen[i], reader'.q)
       /\ \A i, j \in 1 .. Len(reader'.seen) :
            i < j => reader'.seen[i].id > reader'.seen[j].id
  BY <1>7, <1>9, <1>11, <1>13, <1>14
<1>20. "pc" \in DOMAIN reader'
  BY <1>2
<1> QED BY <1>17, <1>18, <1>19, <1>20 DEF ReaderInv

LEMMA ReaderStep ==
  ASSUME IInv, TableInv, ReaderInv, [Next]_vars
  PROVE  ReaderInv'
<1>1. CASE reader' = reader
  BY <1>1, TableStep, ReaderWaits
<1>2. ASSUME NEW q \in Walks, Open(q) PROVE ReaderInv'
  <2>1. UNCHANGED <<rows, expired>> /\ reader.pc = "idle"
    BY <1>2 DEF Open, dbVars
  <2>2. CASE RequestsList(rows, q, q.before).code = "ok"
    <3> DEFINE start == {r \in SessionFilters(rows, q) : q.before > 0 => r.id < q.before}
    <3>1. Turn(q, q.before, <<>>, start)
      BY <1>2, <2>2 DEF Open
    <3>2. InvalidFilter(q) = "ok"
      BY <2>2 DEF RequestsList
    <3>3. start = Below(rows, q, q.before)
      BY DEF Below
    <3> DEFINE seen == <<>>
    <3>4. seen \in Seq(ToSet(seen)) /\ 1 .. Len(seen) = {} /\ seen = <<>>
      OBVIOUS
    <3>5. Turn(q, q.before, seen, start)
      BY <3>1
    <3> HIDE DEF start, seen
    <3>6. /\ \A i \in 1 .. Len(seen) : seen[i].id \in Nat /\ Selected(seen[i], q)
          /\ \A i, j \in 1 .. Len(seen) : i < j => seen[i].id > seen[j].id
      BY <3>4
    <3>7. \A x \in start : (\E i \in 1 .. Len(seen) : seen[i] = x) \/ x \in Gone
                               \/ x \in Below(rows, q, q.before)
      BY <3>3
    <3> QED BY <2>1, <3>2, <3>4, <3>5, <3>6, <3>7, TurnShows
  <2>3. CASE RequestsList(rows, q, q.before).code # "ok"
    <3>1. reader' = [reader EXCEPT !.pc = "refused", !.q = q]
      BY <1>2, <2>3 DEF Open
    <3>2. reader'.pc = "refused" /\ "pc" \in DOMAIN reader'
      BY <3>1 DEF ReaderInv
    <3> QED BY <3>2 DEF ReaderInv
  <2> QED BY <2>2, <2>3
<1>3. CASE NextPage
  <2>1. /\ UNCHANGED <<rows, expired>> /\ reader.pc = "walking"
        /\ Turn(reader.q, reader.before, reader.seen, reader.start)
    BY <1>3 DEF NextPage, dbVars
  <2>2. ASSUME NEW x \in reader.start
        PROVE  \/ \E i \in 1 .. Len(reader.seen) : reader.seen[i] = x
               \/ x \in Gone \/ x \in Below(rows, reader.q, reader.before)
    <3>1. CASE x \in rows /\ x.id < reader.before /\ Selected(x, reader.q)
      BY <3>1, Selection DEF Below
    <3> QED BY <2>1, <3>1 DEF ReaderInv, Shown
  <2>3. /\ InvalidFilter(reader.q) = "ok"
        /\ reader.seen \in Seq(ToSet(reader.seen))
        /\ \A i \in 1 .. Len(reader.seen) :
             reader.seen[i].id \in Nat /\ Selected(reader.seen[i], reader.q)
        /\ \A i, j \in 1 .. Len(reader.seen) : i < j => reader.seen[i].id > reader.seen[j].id
        /\ reader.before \in Nat \ {0}
        /\ \A i \in 1 .. Len(reader.seen) : reader.seen[i].id >= reader.before
    BY <2>1 DEF ReaderInv
  <2> QED BY <2>1, <2>2, <2>3, TurnShows
<1>4. Next => reader' = reader \/ NextPage \/ \E q \in Walks : Open(q)
  BY DEF Next, Arrive, Record, SyncInsert, WorkerTake, WorkerInsert, Signal, Deadline,
         ShutdownDone, StopStore, Return, SecondSignal, Exit, CleanupWake, CleanupSelect,
         CleanupDelete, Tick, Idle, vars
<1> QED BY <1>1, <1>2, <1>3, <1>4 DEF vars

LEMMA InitTable == Init => TableInv /\ ReaderInv
<1> SUFFICES ASSUME Init PROVE TableInv /\ ReaderInv
  OBVIOUS
<1>1. Cardinality(InitRows) \in Nat
  BY RowsAssumption, FS_CardinalityType
<1>2. TableInv
  BY <1>1, RowsAssumption, ShowableAssumption DEF Init, TableInv
<1>3. ReaderInv
  BY DEF Init, ReaderInv
<1> QED BY <1>2, <1>3

\* Whatever the recorder, the retention worker and the clock do between two pages,
\* a walk through the request log shows its rows newest first and only once, only
\* rows its filter selects, and by the last page every row that was there at the
\* first one and was not deleted meanwhile (QueryPage's next_before_id cursor).
THEOREM AlwaysWalkComplete == Spec => []WalkComplete
<1>1. IInv /\ TableInv /\ ReaderInv /\ [Next]_vars => (IInv /\ TableInv /\ ReaderInv)'
  BY NextIInv, TableStep, ReaderStep
<1>2. ASSUME ReaderInv PROVE WalkComplete
  <2> USE <1>2
  <2> SUFFICES ASSUME reader.pc \in {"walking", "done"} PROVE WalkComplete
    BY DEF WalkComplete
  <2> DEFINE seen == reader.seen
  <2>1. DOMAIN seen = 1 .. Len(seen)
    BY DEF ReaderInv
  <2>2. \A i, j \in DOMAIN seen : i < j => seen[i].id > seen[j].id
    BY <2>1 DEF ReaderInv
  <2>3. \A x \in ToSet(seen) : Selected(x, reader.q)
    BY <2>1 DEF ReaderInv, ToSet
  <2>4. SessionFilters(ToSet(seen), reader.q) = ToSet(seen)
    BY <2>3, Selection
  <2>5. ASSUME reader.pc = "done"
        PROVE  reader.start \ {e[1] : e \in expired} \subseteq ToSet(seen)
    BY <2>1, <2>5 DEF ReaderInv, Shown, Gone, ToSet
  <2> QED BY <2>2, <2>4, <2>5 DEF WalkComplete
<1> QED BY <1>1, <1>2, InitIInv, InitTable, PTL DEF Spec

-----------------------------------------------------------------------------
(* The reports *)

LEMMA LeastOf ==
  ASSUME NEW T \in SUBSET Nat, T # {}
  PROVE  Min(T) \in T
<1>1. \E m \in T : \A k \in T : ~(<<k, m>> \in OpToRel(<, Nat))
  BY NatLessThanWellFounded, WFMin
<1>2. PICK m \in T : \A k \in T : ~(<<k, m>> \in OpToRel(<, Nat))
  BY <1>1
<1>3. \A k \in T : ~(k < m)
  BY <1>2, Zenon DEF OpToRel
<1>4. \A k \in T : m =< k
  BY <1>3
<1> QED BY <1>4, Zenon DEF Min

LEMMA GreaterOfTwo ==
  ASSUME NEW a \in Int, NEW b \in Int
  PROVE  Max({a, b}) = IF a >= b THEN a ELSE b
<1>1. PICK m \in {a, b} : m = (IF a >= b THEN a ELSE b) /\ \A y \in {a, b} : m >= y
  OBVIOUS
<1>2. \A x \in {a, b} : (\A y \in {a, b} : x >= y) => x = m
  BY <1>1
<1> QED BY <1>1, <1>2 DEF Max

\* A filter that validates has complained about nothing.
LEMMA FilterChecked ==
  ASSUME NEW q, InvalidFilter(q) = "ok"
  PROVE  /\ \A i \in DOMAIN q.accounts : ~(q.accounts[i] <= 0)
         /\ \A i \in DOMAIN q.outcomes : q.outcomes[i] \in Outcomes
         /\ \A i \in DOMAIN q.models : q.models[i] # Empty
         /\ \A i \in DOMAIN q.modes : q.modes[i] \in ResponseModes
         /\ q.search # Blank
<1> DEFINE c1 == q.limit \notin 0 .. MaxPage
           c2 == q.start >= 0 /\ q.end >= 0 /\ q.start > q.end
           c3 == q.before < 0
           c4 == \E i \in DOMAIN q.accounts : q.accounts[i] <= 0
           c5 == Len(q.accounts) > MaxFilterItems
           c6 == \E i \in DOMAIN q.outcomes : q.outcomes[i] \notin Outcomes
           c7 == Len(q.outcomes) > MaxFilterItems
           c8 == \E i \in DOMAIN q.models : q.models[i] \in {Empty, "long"}
           c9 == Len(q.models) > MaxFilterItems
           c10 == \E i \in DOMAIN q.modes : q.modes[i] \notin ResponseModes
           c11 == Len(q.modes) > MaxFilterItems
           c12 == q.search \in {Blank, "long"}
           c == << <<c1, "limit">>, <<c2, "start">>, <<c3, "before">>, <<c4, "account_id">>,
                   <<c5, "account_id">>, <<c6, "outcome">>, <<c7, "outcome">>, <<c8, "model">>,
                   <<c9, "model">>, <<c10, "response_mode">>, <<c11, "response_mode">>,
                   <<c12, "search">> >>
           bad == {i \in DOMAIN c : c[i][1]}
<1>1. InvalidFilter(q) = IF bad = {} THEN "ok" ELSE c[Min(bad)][2]
  BY Zenon DEF InvalidFilter
<1> HIDE DEF c1, c2, c3, c4, c5, c6, c7, c8, c9, c10, c11, c12
<1>2. DOMAIN c = 1 .. 12 /\ \A i \in 1 .. 12 : c[i][2] # "ok"
  OBVIOUS
<1>3. bad # {} => Min(bad) \in bad
  BY <1>2, LeastOf
<1>4. bad = {}
  BY <1>1, <1>2, <1>3
<1>5. ~c[4][1] /\ ~c[6][1] /\ ~c[8][1] /\ ~c[10][1] /\ ~c[12][1]
  BY <1>2, <1>4
<1>6. ~c4 /\ ~c6 /\ ~c8 /\ ~c10 /\ ~c12
  BY <1>5
<1> QED BY <1>6 DEF c4, c6, c8, c10, c12

\* A list that is a filter allows the values it names, and all when it is empty.
LEMMA ListMeans ==
  ASSUME NEW S, NEW s \in Seq(S), NEW v
  PROVE  Allows(ToSet(s), v) <=> (s # <<>> => \E i \in DOMAIN s : s[i] = v)
<1>1. ToSet(s) = {} <=> s = <<>>
  BY DEF ToSet
<1>2. v \in ToSet(s) <=> \E i \in DOMAIN s : s[i] = v
  BY DEF ToSet
<1> QED BY <1>1, <1>2 DEF Allows

\* Both forms of the filters select what a validated filter means.
LEMMA FiltersMean ==
  ASSUME NEW q \in Queries, InvalidFilter(q) = "ok", NEW R, \A r \in R : r.at \in Int
  PROVE  /\ SessionFilters(R, q) = {r \in R : Means(q, r)}
         /\ WhereSQL(R, q) = {r \in R : Means(q, r)}
<1>1. /\ q.start \in Nat \union {-1} /\ q.end \in Nat \union {-1}
      /\ q.accounts \in Seq(Int) /\ q.outcomes \in Seq(STRING)
      /\ q.models \in Seq(STRING) /\ q.modes \in Seq(STRING)
  BY QueriesAssumption
<1>2. effectiveAccountIDs(q) = ToSet(q.accounts)
  BY <1>1, FilterChecked DEF effectiveAccountIDs, ToSet
<1>3. Empty \notin Outcomes \union ResponseModes
  BY DEF Empty, Outcomes, ResponseModes
<1>4. effectiveStrings(q.outcomes) = ToSet(q.outcomes)
  BY <1>3, FilterChecked DEF effectiveStrings, ToSet
<1>5. effectiveStrings(q.modes) = ToSet(q.modes)
  BY <1>3, FilterChecked DEF effectiveStrings, ToSet
<1>6. effectiveStrings(q.models) = ToSet(q.models)
  BY FilterChecked DEF effectiveStrings, ToSet
<1>7. q.search # Blank
  BY FilterChecked
<1>8. ASSUME NEW r \in R
      PROVE  /\ (q.start >= 0 => r.at >= q.start) <=> (q.start = -1 \/ q.start <= r.at)
             /\ (q.end >= 0 => r.at <= q.end) <=> (q.end = -1 \/ r.at <= q.end)
             /\ Allows(effectiveAccountIDs(q), r.account) <=>
                  (q.accounts # <<>> => \E i \in DOMAIN q.accounts : q.accounts[i] = r.account)
             /\ Allows(effectiveStrings(q.outcomes), r.outcome) <=>
                  (q.outcomes # <<>> => \E i \in DOMAIN q.outcomes : q.outcomes[i] = r.outcome)
             /\ Allows(effectiveStrings(q.models), r.model) <=>
                  (q.models # <<>> => \E i \in DOMAIN q.models : q.models[i] = r.model)
             /\ Allows(effectiveStrings(q.modes), r.mode) <=>
                  (q.modes # <<>> => \E i \in DOMAIN q.modes : q.modes[i] = r.mode)
             /\ (q.search \notin {Empty, Blank} => q.search \in r.words) <=>
                  (q.search # Empty => q.search \in r.words)
  <2>1. r.at \in Int
    OBVIOUS
  <2>2. /\ (q.start >= 0 => r.at >= q.start) <=> (q.start = -1 \/ q.start <= r.at)
        /\ (q.end >= 0 => r.at <= q.end) <=> (q.end = -1 \/ r.at <= q.end)
    BY <1>1, <2>1
  <2>3. Allows(effectiveAccountIDs(q), r.account) <=>
          (q.accounts # <<>> => \E i \in DOMAIN q.accounts : q.accounts[i] = r.account)
    BY <1>1, <1>2, ListMeans
  <2>4. Allows(effectiveStrings(q.outcomes), r.outcome) <=>
          (q.outcomes # <<>> => \E i \in DOMAIN q.outcomes : q.outcomes[i] = r.outcome)
    BY <1>1, <1>4, ListMeans
  <2>5. Allows(effectiveStrings(q.models), r.model) <=>
          (q.models # <<>> => \E i \in DOMAIN q.models : q.models[i] = r.model)
    BY <1>1, <1>6, ListMeans
  <2>6. Allows(effectiveStrings(q.modes), r.mode) <=>
          (q.modes # <<>> => \E i \in DOMAIN q.modes : q.modes[i] = r.mode)
    BY <1>1, <1>5, ListMeans
  <2>7. (q.search \notin {Empty, Blank} => q.search \in r.words) <=>
          (q.search # Empty => q.search \in r.words)
    BY <1>7
  <2> QED BY <2>2, <2>3, <2>4, <2>5, <2>6, <2>7
<1>9. SessionFilters(R, q) = {r \in R : Means(q, r)}
  BY <1>8, Zenon DEF SessionFilters, Means
<1>10. WhereSQL(R, q) = SessionFilters(R, q)
  BY Zenon DEF WhereSQL, SessionFilters, Allows
<1> QED BY <1>9, <1>10

\* A table with the invariants of the recorder is reported as it is.
LEMMA LogIsFaithful == ASSUME IInv, TableInv PROVE LogFaithful
<1>1. \A r \in rows : r.at \in Int /\ r.id \in Nat
  BY DEF IInv, RowsInv
<1>2. ASSUME NEW q \in Queries, InvalidFilter(q) = "ok"
      PROVE  LET found == {r \in rows : Means(q, r)} IN
               /\ SessionFilters(rows, q) = found
               /\ FilterOptions(rows, q) =
                    [accounts |-> {r.account : r \in found} \ {0},
                     outcomes |-> {r.outcome : r \in found},
                     models |-> {r.model : r \in found} \ {Empty},
                     modes |-> {r.mode : r \in found}]
  BY <1>1, <1>2, FiltersMean DEF FilterOptions
<1>3. ASSUME NEW r \in rows
      PROVE  RequestsGet(rows, r.id) = [code |-> "ok", record |-> {r}]
  <2>1. {x \in rows : x.id = r.id} = {r}
    BY DEF IInv, RowsInv
  <2>2. r.id \in Nat /\ r.id > 0 /\ Showable(r)
    BY <1>1 DEF TableInv
  <2> DEFINE found == {x \in rows : x.id = r.id}
             code == CASE r.id <= 0 -> "invalid_filter"
                       [] found = {} -> "not_found"
                       [] \E x \in found : ~Showable(x) -> "system_error"
                       [] OTHER -> "ok"
  <2>3. RequestsGet(rows, r.id) = [code |-> code, record |-> found]
    BY DEF RequestsGet
  <2>4. ~(r.id <= 0) /\ found # {} /\ ~(\E x \in found : ~Showable(x))
    BY <2>1, <2>2
  <2> HIDE DEF found
  <2>5. code = "ok"
    BY <2>4
  <2> QED BY <2>1, <2>3, <2>5 DEF found
<1> QED BY <1>2, <1>3 DEF LogFaithful

\* Every filter that validates selects the rows it names and offers their values,
\* in both places that build it (applyRequestRecordSessionFilters and
\* requestRecordWhereSQL), and every row of the table can be shown, whatever was
\* recorded and deleted before: the part of ReportsFaithful about the request log.
THEOREM AlwaysLogFaithful == Spec => []LogFaithful
<1>1. IInv /\ TableInv /\ ReaderInv /\ [Next]_vars => (IInv /\ TableInv /\ ReaderInv)'
  BY NextIInv, TableStep, ReaderStep
<1>2. IInv /\ TableInv => LogFaithful
  BY LogIsFaithful
<1> QED BY <1>1, <1>2, InitIInv, InitTable, PTL DEF Spec

\* Division: the quotient is the only number of whole widths.
LEMMA TimesOrder ==
  ASSUME NEW a \in Int, NEW b \in Int, NEW w \in Nat \ {0}, a * w < b * w
  PROVE  a < b
<1>1. ASSUME b <= a PROVE FALSE
  <2>1. a - b \in Nat /\ (a - b) * w \in Nat
    BY <1>1
  <2>2. (a - b) * w = a * w - b * w
    OBVIOUS
  <2> QED BY <2>1, <2>2
<1> QED BY <1>1

LEMMA Quotient ==
  ASSUME NEW x \in Nat, NEW w \in Nat \ {0}
  PROVE  /\ x \div w \in Nat /\ (x \div w) * w <= x /\ x < ((x \div w) + 1) * w
         /\ \A j \in Int : j * w <= x /\ x < (j + 1) * w => j = x \div w
<1>1. /\ x \div w \in Nat /\ (x \div w) * w <= x /\ x < ((x \div w) + 1) * w
  OBVIOUS
<1>2. ASSUME NEW j \in Int, j * w <= x, x < (j + 1) * w
      PROVE  j = x \div w
  <2> DEFINE k == x \div w
  <2>1. k \in Int /\ k * w \in Int /\ j * w \in Int /\ (k + 1) * w \in Int /\ (j + 1) * w \in Int
    BY <1>1
  <2>2. k * w < (j + 1) * w /\ j * w < (k + 1) * w
    BY <1>1, <1>2, <2>1
  <2>3. k < j + 1 /\ j < k + 1
    BY <2>1, <2>2, TimesOrder
  <2> QED BY <2>1, <2>3
<1> QED BY <1>1, <1>2

\* A window of n whole buckets has n of them, and a time in it has one, the one
\* that BucketIndex returns.
Bucketed(now, at, width, n) ==
  LET start == now - n * width
      i == BucketIndex(at, start, now, width, n)
  IN  /\ DashboardBucketCount(start, now, width) = n
      /\ i >= 0 <=> start <= at /\ at <= now
      /\ start <= at /\ at <= now =>
           /\ i \in 0 .. n - 1
           /\ \A j \in 0 .. n - 1 :
                j = i <=> start + j * width <= at /\ (at < start + (j + 1) * width \/ j = n - 1)

LEMMA WindowBucketed ==
  ASSUME NEW now \in Int, NEW at \in Int, NEW width \in Nat \ {0}, NEW n \in Nat \ {0}
  PROVE  Bucketed(now, at, width, n)
<1> DEFINE span == n * width
           start == now - span
           i == BucketIndex(at, start, now, width, n)
           x == at - start
<1>1. span \in Nat \ {0} /\ start \in Int /\ x \in Int
  OBVIOUS
<1>2. span < (n + 1) * width /\ n * width <= span
  OBVIOUS
<1>3. span \div width = n
  BY <1>1, <1>2, Quotient
<1> HIDE DEF span
<1>4. DashboardBucketCount(start, now, width) = n
  <2>1. now - start = span /\ ~(width <= 0 \/ now <= start)
    BY <1>1
  <2>2. start + n * width = now
    BY <1>1 DEF span
  <2>3. DashboardBucketCount(start, now, width) = Max({1, n})
    BY <1>1, <1>3, <2>1, <2>2 DEF DashboardBucketCount
  <2> QED BY <2>3, GreaterOfTwo
<1>5. ASSUME ~(start <= at /\ at <= now) PROVE i = -1
  BY <1>1, <1>5 DEF BucketIndex
<1>6. ASSUME start <= at, at <= now
      PROVE  /\ i \in 0 .. n - 1
             /\ \A j \in 0 .. n - 1 :
                  j = i <=> start + j * width <= at /\ (at < start + (j + 1) * width \/ j = n - 1)
  <2>1. x \in Nat /\ x <= span
    BY <1>1, <1>6
  <2>2. ~(at < start \/ at > now \/ width <= 0 \/ n <= 0)
    BY <1>1, <1>6
  <2>3. ASSUME NEW j \in 0 .. n - 1
        PROVE  /\ start + j * width <= at <=> j * width <= x
               /\ at < start + (j + 1) * width <=> x < (j + 1) * width
    <3>1. j * width \in Int /\ (j + 1) * width \in Int
      OBVIOUS
    <3> QED BY <1>1, <3>1
  <2>4. CASE at = now
    <3>1. i = n - 1 /\ x = span
      BY <1>1, <2>2, <2>4 DEF BucketIndex
    <3>2. ASSUME NEW j \in 0 .. n - 1 PROVE x < (j + 1) * width => j = n - 1
      <4>1. n * width < (j + 1) * width => n < j + 1
        BY TimesOrder
      <4> QED BY <3>1, <4>1 DEF span
    <3>3. (n - 1) * width <= x
      BY <3>1 DEF span
    <3>4. ASSUME NEW j \in 0 .. n - 1
          PROVE  j = n - 1 <=> j * width <= x /\ (x < (j + 1) * width \/ j = n - 1)
      BY <3>2, <3>3
    <3>5. n - 1 \in 0 .. n - 1
      OBVIOUS
    <3> HIDE DEF i, x, start
    <3> QED BY <2>3, <3>1, <3>4, <3>5, Zenon
  <2>5. CASE at < now
    <3> DEFINE k == x \div width
    <3>1. x < span
      BY <1>1, <2>5
    <3>2. k \in Nat /\ k * width <= x /\ x < (k + 1) * width
      BY <2>1, Quotient
    <3>3. k < n
      <4>1. k * width < n * width
        BY <3>1, <3>2, <1>1 DEF span
      <4> QED BY <3>2, <4>1, TimesOrder
    <3>4. i = k
      <4>1. i = Min({k, n - 1})
        BY <1>1, <2>2, <2>5 DEF BucketIndex
      <4> QED BY <3>2, <3>3, <4>1, LeastOfTwo
    <3>5. ASSUME NEW j \in 0 .. n - 1, j * width <= x, j = n - 1 PROVE x < (j + 1) * width
      BY <3>1, <3>5 DEF span
    <3>6. \A j \in 0 .. n - 1 : j * width <= x /\ x < (j + 1) * width => j = k
      BY <2>1, Quotient
    <3>7. k \in 0 .. n - 1
      BY <3>2, <3>3
    <3>8. ASSUME NEW j \in 0 .. n - 1
          PROVE  j = k <=> j * width <= x /\ (x < (j + 1) * width \/ j = n - 1)
      BY <3>2, <3>5, <3>6, Zenon
    <3> HIDE DEF k, i, x, start
    <3> QED BY <2>3, <3>4, <3>7, <3>8, Zenon
  <2> QED BY <1>1, <1>6, <2>4, <2>5
<1>7. i >= 0 <=> start <= at /\ at <= now
  BY <1>5, <1>6
<1> QED BY <1>4, <1>6, <1>7 DEF Bucketed, span

\* The dashboard unfolded, for any set of rows in whole minutes.
LEMMA DashboardBuckets ==
  ASSUME NEW range \in Ranges, NEW account, clock \in Int, \A r \in rows : r.at \in Int
  PROVE  BucketsFaithful(range, account)
<1> DEFINE width == Width(range)
           n == Span(range) \div width
           start == clock - Span(range)
           within(i, r) == /\ start + i * width <= r.at
                           /\ r.at < start + (i + 1) * width \/ i = n - 1
           count == DashboardBucketCount(start, clock, width)
           index(r) == BucketIndex(r.at, start, clock, width, count)
           chosen == {r \in rows : (account # 0 => r.account = account) /\ index(r) >= 0}
           W == InWindow(range, account)
           d == Dashboard(rows, account, range, clock)
<1>1. width \in Nat \ {0} /\ n \in Nat \ {0} /\ Span(range) = n * width
  BY DEF Ranges, Span, Width
<1>2. \A r \in rows : Bucketed(clock, r.at, width, n)
  BY <1>1, WindowBucketed
<1>3. d = [total |-> Card(chosen),
           series |-> [i \in 0 .. count - 1 |-> Card({r \in chosen : index(r) = i})],
           speeds |-> Speeds(chosen)]
  BY Zenon DEF Dashboard
<1>4. DashboardBucketCount(start, clock, width) = n
  BY <1>1, WindowBucketed DEF Bucketed
<1> HIDE DEF width, n
<1>5. \A r \in rows :
        /\ index(r) >= 0 <=> start <= r.at /\ r.at <= clock
        /\ index(r) >= 0 => index(r) \in 0 .. n - 1
                            /\ \A j \in 0 .. n - 1 : j = index(r) <=> within(j, r)
  BY <1>1, <1>2, <1>4 DEF Bucketed
<1> HIDE DEF index, within
<1>6. chosen = W
  BY <1>5 DEF InWindow
<1>7. \A i \in 0 .. n - 1 : {r \in chosen : index(r) = i} = {r \in W : within(i, r)}
  BY <1>5, <1>6
<1>8. \A r \in W : \E i \in 0 .. n - 1 :
        within(i, r) /\ \A j \in 0 .. n - 1 : within(j, r) => j = i
  BY <1>5, <1>6
<1> HIDE DEF W, chosen
<1>9. d.total = Card(W) /\ DOMAIN d.series = 0 .. n - 1
      /\ \A i \in 0 .. n - 1 : d.series[i] = Card({r \in W : within(i, r)})
  BY <1>3, <1>4, <1>6, <1>7
<1> HIDE DEF d
<1> QED BY <1>8, <1>9, Zenon DEF BucketsFaithful, width, n, within, W, d

DashboardsCount == \A range \in Ranges : \A account : BucketsFaithful(range, account)

\* Each window of the dashboard has the buckets of its span, and counts every row of
\* its account in the one bucket of the row's time, the window's end in the last
\* (dashboardBucketCount, dashboardBucketIndex): the part of ReportsFaithful about
\* buckets, for every clock, table and account.
THEOREM AlwaysBuckets == Spec => []DashboardsCount
<1>1. IInv => DashboardsCount
  <2>1. IInv => clock \in Int /\ \A r \in rows : r.at \in Int
    BY DEF IInv, TypeInv, RowsInv
  <2> QED BY <2>1, DashboardBuckets DEF DashboardsCount
<1> QED BY <1>1, AlwaysIInv, PTL

\* The sample that dashboardP95 takes from n sorted ones is there, and the first of
\* which at least 95 in 100 are not greater.
THEOREM PercentileRank ==
  ASSUME NEW n \in Nat \ {0}
  PROVE  /\ P95Index(n) \in 1 .. n
         /\ 100 * P95Index(n) >= 95 * n /\ 100 * (P95Index(n) - 1) < 95 * n
<1> DEFINE k == (95 * n + 99) \div 100
<1>1. k \in Nat /\ 100 * k <= 95 * n + 99 /\ 95 * n + 99 < 100 * k + 100
  OBVIOUS
<1>2. k >= 1 /\ k <= n
  BY <1>1
<1>3. Max({k, 1}) = k
  BY <1>1, <1>2, GreaterOfTwo
<1>4. P95Index(n) = k
  <2>1. P95Index(n) = Min({k, n})
    BY <1>3 DEF P95Index
  <2> QED BY <1>2, <1>1, <2>1, LeastOfTwo
<1> QED BY <1>1, <1>2, <1>4

-----------------------------------------------------------------------------
(* A run of the playground (UpstreamAnswers), which picks its account as the *)
(* data plane does and has its own clients and providers.                   *)

\* What each kind of end of a run leaves: the code and the record.
LEMMA EndLeaves ==
  ASSUME NEW e
  PROVE  /\ playgroundCode(e) = 0 <=> e.kind = "ran"
         /\ playgroundCode(e) = 4004 <=> e.kind = "upstream"
         /\ playgroundCode(e) = 4005 <=> e.kind = "timeout"
         /\ recordInput(e).outcome \in {"success", "no_extractable_text"} <=> e.kind = "ran"
         /\ recordInput(e).outcome = "upstream_error" <=> e.kind = "upstream"
         /\ recordInput(e).outcome = "cancelled" <=> e.kind = "cancelled"
         /\ recordInput(e).outcome = "upstream_timeout" <=> e.kind = "timeout"
         /\ e.kind = "ran" => recordInput(e).status = e.status
         /\ e.kind \notin {"no_account", "missing", "select_error"} => recordInput(e).account
<1>1. CASE e.kind = "ran"
  BY <1>1 DEF playgroundCode, recordInput, RunRecord
<1>2. CASE e.kind \in {"no_account", "missing", "unavailable", "select_error", "cancelled"}
  BY <1>2 DEF playgroundCode, recordInput, RunRecord
<1>3. CASE e.kind \in {"upstream", "timeout", "malformed", "too_large"}
  BY <1>3 DEF playgroundCode, recordInput, RunRecord
<1>4. CASE e.kind \notin {"ran", "no_account", "missing", "unavailable", "select_error",
                          "cancelled", "upstream", "timeout", "malformed", "too_large"}
  BY <1>4 DEF playgroundCode, recordInput, RunRecord
<1>5. QED
  BY <1>1, <1>2, <1>3, <1>4

\* Before its end a run has no record and no reason to be cut, and until it is sent no
\* answer; what it has gone at its end is the truth.
PlayInv ==
  req.via = "playground" =>
    /\ stream = NewStream
    /\ stage # "done" => records = <<>> /\ cut = "none"
    /\ stage \in {"start", "select", "prepared"} => answer = NoAnswer
    /\ stage \in {"select", "prepared", "reading"} => Validate(req.run)
    /\ PlaygroundTruthful

LEMMA RunEnds ==
  ASSUME Validate(req.run), records = <<>>, NEW e, EndRun(e),
         UNCHANGED <<req, stream>>, stream = NewStream,
         e.kind = "ran" =>
           /\ answer' # NoAnswer /\ answer'.status \in 200 .. 299 /\ cut' = "none"
           /\ got' = Total(answer)' /\ ~answer'.large /\ e.status = answer'.status,
         e.kind = "cancelled" => gone', e.kind = "timeout" => timedOut' \/ cut' = "slow",
         answer' # NoAnswer => e.kind \notin {"no_account", "missing", "select_error"}
  PROVE  PlayInv'
<1> DEFINE r == recordInput(e)
<1>1. stage' = "done" /\ records' = <<r>> /\ reply'.code = playgroundCode(e)
  BY DEF EndRun, Reply, NoReply
<1>2. Len(records') = 1 /\ records'[1] = r /\ Validate(req.run)'
  BY <1>1 DEF Validate, Within
<1>3. /\ reply'.code = 0 <=> r.outcome \in {"success", "no_extractable_text"}
      /\ reply'.code = 0 <=> e.kind = "ran"
      /\ reply'.code = 4004 <=> r.outcome = "upstream_error"
      /\ r.outcome = "cancelled" => gone'
      /\ reply'.code = 4005 <=> r.outcome = "upstream_timeout"
      /\ r.outcome = "upstream_timeout" => timedOut' \/ cut' = "slow"
      /\ e.kind = "ran" => r.status = e.status
      /\ answer' # NoAnswer => r.account
  BY <1>1, EndLeaves
<1> HIDE DEF r
<1>4. PlaygroundTruthful'
  BY <1>1, <1>2, <1>3 DEF PlaygroundTruthful
<1>5. QED
  BY <1>1, <1>4 DEF PlayInv

LEMMA PlayInit == AnswerInit => PlayInv
BY DEF AnswerInit, PlayInv, PlaygroundTruthful

\* RunPlayground lets a run succeed only with an answer of the 2xx class within the limit.
LEMMA RanWell ==
  ASSUME NEW oauth, NEW endpoint, NEW a
  PROVE  LET e == RunPlayground(oauth, endpoint, a) IN
           /\ e.kind \in {"too_large", "upstream", "malformed", "ran"}
           /\ e.kind = "ran" => ~a.large /\ a.status \in 200 .. 299 /\ e.status = a.status
<1> DEFINE w == chatCompletionFromResponsesBody(a)
           c == CollectSSE(DataEvents(a))
           j == JSONBody(a)
<1> HIDE DEF w, c, j
<1>1. QED
  BY DEF RunPlayground, End

LEMMA PlayStep ==
  ASSUME PlayInv, AnswerNext
  PROVE  PlayInv'
<1>1. req'.via = req.via
  <2>1. ASSUME NEW a \in Answers, Send(a) PROVE req'.via = req.via
    BY <2>1 DEF Send
  <2>2. UNCHANGED req \/ \E a \in Answers : Send(a)
    BY Zenon DEF AnswerNext, Prepare, ValidateRun, SelectAccount,
       SendFails, Deliver, EndBody, CutBody, ClientLeaves,
       WaitExpires
  <2>3. QED
    BY <2>1, <2>2
<1> SUFFICES ASSUME req.via = "playground" PROVE PlayInv'
  BY <1>1 DEF PlayInv
<1>2. CASE Prepare
  BY <1>2 DEF Prepare
<1>3. CASE ValidateRun
  <2>1. CASE Validate(req.run)
    BY <1>3, <2>1 DEF ValidateRun, PlayInv, PlaygroundTruthful, Validate,
       Within
  <2>2. CASE ~Validate(req.run)
    <3>1. /\ stage' = "done" /\ UNCHANGED <<req, answer, cut, stream, records>>
          /\ records = <<>> /\ ~Validate(req.run)'
      BY <1>3, <2>2 DEF ValidateRun, PlayInv, Validate, Within
    <3>2. QED
      BY <3>1 DEF PlayInv, PlaygroundTruthful
  <2>3. QED
    BY <2>1, <2>2
<1>4. CASE SelectAccount
  <2>1. /\ stage = "select" /\ UNCHANGED <<req, answer, got, cut, stream, gone, timedOut>>
        /\ records = <<>> /\ cut = "none" /\ answer = NoAnswer /\ stream = NewStream
        /\ Validate(req.run)
    BY <1>4 DEF SelectAccount, PlayInv
  <2>2. ASSUME stage' = "prepared", UNCHANGED <<records, reply>> PROVE PlayInv'
    BY <2>1, <2>2 DEF PlayInv, PlaygroundTruthful, Validate, Within
  <2>3. ASSUME NEW kind \in {"internal", "no_account", "missing", "unavailable", "select_error"},
               EndRun(End(kind, 0, <<>>))
        PROVE  PlayInv'
    <3>1. End(kind, 0, <<>>).kind = kind
      BY DEF End
    <3>2. QED
      BY <2>1, <2>3, <3>1, RunEnds
  <2>4. QED
    BY <1>4, <2>2, <2>3, Zenon DEF SelectAccount, PreparedRun
<1>5. ASSUME NEW a \in Answers, Send(a) PROVE PlayInv'
  BY <1>5 DEF Send, PlayInv, PlaygroundTruthful, Validate, Within
<1>6. ASSUME NEW cause \in {"refused", "slow"}, SendFails(cause) PROVE PlayInv'
  <2>1. /\ stage = "prepared" /\ UNCHANGED <<req, answer, got, stream, gone, timedOut>>
        /\ cut' = cause /\ EndRun(DoError(gone, timedOut, cause = "slow"))
        /\ records = <<>> /\ answer = NoAnswer /\ stream = NewStream
        /\ Validate(req.run)
    BY <1>6 DEF SendFails, PlayInv
  <2> DEFINE e == DoError(gone, timedOut, cause = "slow")
  <2>2. /\ e.kind \in {"cancelled", "timeout", "connect"}
        /\ e.kind = "cancelled" => gone
        /\ e.kind = "timeout" => timedOut \/ cause = "slow"
    BY DEF DoError, End
  <2> HIDE DEF e
  <2>3. QED
    BY <2>1, <2>2, RunEnds DEF e
<1>7. CASE Deliver
  <2>1. ~Streaming
    BY DEF Streaming
  <2>2. stage = "reading" /\ UNCHANGED <<stage, req, answer, cut, stream, records, reply, gone, timedOut>>
    BY <1>7, <2>1 DEF Deliver
  <2>3. QED
    BY <2>2 DEF PlayInv, PlaygroundTruthful, Validate, Within
<1>8. CASE EndBody
  <2> DEFINE e == RunPlayground(req.oauth, req.run.endpoint, answer)
  <2>1. /\ stage = "reading" /\ UNCHANGED <<req, answer, got, cut, stream, gone, timedOut>>
        /\ EndRun(e) /\ (got = Total(answer) \/ stream.err # "none")
    BY <1>8 DEF EndBody
  <2>2. /\ records = <<>> /\ cut = "none" /\ stream = NewStream /\ Validate(req.run)
    BY <2>1 DEF PlayInv
  <2>3. stream.err = "none"
    BY <2>2, Zenon DEF NewStream
  <2>4. NoAnswer.status = 0
    BY Zenon DEF NoAnswer
  <2>5. /\ e.kind \in {"too_large", "upstream", "malformed", "ran"}
        /\ e.kind = "ran" => ~answer.large /\ answer.status \in 200 .. 299
                             /\ e.status = answer.status
    BY RanWell
  <2> HIDE DEF e
  <2>6. answer.status \in 200 .. 299 => answer # NoAnswer
    BY <2>4
  <2>7. got' = Total(answer)'
    BY <2>1, <2>3 DEF Total
  <2>8. QED
    BY <2>1, <2>2, <2>5, <2>6, <2>7, RunEnds
<1>9. ASSUME NEW cause \in {"lost", "gone", "expired"}, CutBody(cause) PROVE PlayInv'
  <2> DEFINE e == ReadError(cause)
  <2>1. /\ stage = "reading" /\ UNCHANGED <<req, answer, got, stream, gone, timedOut>>
        /\ EndRun(e) /\ (cause = "gone" => gone)
    BY <1>9 DEF CutBody
  <2>2. records = <<>> /\ stream = NewStream /\ Validate(req.run)
    BY <2>1 DEF PlayInv
  <2>3. e.kind \in {"cancelled", "internal"} /\ (e.kind = "cancelled" => cause = "gone")
    BY DEF ReadError, End
  <2> HIDE DEF e
  <2>4. QED
    BY <2>1, <2>2, <2>3, RunEnds
<1>10. CASE ClientLeaves
  BY <1>10 DEF ClientLeaves, PlayInv, PlaygroundTruthful, Validate, Within
<1>11. CASE WaitExpires
  BY <1>11 DEF WaitExpires, PlayInv, PlaygroundTruthful, Validate, Within
<1>12. QED
  BY <1>2, <1>3, <1>4, <1>5, <1>6, <1>7, <1>8, <1>9, <1>10, <1>11 DEF AnswerNext

\* However the account, the provider, the client and the wait limit end a run of the
\* playground, it leaves one record that fits the code its client is given: success only
\* for a whole answer of the 2xx class, cancelled only if the client left, timed out only if
\* the wait limit passed or the transport timed out.
THEOREM RunsToldTruly == AnswerSpec => []PlaygroundTruthful
<1>1. PlayInv /\ [AnswerNext]_exchange => PlayInv'
  <2>1. PlayInv /\ UNCHANGED exchange => PlayInv'
    BY DEF exchange, PlayInv, PlaygroundTruthful, Validate, Within, Total
  <2>2. QED
    BY <2>1, PlayStep
<1>2. PlayInv => PlaygroundTruthful
  BY DEF PlayInv, PlaygroundTruthful
<1>3. QED
  BY PlayInit, <1>1, <1>2, PTL DEF AnswerSpec
===============================================================================
