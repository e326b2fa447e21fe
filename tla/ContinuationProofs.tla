-------------------------- MODULE ContinuationProofs --------------------------
(***************************************************************************)
(* Proofs about Continuation, for every set of tasks, handlers and results *)
(* and every number of deliveries and crashes: a reply is persisted once,  *)
(* the first result wins, and a snapshot survives until its reply is in    *)
(* the session.                                                            *)
(***************************************************************************)
EXTENDS Continuation, FiniteSetTheorems, TLAPS

-------------------------------------------------------------------------------
(* The inductive invariant.                                                *)

\* Stages in which a handler holds the claim on its task, has loaded a
\* snapshot, or has passed the phase machine or skipped it.
Claimed == RunAt \ {"idle", "forget", "erase", "clear"}
Holding == {"confirm", "insert", "write", "ready", "model", "nested", "persist", "mark"}
Passed  == RunAt \ {"idle", "gate", "load", "confirm"}

\* The turn of t has not written the snapshot that carries its session.
Early(t) == turn[t].at \in {"none", "calling", "acked", "inserted"}

At(h, t, stages) == run[h].task = t /\ run[h].at \in stages

ReadyEntry(t) == mem[t].kind = "entry" /\ mem[t].ready
OnDisk(t)     == disk[t].kind = "snapshot"

\* At most one handler has claimed a task, and only for a result that arrived.
IdleRuns == \A h \in Handler : run[h].at = "idle" <=> run[h].task = ""

Claims(t) ==
    /\ t \in handling <=> \E h \in Handler : At(h, t, Claimed)
    /\ \A g, h \in Handler : At(g, t, Claimed) /\ At(h, t, Claimed) => g = h
    /\ \A h \in Handler : run[h].task = t => delivered[t] # 0 /\ run[h].result \in Result
    /\ turn[t].at \in {"none", "refused"} => delivered[t] = 0

\* Nobody has seen the session of a turn that has not written it.
Hidden(t) ==
    Early(t) =>
        /\ OnDisk(t) => ~disk[t].home
        /\ ReadyEntry(t) => ~mem[t].home
        /\ \A h \in Handler : At(h, t, Holding) => ~run[h].home
        /\ \A h \in Handler :
              At(h, t, {"write", "ready"}) /\ mem[t].kind = "entry" /\ mem[t].by = h => ~mem[t].home

\* A reply for t may still be persisted: the one handler that has passed the
\* phase machine keeps it locked, and works on a snapshot that is on disk.
Open(t) ==
    /\ Len(replies[t]) <= cutShort[t]
    /\ OnDisk(t) => ~disk[t].final
    /\ \A h \in Handler : ~At(h, t, {"mark"})
    /\ \A h \in Handler : At(h, t, Passed) => phase[t] = "confirmed"
    /\ \A g, h \in Handler : At(g, t, Passed) /\ At(h, t, Passed) => g = h
    /\ \A h \in Handler : At(h, t, {"persist"}) => run[h].home
    /\ \A h \in Handler : At(h, t, {"ready", "model", "nested", "persist"}) => OnDisk(t)
    /\ \A h \in Handler : At(h, t, {"write", "ready", "model", "nested", "persist"}) /\ run[h].home
                             => mem[t].kind = "entry" /\ mem[t].by = h

\* The reply was persisted and its handler is about to mark the snapshot.
Marking(t) ==
    \E h \in Handler :
        /\ At(h, t, {"mark"})
        /\ \A g \in Handler : run[g].task = t => g = h
        /\ Len(replies[t]) <= 1 + cutShort[t]
        /\ OnDisk(t) /\ ~disk[t].final
        /\ mem[t].kind = "entry" /\ mem[t].by = h
        /\ ~Early(t)

\* No further reply can come: what is left of the snapshot is marked, and an
\* entry in memory is guarded by the mark on disk.
Shut(t) ==
    /\ Len(replies[t]) <= 1 + cutShort[t]
    /\ ~Early(t)
    /\ \A h \in Handler : ~At(h, t, Holding)
    /\ OnDisk(t) => disk[t].final
    /\ turn[t].at = "written" /\ mem[t].kind = "entry" => mem[t].by # Turn
    /\ ReadyEntry(t) => OnDisk(t)
    /\ \A h \in Handler : At(h, t, {"load"}) => ~ReadyEntry(t) /\ ~OnDisk(t)
    /\ \A h \in Handler : At(h, t, {"erase", "clear"}) => ~ReadyEntry(t)

Replies(t) == Open(t) \/ Marking(t) \/ Shut(t)

\* A turn that is not slower than the barrier is left alone until it has saved.
Untouched(t) ==
    /\ turn[t].at = "none" => ~OnDisk(t)
    /\ turn[t].at = "none" \/ Delegating(t) =>
          /\ ~ReadyEntry(t)
          /\ OnDisk(t) => ~disk[t].final
          /\ \A h \in Handler : ~At(h, t, Holding \cup Passed)
          /\ merged[t] = Pending /\ replies[t] = << >>

\* All copies of the slot agree with the first result written back.
Agreed(t) ==
    /\ \A i \in DOMAIN replies[t] : replies[t][i] = merged[t]
    /\ merged[t] # Pending =>
          /\ OnDisk(t) => disk[t].slot = merged[t]
          /\ mem[t].kind = "entry" => mem[t].slot = merged[t]
          /\ \A h \in Handler : At(h, t, Holding) => run[h].result = merged[t]
    /\ \A h \in Handler :
          At(h, t, {"write"}) /\ mem[t].kind = "entry" => mem[t].slot = run[h].result
    /\ \A h \in Handler :
          At(h, t, {"ready", "model", "nested", "persist", "mark"}) => merged[t] # Pending

\* All copies of the session agree with the turn.
SameHome(t) ==
    /\ turn[t].at \in {"inserted", "written", "saved"} /\ mem[t].kind = "entry" => mem[t].home = turn[t].home
    /\ turn[t].at \in {"written", "saved"} =>
          /\ OnDisk(t) => disk[t].home = turn[t].home
          /\ \A h \in Handler : At(h, t, Holding) => run[h].home = turn[t].home

\* A saved snapshot that is neither answered nor given up is there, and no
\* handler is about to remove it.
Kept(t) ==
    turn[t].at \in {"written", "saved"} /\ turn[t].home /\ replies[t] = << >> /\ t \notin closed =>
        /\ OnDisk(t) \/ (disk[t] = Torn /\ crashes # 0)
        /\ OnDisk(t) => ~disk[t].final
        /\ \A h \in Handler : ~At(h, t, {"mark", "send", "release", "forget", "erase", "clear"})

InvOf(t) ==
    /\ Claims(t)
    /\ Hidden(t)
    /\ Replies(t)
    /\ t \notin Slow => Untouched(t) /\ Agreed(t) /\ SameHome(t) /\ Kept(t)

IInv == TypeOK /\ IdleRuns /\ \A t \in Task : InvOf(t)

-------------------------------------------------------------------------------
(* Snapshots, entries and handlers.                                        *)

\* What an entry and a snapshot are made of.
LEMMA Shapes ==
    /\ None.kind = "none" /\ Torn.kind = "torn"
    /\ \A s, b, w, r :
          /\ Entry(s, b, w, r).kind = "entry" /\ Entry(s, b, w, r).slot = s
          /\ Entry(s, b, w, r).home = b /\ Entry(s, b, w, r).by = w /\ Entry(s, b, w, r).ready = r
    /\ \A s, b, f :
          /\ Snapshot(s, b, f).kind = "snapshot" /\ Snapshot(s, b, f).slot = s
          /\ Snapshot(s, b, f).home = b /\ Snapshot(s, b, f).final = f
BY DEF None, Torn, Entry, Snapshot

\* What memory and disk may hold.
LEMMA MemoryHolds ==
    ASSUME NEW e \in Entries \cup {None}
    PROVE  \/ e = None
           \/ \E s \in Slot, b \in BOOLEAN, w \in Handler \cup {Turn}, r \in BOOLEAN :
                 e = Entry(s, b, w, r)
BY DEF Entries

\* What the disk may hold.
LEMMA DiskHolds ==
    ASSUME NEW f \in Snapshots \cup {None, Torn}
    PROVE  \/ f = None \/ f = Torn
           \/ \E s \in Slot, b \in BOOLEAN, m \in BOOLEAN : f = Snapshot(s, b, m)
BY DEF Snapshots

\* The parts of what memory and disk hold have types.
LEMMA Parts ==
    ASSUME TypeOK, NEW t \in Task
    PROVE  /\ mem[t].kind \in {"none", "entry"}
           /\ mem[t].kind = "entry" => /\ mem[t].slot \in Slot /\ mem[t].home \in BOOLEAN
                                       /\ mem[t].by \in Handler \cup {Turn} /\ mem[t].ready \in BOOLEAN
           /\ disk[t].kind \in {"none", "torn", "snapshot"}
           /\ disk[t].kind = "snapshot" => /\ disk[t].slot \in Slot /\ disk[t].home \in BOOLEAN
                                           /\ disk[t].final \in BOOLEAN
           /\ turn[t].at \in TurnStage /\ turn[t].home \in BOOLEAN
<1>1. mem[t] \in Entries \cup {None} /\ disk[t] \in Snapshots \cup {None, Torn}
  BY DEF TypeOK, Types
<1>2. /\ mem[t].kind \in {"none", "entry"}
      /\ mem[t].kind = "entry" => /\ mem[t].slot \in Slot /\ mem[t].home \in BOOLEAN
                                  /\ mem[t].by \in Handler \cup {Turn} /\ mem[t].ready \in BOOLEAN
  BY <1>1, MemoryHolds, Shapes
<1>3. /\ disk[t].kind \in {"none", "torn", "snapshot"}
      /\ disk[t].kind = "snapshot" => /\ disk[t].slot \in Slot /\ disk[t].home \in BOOLEAN
                                      /\ disk[t].final \in BOOLEAN
  BY <1>1, DiskHolds, Shapes
<1>4. turn[t].at \in TurnStage /\ turn[t].home \in BOOLEAN
  BY DEF TypeOK, Types
<1> QED BY <1>2, <1>3, <1>4

\* A value replaces another in memory, on disk.
LEMMA MadeValues ==
    /\ None \in Entries \cup {None} /\ None \in Snapshots \cup {None, Torn}
    /\ \A s \in Slot, b \in BOOLEAN, w \in Handler \cup {Turn}, r \in BOOLEAN :
          Entry(s, b, w, r) \in Entries \cup {None}
    /\ \A s \in Slot, b \in BOOLEAN, f \in BOOLEAN :
          Snapshot(s, b, f) \in Snapshots \cup {None, Torn}
BY DEF Entries, Snapshots

\* What marking an entry ready changes.
LEMMA MarkedReady ==
    ASSUME TypeOK, NEW t \in Task, NEW w, MarkReady(t, w)
    PROVE  /\ mem' \in [Task -> Entries \cup {None}]
           /\ \A u \in Task : u # t => mem'[u] = mem[u]
           /\ mem'[t].kind = mem[t].kind
           /\ mem[t].kind = "entry" => /\ mem'[t].slot = mem[t].slot /\ mem'[t].home = mem[t].home
                                       /\ mem'[t].by = mem[t].by
                                       /\ mem[t].by # w => mem'[t] = mem[t]
<1>1. mem \in [Task -> Entries \cup {None}]
  BY DEF TypeOK, Types
<1>2. CASE mem[t].kind = "entry" /\ mem[t].by = w
  <2> DEFINE e == Entry(mem[t].slot, mem[t].home, mem[t].by, TRUE)
  <2>1. mem' = [mem EXCEPT ![t] = e]
    BY <1>2 DEF MarkReady
  <2>2. e \in Entries \cup {None}
    BY <1>2, Parts, MadeValues
  <2>3. e.kind = "entry" /\ e.slot = mem[t].slot /\ e.home = mem[t].home /\ e.by = mem[t].by
    BY DEF Entry
  <2> HIDE DEF e
  <2> QED BY <1>1, <1>2, <2>1, <2>2, <2>3
<1>3. CASE ~(mem[t].kind = "entry" /\ mem[t].by = w)
  BY <1>1, <1>3 DEF MarkReady
<1> QED BY <1>2, <1>3

\* What marking a snapshot final changes.
LEMMA MarkedFinal ==
    ASSUME TypeOK, NEW t \in Task,
           disk' = IF disk[t].kind = "snapshot"
                   THEN [disk EXCEPT ![t] = Snapshot(@.slot, @.home, TRUE)] ELSE disk
    PROVE  /\ disk' \in [Task -> Snapshots \cup {None, Torn}]
           /\ \A u \in Task : u # t => disk'[u] = disk[u]
           /\ disk'[t].kind = disk[t].kind
           /\ disk[t].kind = "snapshot" => /\ disk'[t].slot = disk[t].slot /\ disk'[t].home = disk[t].home
                                           /\ disk'[t].final
<1>1. disk \in [Task -> Snapshots \cup {None, Torn}]
  BY DEF TypeOK, Types
<1>2. CASE disk[t].kind = "snapshot"
  <2> DEFINE e == Snapshot(disk[t].slot, disk[t].home, TRUE)
  <2>1. disk' = [disk EXCEPT ![t] = e]
    BY <1>2
  <2>2. e \in Snapshots \cup {None, Torn}
    BY <1>2, Parts, MadeValues
  <2>3. e.kind = "snapshot" /\ e.slot = disk[t].slot /\ e.home = disk[t].home /\ e.final
    BY DEF Snapshot
  <2> HIDE DEF e
  <2> QED BY <1>1, <1>2, <2>1, <2>2, <2>3
<1>3. CASE disk[t].kind # "snapshot"
  BY <1>1, <1>3
<1> QED BY <1>2, <1>3

\* Handler h moves on to another stage and keeps the rest.
Moves(h, to) ==
    /\ run' \in [Handler -> RunType]
    /\ run'[h].at = to /\ run'[h].task = run[h].task
    /\ run'[h].result = run[h].result /\ run'[h].home = run[h].home
    /\ \A g \in Handler : g # h => run'[g] = run[g]

\* Handler h becomes idle.
Rests(h) ==
    /\ run' \in [Handler -> RunType]
    /\ run'[h].at = "idle" /\ run'[h].task = ""
    /\ \A g \in Handler : g # h => run'[g] = run[g]

\* GoTo, as a change of the handler's record.
LEMMA Goes ==
    ASSUME TypeOK, NEW h \in Handler, NEW s \in RunAt, GoTo(h, s)
    PROVE  Moves(h, s)
<1> DEFINE r == [run[h] EXCEPT !.at = s]
<1>1. run \in [Handler -> RunType]
  BY DEF TypeOK, Types
<1>2. r \in RunType /\ r.at = s /\ r.task = run[h].task /\ r.result = run[h].result
      /\ r.home = run[h].home
  BY <1>1 DEF RunType
<1>3. run' = [run EXCEPT ![h] = r]
  BY DEF GoTo
<1> HIDE DEF r
<1> QED BY <1>1, <1>2, <1>3 DEF Moves

\* The handler's record at rest.
LEMMA Idles ==
    ASSUME TypeOK, NEW h \in Handler, run' = [run EXCEPT ![h] = IdleRun]
    PROVE  Rests(h)
<1>1. run \in [Handler -> RunType]
  BY DEF TypeOK, Types
<1>2. IdleRun \in RunType /\ IdleRun.at = "idle" /\ IdleRun.task = ""
  BY DEF IdleRun, RunType, RunAt, Slot
<1> QED BY <1>1, <1>2 DEF Rests

\* Handler h takes a snapshot and merges the result that arrived into its slot.
Takes(h, slot, home) ==
    /\ run' \in [Handler -> RunType]
    /\ run'[h].at = "confirm" /\ run'[h].task = run[h].task /\ run'[h].home = home
    /\ run'[h].result = IF slot = Pending THEN run[h].result ELSE slot
    /\ \A g \in Handler : g # h => run'[g] = run[g]

\* Loaded, with the types that memory and disk guarantee.
LEMMA Loads ==
    ASSUME TypeOK, NEW h \in Handler, NEW snap, snap.slot \in Slot, snap.home \in BOOLEAN,
           Loaded(h, snap)
    PROVE  Takes(h, snap.slot, snap.home)
<1> DEFINE r == [run[h] EXCEPT !.at = "confirm", !.home = snap.home,
                               !.result = Merge(snap.slot, run[h].result)]
<1>1. run \in [Handler -> RunType]
  BY DEF TypeOK, Types
<1>2. Merge(snap.slot, run[h].result) \in Slot
  BY <1>1 DEF Merge, RunType
<1>3. /\ r \in RunType /\ r.at = "confirm" /\ r.task = run[h].task /\ r.home = snap.home
      /\ r.result = Merge(snap.slot, run[h].result)
  BY <1>1, <1>2 DEF RunType, RunAt
<1>4. run' = [run EXCEPT ![h] = r]
  BY <1>1 DEF Loaded
<1> HIDE DEF r
<1> QED BY <1>1, <1>3, <1>4 DEF Takes, Merge

\* Memory and disk take a new value for t.
Inserts(t, slot, home, by) ==
    /\ mem' \in [Task -> Entries \cup {None}]
    /\ mem'[t].kind = "entry" /\ mem'[t].slot = slot /\ mem'[t].home = home /\ mem'[t].by = by
    /\ ~mem'[t].ready
    /\ \A u \in Task : u # t => mem'[u] = mem[u]

Drops(t) ==
    /\ mem' \in [Task -> Entries \cup {None}]
    /\ mem'[t].kind = "none"
    /\ \A u \in Task : u # t => mem'[u] = mem[u]

Writes(t, slot, home) ==
    /\ disk' \in [Task -> Snapshots \cup {None, Torn}]
    /\ disk'[t].kind = "snapshot" /\ disk'[t].slot = slot /\ disk'[t].home = home
    /\ ~disk'[t].final
    /\ \A u \in Task : u # t => disk'[u] = disk[u]

Deletes(t) ==
    /\ disk' \in [Task -> Snapshots \cup {None, Torn}]
    /\ disk'[t].kind = "none"
    /\ \A u \in Task : u # t => disk'[u] = disk[u]

\* The four ways in which memory and disk are written.
LEMMA Stores ==
    ASSUME TypeOK, NEW t \in Task
    PROVE  /\ \A s \in Slot, b \in BOOLEAN, w \in Handler \cup {Turn} :
                 mem' = [mem EXCEPT ![t] = Entry(s, b, w, FALSE)] => Inserts(t, s, b, w)
           /\ mem' = [mem EXCEPT ![t] = None] => Drops(t)
           /\ \A s \in Slot, b \in BOOLEAN :
                 disk' = [disk EXCEPT ![t] = Snapshot(s, b, FALSE)] => Writes(t, s, b)
           /\ disk' = [disk EXCEPT ![t] = None] => Deletes(t)
<1>1. mem \in [Task -> Entries \cup {None}] /\ disk \in [Task -> Snapshots \cup {None, Torn}]
  BY DEF TypeOK, Types
<1>2. ASSUME NEW s \in Slot, NEW b \in BOOLEAN, NEW w \in Handler \cup {Turn},
             mem' = [mem EXCEPT ![t] = Entry(s, b, w, FALSE)]
      PROVE  Inserts(t, s, b, w)
  <2> DEFINE e == Entry(s, b, w, FALSE)
  <2>1. e \in Entries \cup {None}
    BY MadeValues
  <2>2. e.kind = "entry" /\ e.slot = s /\ e.home = b /\ e.by = w /\ ~e.ready
    BY DEF Entry
  <2>3. mem' = [mem EXCEPT ![t] = e]
    BY <1>2
  <2> HIDE DEF e
  <2> QED BY <1>1, <2>1, <2>2, <2>3 DEF Inserts
<1>3. ASSUME NEW s \in Slot, NEW b \in BOOLEAN,
             disk' = [disk EXCEPT ![t] = Snapshot(s, b, FALSE)]
      PROVE  Writes(t, s, b)
  <2> DEFINE e == Snapshot(s, b, FALSE)
  <2>1. e \in Snapshots \cup {None, Torn}
    BY MadeValues
  <2>2. e.kind = "snapshot" /\ e.slot = s /\ e.home = b /\ ~e.final
    BY DEF Snapshot
  <2>3. disk' = [disk EXCEPT ![t] = e]
    BY <1>3
  <2> HIDE DEF e
  <2> QED BY <1>1, <2>1, <2>2, <2>3 DEF Writes
<1>4. mem' = [mem EXCEPT ![t] = None] => Drops(t)
  BY <1>1, MadeValues, Shapes DEF Drops
<1>5. disk' = [disk EXCEPT ![t] = None] => Deletes(t)
  BY <1>1, MadeValues, Shapes DEF Deletes
<1> QED BY <1>2, <1>3, <1>4, <1>5

-------------------------------------------------------------------------------
(* A step concerns one task, or two when a handler delegates.              *)

\* A step leaves everything that concerns t as it is.
Quiet(t) ==
    /\ mem'[t] = mem[t] /\ disk'[t] = disk[t] /\ phase'[t] = phase[t] /\ turn'[t] = turn[t]
    /\ replies'[t] = replies[t] /\ delivered'[t] = delivered[t] /\ merged'[t] = merged[t]
    /\ cutShort'[t] = cutShort[t] /\ crashes' = crashes
    /\ t \in closed' <=> t \in closed
    /\ t \in handling' <=> t \in handling
    /\ \A h \in Handler : run'[h].task = t <=> run[h].task = t
    /\ \A h \in Handler : run[h].task = t => /\ run'[h].at = run[h].at /\ run'[h].home = run[h].home
                                             /\ run'[h].result = run[h].result

\* Such a step keeps the invariant of t.
LEMMA QuietKeeps ==
    ASSUME NEW t \in Task, InvOf(t), Quiet(t)
    PROVE  InvOf(t)'
<1>1. \A S : \A h \in Handler : At(h, t, S)' <=> At(h, t, S)
  BY DEF Quiet, At
<1>2. Claims(t)'
  BY <1>1 DEF InvOf, Claims, Quiet
<1>3. Early(t)' <=> Early(t)
  BY DEF Early, Quiet
<1>4. (ReadyEntry(t)' <=> ReadyEntry(t)) /\ (OnDisk(t)' <=> OnDisk(t)) /\ (Delegating(t)' <=> Delegating(t))
  BY DEF ReadyEntry, OnDisk, Delegating, Quiet
<1>5. Hidden(t)'
  BY <1>1, <1>3, <1>4 DEF InvOf, Hidden, Quiet, At
<1>6. Replies(t)'
  <2>1. CASE Open(t)
    <3>1. Open(t)'
      BY <1>1, <1>4, <2>1 DEF Open, Quiet, At
    <3> QED BY <3>1 DEF Replies
  <2>2. CASE Marking(t)
    <3>1. Marking(t)'
      BY <1>1, <1>3, <1>4, <2>2 DEF Marking, Quiet
    <3> QED BY <3>1 DEF Replies
  <2>3. CASE Shut(t)
    <3>1. Shut(t)'
      BY <1>1, <1>3, <1>4, <2>3 DEF Shut, Quiet
    <3> QED BY <3>1 DEF Replies
  <2> QED BY <2>1, <2>2, <2>3 DEF InvOf, Replies
<1>7. Untouched(t) => Untouched(t)'
  BY <1>1, <1>4 DEF Untouched, Quiet
<1>8. Agreed(t) => Agreed(t)'
  BY <1>1, <1>4 DEF Agreed, Quiet, At
<1>9. SameHome(t) => SameHome(t)'
  BY <1>1, <1>4 DEF SameHome, Quiet, At
<1>10. Kept(t) => Kept(t)'
  BY <1>1, <1>4 DEF Kept, Quiet
<1> QED BY <1>2, <1>5, <1>6, <1>7, <1>8, <1>9, <1>10 DEF InvOf

\* What a step has to show.
LEMMA Frame ==
    ASSUME Types', IdleRuns', \A t \in Task : InvOf(t)'
    PROVE  IInv'
<1>1. \A t \in handling' : \E h \in Handler : run'[h].task = t
  BY DEF Types, InvOf, Claims, At
<1> QED BY <1>1 DEF IInv, TypeOK

\* A handler that is not idle works on a task.
LEMMA Worker ==
    ASSUME IInv, NEW h \in Handler, run[h].at # "idle"
    PROVE  run[h].task \in Task
BY DEF IInv, IdleRuns, TypeOK, Types, RunType

\* A handler moves on, rests, or has loaded a snapshot: the tasks of the others.
LEMMA MovesElsewhere ==
    ASSUME NEW h \in Handler, NEW to, Moves(h, to), NEW u, u # run[h].task
    PROVE  /\ \A g \in Handler : run'[g].task = u <=> run[g].task = u
           /\ \A g \in Handler : run[g].task = u => /\ run'[g].at = run[g].at /\ run'[g].home = run[g].home
                                                    /\ run'[g].result = run[g].result
BY DEF Moves

\* A handler that comes to rest releases the claim of its task: nobody had it besides.
LEMMA RestsReleases ==
    ASSUME NEW h \in Handler, NEW t \in Task, Claims(t), At(h, t, Claimed), Rests(h), run'[h].task # t,
           handling' = handling \ {t}, turn' = turn, delivered' = delivered
    PROVE  Claims(t)'
<1>1. ASSUME NEW g \in Handler PROVE ~At(g, t, Claimed)'
  <2>1. CASE g = h
    BY <2>1 DEF At
  <2>2. CASE g # h
    <3>1. run'[g] = run[g] /\ ~At(g, t, Claimed)
      BY <2>2 DEF Rests, Claims
    <3> QED BY <3>1 DEF At
  <2> QED BY <2>1, <2>2
<1>2. ASSUME NEW g \in Handler, run'[g].task = t PROVE delivered'[t] # 0 /\ run'[g].result \in Result
  <2>1. run'[g] = run[g]
    BY <1>2 DEF Rests
  <2> QED BY <1>2, <2>1 DEF Claims
<1> QED BY <1>1, <1>2 DEF Claims

\* The same for a handler that comes to rest ...
LEMMA RestsElsewhere ==
    ASSUME NEW h \in Handler, Rests(h), NEW u \in Task, u # run[h].task
    PROVE  /\ \A g \in Handler : run'[g].task = u <=> run[g].task = u
           /\ \A g \in Handler : run[g].task = u => /\ run'[g].at = run[g].at /\ run'[g].home = run[g].home
                                                    /\ run'[g].result = run[g].result
BY NameAssumption DEF Rests

\* The same for a handler that has loaded a snapshot ...
LEMMA TakesElsewhere ==
    ASSUME NEW h \in Handler, NEW s, NEW b, Takes(h, s, b), NEW u, u # run[h].task
    PROVE  /\ \A g \in Handler : run'[g].task = u <=> run[g].task = u
           /\ \A g \in Handler : run[g].task = u => /\ run'[g].at = run[g].at /\ run'[g].home = run[g].home
                                                    /\ run'[g].result = run[g].result
BY DEF Takes

\* A handler that comes to rest leaves the stages of the others alone.
LEMMA RestsAt ==
    ASSUME NEW h \in Handler, Rests(h), NEW t \in Task
    PROVE  /\ \A S : ~At(h, t, S)'
           /\ \A S : \A g \in Handler : g # h => (At(g, t, S)' <=> At(g, t, S))
           /\ \A g \in Handler : g # h => run'[g] = run[g]
BY NameAssumption DEF Rests, At

\* Handlers stay idle exactly when they have no task.
LEMMA MovesIdle ==
    ASSUME IdleRuns, NEW h \in Handler, NEW to, Moves(h, to), run[h].at # "idle", to # "idle"
    PROVE  IdleRuns'
BY DEF Moves, IdleRuns

\* The same for a handler that has loaded a snapshot.
LEMMA TakesIdle ==
    ASSUME IdleRuns, NEW h \in Handler, NEW s, NEW b, Takes(h, s, b), run[h].at # "idle"
    PROVE  IdleRuns'
BY DEF Takes, IdleRuns

\* The same for a handler that comes to rest.
LEMMA RestsIdle ==
    ASSUME IdleRuns, NEW h \in Handler, Rests(h)
    PROVE  IdleRuns'
BY DEF Rests, IdleRuns

\* What a step on one task has to show.
LEMMA OneTask ==
    ASSUME IInv, NEW t \in Task, Types', IdleRuns',
           \A u \in Task : u # t => Quiet(u),
           Claims(t)', Hidden(t)', Replies(t)',
           t \notin Slow => Untouched(t)' /\ Agreed(t)' /\ SameHome(t)' /\ Kept(t)'
    PROVE  IInv'
<1>1. ASSUME NEW u \in Task PROVE InvOf(u)'
  <2>1. CASE u = t
    BY <2>1 DEF InvOf
  <2>2. CASE u # t
    BY <2>2, QuietKeeps DEF IInv
  <2> QED BY <2>1, <2>2
<1> QED BY <1>1, Frame

\* Two fields of the record of handler h at once.
LEMMA Nests ==
    ASSUME TypeOK, NEW h \in Handler, NEW s \in RunAt, NEW u \in Task \cup {""},
           run' = [run EXCEPT ![h].at = s, ![h].nested = u]
    PROVE  Moves(h, s)
<1> DEFINE r == [run[h] EXCEPT !.at = s, !.nested = u]
<1>1. run \in [Handler -> RunType]
  BY DEF TypeOK, Types
<1>2. r \in RunType /\ r.at = s /\ r.task = run[h].task /\ r.result = run[h].result
      /\ r.home = run[h].home
  BY <1>1 DEF RunType
<1>3. run' = [run EXCEPT ![h] = r]
  BY <1>1
<1> HIDE DEF r
<1> QED BY <1>1, <1>2, <1>3 DEF Moves

\* One more reply.
LEMMA OneMore ==
    ASSUME NEW s \in Seq(Result), NEW x \in Result, NEW c \in Nat, Len(s) <= c
    PROVE  Len(Append(s, x)) <= 1 + c
OBVIOUS

\* A reply on the same result as the others.
LEMMA AllStill ==
    ASSUME NEW s \in Seq(Result), NEW x \in Result, NEW v, x = v, \A i \in DOMAIN s : s[i] = v
    PROVE  \A i \in DOMAIN Append(s, x) : Append(s, x)[i] = v
OBVIOUS

-------------------------------------------------------------------------------
(* One lemma per action of a handler.                                      *)

\* The gate.
LEMMA GateKeeps ==
    ASSUME IInv, NEW h \in Handler, Gate(h)
    PROVE  IInv'
<1>1. PICK t \in Task : t = run[h].task
  BY Worker DEF Gate
<1>2. PICK to \in {"release", "load"} :
         Moves(h, to) /\ (to = "release" <=> OnDisk(t) /\ disk[t].final)
  BY <1>1, Goes DEF Gate, OnDisk, RunAt, IInv
<1>3. run[h].at = "gate" /\ UNCHANGED <<mem, disk, handling, phase, turn, replies, delivered,
                                        crashes, merged, closed, cutShort>>
  BY DEF Gate
<1>4. InvOf(t)
  BY DEF IInv
<1>5. Types' /\ IdleRuns'
  BY <1>1, <1>2, <1>3, MovesIdle DEF IInv, TypeOK, Types, Moves
<1>6. ASSUME NEW u \in Task, u # t PROVE Quiet(u)
  BY <1>1, <1>2, <1>3, <1>6, MovesElsewhere DEF Quiet
<1>7. Claims(t)'
  BY <1>1, <1>2, <1>3, <1>4 DEF Moves, Claims, At, Claimed, RunAt, InvOf
<1>8. Hidden(t)'
  BY <1>1, <1>2, <1>3, <1>4 DEF Moves, Hidden, At, Holding, Early, OnDisk, ReadyEntry, InvOf
<1>9. Replies(t)'
  <2>1. CASE Open(t)
    <3>1. Open(t)'
      BY <1>1, <1>2, <1>3, <2>1 DEF Moves, Open, At, Passed, RunAt, OnDisk
    <3> QED BY <3>1 DEF Replies
  <2>2. CASE Marking(t)
    BY <1>1, <1>2, <1>3, <2>2 DEF Moves, Marking, At, OnDisk, Early
  <2>3. CASE Shut(t)
    <3>1. Shut(t)'
      BY <1>1, <1>2, <1>3, <2>3 DEF Moves, Shut, At, Holding, OnDisk, ReadyEntry, Early
    <3> QED BY <3>1 DEF Replies
  <2> QED BY <1>4, <2>1, <2>2, <2>3 DEF InvOf, Replies
<1>10. ASSUME t \notin Slow PROVE Untouched(t)' /\ Agreed(t)' /\ SameHome(t)' /\ Kept(t)'
  <2>0. Untouched(t) /\ Agreed(t) /\ SameHome(t) /\ Kept(t)
    BY <1>4, <1>10 DEF InvOf
  <2>1. Untouched(t)'
    BY <1>1, <1>2, <1>3, <1>4, <2>0
    DEF Moves, Untouched, At, Holding, Passed, RunAt, OnDisk, ReadyEntry, Delegating
  <2>2. Agreed(t)'
    BY <1>1, <1>2, <1>3, <1>4, <2>0 DEF Moves, Agreed, At, Holding, OnDisk
  <2>3. SameHome(t)'
    BY <1>1, <1>2, <1>3, <1>4, <2>0 DEF Moves, SameHome, At, Holding, OnDisk
  <2>4. Kept(t)'
    BY <1>1, <1>2, <1>3, <1>4, <2>0 DEF Moves, Kept, At, OnDisk
  <2> QED BY <2>1, <2>2, <2>3, <2>4
<1> QED BY <1>5, <1>6, <1>7, <1>8, <1>9, <1>10, OneTask

\* The nested request has returned.
LEMMA ResumeKeeps ==
    ASSUME IInv, NEW h \in Handler, Resume(h)
    PROVE  IInv'
<1>1. PICK t \in Task : t = run[h].task
  BY Worker DEF Resume
<1>2. run[h].at = "nested" /\ Moves(h, "model")
  BY Nests DEF Resume, RunAt, IInv
<1>3. UNCHANGED <<mem, disk, handling, phase, turn, replies, delivered, crashes, merged,
                  closed, cutShort>>
  BY DEF Resume
<1>4. InvOf(t)
  BY DEF IInv
<1>5. Types' /\ IdleRuns'
  BY <1>1, <1>2, <1>3, MovesIdle DEF IInv, TypeOK, Types, Moves
<1>6. ASSUME NEW u \in Task, u # t PROVE Quiet(u)
  BY <1>1, <1>2, <1>3, <1>6, MovesElsewhere DEF Quiet
<1>7. Claims(t)'
  BY <1>1, <1>2, <1>3, <1>4 DEF Moves, Claims, At, Claimed, RunAt, InvOf
<1>8. Hidden(t)'
  BY <1>1, <1>2, <1>3, <1>4 DEF Moves, Hidden, At, Holding, Early, OnDisk, ReadyEntry, InvOf
<1>9. Replies(t)'
  <2>1. CASE Open(t)
    <3>1. Open(t)'
      BY <1>1, <1>2, <1>3, <2>1 DEF Moves, Open, At, Passed, RunAt, OnDisk
    <3> QED BY <3>1 DEF Replies
  <2>2. CASE Marking(t)
    BY <1>1, <1>2, <1>3, <2>2 DEF Moves, Marking, At, OnDisk, Early
  <2>3. CASE Shut(t)
    <3>1. Shut(t)'
      BY <1>1, <1>2, <1>3, <2>3 DEF Moves, Shut, At, Holding, OnDisk, ReadyEntry, Early
    <3> QED BY <3>1 DEF Replies
  <2> QED BY <1>4, <2>1, <2>2, <2>3 DEF InvOf, Replies
<1>10. ASSUME t \notin Slow PROVE Untouched(t)' /\ Agreed(t)' /\ SameHome(t)' /\ Kept(t)'
  <2>0. Untouched(t) /\ Agreed(t) /\ SameHome(t) /\ Kept(t)
    BY <1>4, <1>10 DEF InvOf
  <2>1. Untouched(t)'
    BY <1>1, <1>2, <1>3, <1>4, <2>0
    DEF Moves, Untouched, At, Holding, Passed, RunAt, OnDisk, ReadyEntry, Delegating
  <2>2. Agreed(t)'
    BY <1>1, <1>2, <1>3, <1>4, <2>0 DEF Moves, Agreed, At, Holding, OnDisk
  <2>3. SameHome(t)'
    BY <1>1, <1>2, <1>3, <1>4, <2>0 DEF Moves, SameHome, At, Holding, OnDisk
  <2>4. Kept(t)'
    BY <1>1, <1>2, <1>3, <1>4, <2>0 DEF Moves, Kept, At, OnDisk
  <2> QED BY <2>1, <2>2, <2>3, <2>4
<1> QED BY <1>5, <1>6, <1>7, <1>8, <1>9, <1>10, OneTask

\* The outbound message.
LEMMA SendKeeps ==
    ASSUME IInv, NEW h \in Handler, Send(h)
    PROVE  IInv'
<1>1. PICK t \in Task : t = run[h].task
  BY Worker DEF Send
<1>2. run[h].at = "send" /\ Moves(h, "release")
  BY Goes DEF Send, RunAt, IInv
<1>3. UNCHANGED <<mem, disk, handling, phase, turn, replies, delivered, crashes, merged,
                  closed, cutShort>>
  BY DEF Send
<1>4. InvOf(t)
  BY DEF IInv
<1>5. Types' /\ IdleRuns'
  BY <1>1, <1>2, <1>3, MovesIdle DEF IInv, TypeOK, Types, Moves
<1>6. ASSUME NEW u \in Task, u # t PROVE Quiet(u)
  BY <1>1, <1>2, <1>3, <1>6, MovesElsewhere DEF Quiet
<1>7. Claims(t)'
  BY <1>1, <1>2, <1>3, <1>4 DEF Moves, Claims, At, Claimed, RunAt, InvOf
<1>8. Hidden(t)'
  BY <1>1, <1>2, <1>3, <1>4 DEF Moves, Hidden, At, Holding, Early, OnDisk, ReadyEntry, InvOf
<1>9. Replies(t)'
  <2>1. CASE Open(t)
    <3>1. Open(t)'
      BY <1>1, <1>2, <1>3, <2>1 DEF Moves, Open, At, Passed, RunAt, OnDisk
    <3> QED BY <3>1 DEF Replies
  <2>2. CASE Marking(t)
    BY <1>1, <1>2, <1>3, <2>2 DEF Moves, Marking, At, OnDisk, Early
  <2>3. CASE Shut(t)
    <3>1. Shut(t)'
      BY <1>1, <1>2, <1>3, <2>3 DEF Moves, Shut, At, Holding, OnDisk, ReadyEntry, Early
    <3> QED BY <3>1 DEF Replies
  <2> QED BY <1>4, <2>1, <2>2, <2>3 DEF InvOf, Replies
<1>10. ASSUME t \notin Slow PROVE Untouched(t)' /\ Agreed(t)' /\ SameHome(t)' /\ Kept(t)'
  <2>0. Untouched(t) /\ Agreed(t) /\ SameHome(t) /\ Kept(t)
    BY <1>4, <1>10 DEF InvOf
  <2>1. Untouched(t)'
    BY <1>1, <1>2, <1>3, <1>4, <2>0
    DEF Moves, Untouched, At, Holding, Passed, RunAt, OnDisk, ReadyEntry, Delegating
  <2>2. Agreed(t)'
    BY <1>1, <1>2, <1>3, <1>4, <2>0 DEF Moves, Agreed, At, Holding, OnDisk
  <2>3. SameHome(t)'
    BY <1>1, <1>2, <1>3, <1>4, <2>0 DEF Moves, SameHome, At, Holding, OnDisk
  <2>4. Kept(t)'
    BY <1>1, <1>2, <1>3, <1>4, <2>0 DEF Moves, Kept, At, OnDisk
  <2> QED BY <2>1, <2>2, <2>3, <2>4
<1> QED BY <1>5, <1>6, <1>7, <1>8, <1>9, <1>10, OneTask

\* The answer, for a session or only for the channel.
LEMMA ConcludeKeeps ==
    ASSUME IInv, NEW h \in Handler, Conclude(h)
    PROVE  IInv'
<1>1. PICK t \in Task : t = run[h].task
  BY Worker DEF Conclude
<1>2. PICK to \in {"persist", "send"} : Moves(h, to) /\ (to = "persist" <=> run[h].home)
  BY Goes DEF Conclude, RunAt, IInv
<1>3. run[h].at = "model" /\ UNCHANGED <<mem, disk, handling, phase, turn, replies, delivered,
                                         crashes, merged, closed, cutShort>>
  BY DEF Conclude
<1>4. InvOf(t)
  BY DEF IInv
<1>5. Types' /\ IdleRuns'
  BY <1>1, <1>2, <1>3, MovesIdle DEF IInv, TypeOK, Types, Moves
<1>6. ASSUME NEW u \in Task, u # t PROVE Quiet(u)
  BY <1>1, <1>2, <1>3, <1>6, MovesElsewhere DEF Quiet
<1>7. Claims(t)'
  BY <1>1, <1>2, <1>3, <1>4 DEF Moves, Claims, At, Claimed, RunAt, InvOf
<1>8. Hidden(t)'
  BY <1>1, <1>2, <1>3, <1>4 DEF Moves, Hidden, At, Holding, Early, OnDisk, ReadyEntry, InvOf
<1>9. Replies(t)'
  <2>1. CASE Open(t)
    <3>1. Open(t)'
      BY <1>1, <1>2, <1>3, <2>1 DEF Moves, Open, At, Passed, RunAt, OnDisk
    <3> QED BY <3>1 DEF Replies
  <2>2. CASE Marking(t)
    BY <1>1, <1>2, <1>3, <2>2 DEF Moves, Marking, At, OnDisk, Early
  <2>3. CASE Shut(t)
    <3>1. Shut(t)'
      BY <1>1, <1>2, <1>3, <2>3 DEF Moves, Shut, At, Holding, OnDisk, ReadyEntry, Early
    <3> QED BY <3>1 DEF Replies
  <2> QED BY <1>4, <2>1, <2>2, <2>3 DEF InvOf, Replies
<1>10. ASSUME t \notin Slow PROVE Untouched(t)' /\ Agreed(t)' /\ SameHome(t)' /\ Kept(t)'
  <2>0. Untouched(t) /\ Agreed(t) /\ SameHome(t) /\ Kept(t)
    BY <1>4, <1>10 DEF InvOf
  <2>1. Untouched(t)'
    BY <1>1, <1>2, <1>3, <1>4, <2>0
    DEF Moves, Untouched, At, Holding, Passed, RunAt, OnDisk, ReadyEntry, Delegating
  <2>2. Agreed(t)'
    BY <1>1, <1>2, <1>3, <1>4, <2>0 DEF Moves, Agreed, At, Holding, OnDisk
  <2>3. SameHome(t)'
    BY <1>1, <1>2, <1>3, <1>4, <2>0 DEF Moves, SameHome, At, Holding, OnDisk
  <2>4. Kept(t)'
    BY <1>1, <1>2, <1>3, <1>4, <2>0 DEF Moves, Kept, At, OnDisk, SameHome, Holding
  <2> QED BY <2>1, <2>2, <2>3, <2>4
<1> QED BY <1>5, <1>6, <1>7, <1>8, <1>9, <1>10, OneTask

\* Nothing to say.
LEMMA ConcludeEmptyKeeps ==
    ASSUME IInv, NEW h \in Handler, ConcludeEmpty(h)
    PROVE  IInv'
<1>1. PICK t \in Task : t = run[h].task
  BY Worker DEF ConcludeEmpty
<1>2. run[h].at = "model" /\ Moves(h, "release")
  BY Goes DEF ConcludeEmpty, RunAt, IInv
<1>3. UNCHANGED <<mem, disk, handling, phase, turn, replies, delivered, crashes, merged, cutShort>>
  BY DEF ConcludeEmpty
<1>4. closed' = closed \cup {t}
  BY <1>1 DEF ConcludeEmpty
<1>5. InvOf(t)
  BY DEF IInv
<1>6. Types' /\ IdleRuns'
  BY <1>1, <1>2, <1>3, <1>4, MovesIdle DEF IInv, TypeOK, Types, Moves
<1>7. ASSUME NEW u \in Task, u # t PROVE Quiet(u)
  BY <1>1, <1>2, <1>3, <1>4, <1>7, MovesElsewhere DEF Quiet
<1>8. Claims(t)'
  BY <1>1, <1>2, <1>3, <1>4, <1>5 DEF Moves, Claims, At, Claimed, RunAt, InvOf
<1>9. Hidden(t)'
  BY <1>1, <1>2, <1>3, <1>4, <1>5 DEF Moves, Hidden, At, Holding, Early, OnDisk, ReadyEntry, InvOf
<1>10. Replies(t)'
  <2>1. CASE Open(t)
    <3>1. Open(t)'
      BY <1>1, <1>2, <1>3, <1>4, <2>1 DEF Moves, Open, At, Passed, RunAt, OnDisk
    <3> QED BY <3>1 DEF Replies
  <2>2. CASE Marking(t)
    BY <1>1, <1>2, <1>3, <1>4, <2>2 DEF Moves, Marking, At, OnDisk, Early
  <2>3. CASE Shut(t)
    <3>1. Shut(t)'
      BY <1>1, <1>2, <1>3, <1>4, <2>3 DEF Moves, Shut, At, Holding, OnDisk, ReadyEntry, Early
    <3> QED BY <3>1 DEF Replies
  <2> QED BY <1>5, <2>1, <2>2, <2>3 DEF InvOf, Replies
<1>11. ASSUME t \notin Slow PROVE Untouched(t)' /\ Agreed(t)' /\ SameHome(t)' /\ Kept(t)'
  <2>0. Untouched(t) /\ Agreed(t) /\ SameHome(t) /\ Kept(t)
    BY <1>5, <1>11 DEF InvOf
  <2>1. Untouched(t)'
    BY <1>1, <1>2, <1>3, <1>4, <1>5, <2>0
    DEF Moves, Untouched, At, Holding, Passed, RunAt, OnDisk, ReadyEntry, Delegating
  <2>2. Agreed(t)'
    BY <1>1, <1>2, <1>3, <1>4, <1>5, <2>0 DEF Moves, Agreed, At, Holding, OnDisk
  <2>3. SameHome(t)'
    BY <1>1, <1>2, <1>3, <1>4, <1>5, <2>0 DEF Moves, SameHome, At, Holding, OnDisk
  <2>4. Kept(t)'
    BY <1>1, <1>2, <1>3, <1>4, <1>5, <2>0 DEF Moves, Kept, At, OnDisk
  <2> QED BY <2>1, <2>2, <2>3, <2>4
<1> QED BY <1>6, <1>7, <1>8, <1>9, <1>10, <1>11, OneTask

\* The claim is released.
LEMMA ReleaseKeeps ==
    ASSUME IInv, NEW h \in Handler, Release(h)
    PROVE  IInv'
<1>1. PICK t \in Task : t = run[h].task
  BY Worker DEF Release
<1>2. run[h].at = "release" /\ Moves(h, "forget")
  BY Goes DEF Release, RunAt, IInv
<1>3. UNCHANGED <<mem, disk, phase, turn, replies, delivered, crashes, merged, closed, cutShort>>
  BY DEF Release
<1>4. handling' = handling \ {t}
  BY <1>1 DEF Release
<1>5. InvOf(t)
  BY DEF IInv
<1>6. Types' /\ IdleRuns'
  BY <1>1, <1>2, <1>3, <1>4, MovesIdle DEF IInv, TypeOK, Types, Moves
<1>7. ASSUME NEW u \in Task, u # t PROVE Quiet(u)
  BY <1>1, <1>2, <1>3, <1>4, <1>7, MovesElsewhere DEF Quiet
<1>8. Claims(t)'
  BY <1>1, <1>2, <1>3, <1>4, <1>5 DEF Moves, Claims, At, Claimed, RunAt, InvOf
<1>9. Hidden(t)'
  BY <1>1, <1>2, <1>3, <1>4, <1>5 DEF Moves, Hidden, At, Holding, Early, OnDisk, ReadyEntry, InvOf
<1>10. Replies(t)'
  <2>1. CASE Open(t)
    <3>1. Open(t)'
      BY <1>1, <1>2, <1>3, <1>4, <2>1 DEF Moves, Open, At, Passed, RunAt, OnDisk
    <3> QED BY <3>1 DEF Replies
  <2>2. CASE Marking(t)
    BY <1>1, <1>2, <1>3, <1>4, <2>2 DEF Moves, Marking, At, OnDisk, Early
  <2>3. CASE Shut(t)
    <3>1. Shut(t)'
      BY <1>1, <1>2, <1>3, <1>4, <2>3 DEF Moves, Shut, At, Holding, OnDisk, ReadyEntry, Early
    <3> QED BY <3>1 DEF Replies
  <2> QED BY <1>5, <2>1, <2>2, <2>3 DEF InvOf, Replies
<1>11. ASSUME t \notin Slow PROVE Untouched(t)' /\ Agreed(t)' /\ SameHome(t)' /\ Kept(t)'
  <2>0. Untouched(t) /\ Agreed(t) /\ SameHome(t) /\ Kept(t)
    BY <1>5, <1>11 DEF InvOf
  <2>1. Untouched(t)'
    BY <1>1, <1>2, <1>3, <1>4, <1>5, <2>0
    DEF Moves, Untouched, At, Holding, Passed, RunAt, OnDisk, ReadyEntry, Delegating
  <2>2. Agreed(t)'
    BY <1>1, <1>2, <1>3, <1>4, <1>5, <2>0 DEF Moves, Agreed, At, Holding, OnDisk
  <2>3. SameHome(t)'
    BY <1>1, <1>2, <1>3, <1>4, <1>5, <2>0 DEF Moves, SameHome, At, Holding, OnDisk
  <2>4. Kept(t)'
    BY <1>1, <1>2, <1>3, <1>4, <1>5, <2>0 DEF Moves, Kept, At, OnDisk
  <2> QED BY <2>1, <2>2, <2>3, <2>4
<1> QED BY <1>6, <1>7, <1>8, <1>9, <1>10, <1>11, OneTask


\* Step 1, from memory.
LEMMA LoadMemoryKeeps ==
    ASSUME IInv, NEW h \in Handler, LoadMemory(h)
    PROVE  IInv'
<1>1. PICK t \in Task : t = run[h].task
  BY Worker DEF LoadMemory
<1>2. ReadyEntry(t) /\ Takes(h, mem[t].slot, mem[t].home)
  BY <1>1, Loads, Parts DEF LoadMemory, ReadyEntry, IInv
<1>3. run[h].at = "load" /\ UNCHANGED <<mem, disk, handling, phase, turn, replies, delivered,
                                        crashes, merged, closed, cutShort>>
  BY DEF LoadMemory
<1>4. mem[t].slot \in Slot
  BY <1>2, Parts DEF IInv, ReadyEntry
<1>5. InvOf(t)
  BY DEF IInv
<1>6. Types' /\ IdleRuns'
  BY <1>1, <1>2, <1>3, <1>4, TakesIdle DEF IInv, TypeOK, Types, Takes
<1>7. ASSUME NEW u \in Task, u # t PROVE Quiet(u)
  BY <1>1, <1>2, <1>3, <1>4, <1>7, TakesElsewhere DEF Quiet
<1>8. Claims(t)'
  BY <1>1, <1>2, <1>3, <1>4, <1>5 DEF Takes, Claims, At, Claimed, RunAt, Slot, InvOf
<1>9. Hidden(t)'
  BY <1>1, <1>2, <1>3, <1>4, <1>5 DEF Takes, Hidden, At, Holding, Early, OnDisk, ReadyEntry, InvOf
<1>10. Replies(t)'
  <2>1. CASE Open(t)
    <3>1. Open(t)'
      BY <1>1, <1>2, <1>3, <1>4, <2>1 DEF Takes, Open, At, Passed, RunAt, OnDisk
    <3> QED BY <3>1 DEF Replies
  <2>2. CASE Marking(t)
    BY <1>1, <1>2, <1>3, <1>4, <2>2 DEF Takes, Marking, At, OnDisk, Early
  <2>3. CASE Shut(t)
    BY <1>1, <1>2, <1>3, <1>4, <2>3 DEF Takes, Shut, At, Holding, OnDisk, ReadyEntry, Early
  <2> QED BY <1>5, <2>1, <2>2, <2>3 DEF InvOf, Replies
<1>11. ASSUME t \notin Slow PROVE Untouched(t)' /\ Agreed(t)' /\ SameHome(t)' /\ Kept(t)'
  <2>0. Untouched(t) /\ Agreed(t) /\ SameHome(t) /\ Kept(t)
    BY <1>5, <1>11 DEF InvOf
  <2>1. Untouched(t)'
    BY <1>1, <1>2, <1>3, <1>4, <1>5, <2>0
    DEF Takes, Untouched, At, Holding, Passed, RunAt, OnDisk, ReadyEntry, Delegating
  <2>2. Agreed(t)'
    BY <1>1, <1>2, <1>3, <1>4, <1>5, <2>0 DEF Takes, Agreed, At, Holding, OnDisk, ReadyEntry
  <2>3. SameHome(t)'
    BY <1>1, <1>2, <1>3, <1>4, <1>5, <2>0
    DEF Takes, SameHome, At, Holding, OnDisk, ReadyEntry, Untouched, Delegating
  <2>4. Kept(t)'
    BY <1>1, <1>2, <1>3, <1>4, <1>5, <2>0 DEF Takes, Kept, At, OnDisk
  <2> QED BY <2>1, <2>2, <2>3, <2>4
<1> QED BY <1>6, <1>7, <1>8, <1>9, <1>10, <1>11, OneTask

\* Step 1b: the phase was free.
LEMMA ConfirmFirstKeeps ==
    ASSUME IInv, NEW h \in Handler, Confirm(h), phase[run[h].task] # "confirmed"
    PROVE  IInv'
<1>1. PICK t \in Task : t = run[h].task
  BY Worker DEF Confirm
<1>2. run[h].at = "confirm" /\ Moves(h, "insert")
  BY <1>1, Goes DEF Confirm, RunAt, IInv
<1>3. phase[t] # "confirmed" /\ phase' = [phase EXCEPT ![t] = "confirmed"]
  BY <1>1 DEF Confirm
<1>4. /\ phase' \in [Task -> {"checkpoint", "restored", "confirmed"}]
      /\ phase'[t] = "confirmed" /\ \A u \in Task : u # t => phase'[u] = phase[u]
  BY <1>3 DEF IInv, TypeOK, Types
<1>5. UNCHANGED <<mem, disk, handling, turn, replies, delivered, crashes, merged, closed, cutShort>>
  BY <1>1, <1>3 DEF Confirm
<1>6. InvOf(t)
  BY DEF IInv
<1>7. Types' /\ IdleRuns'
  BY <1>1, <1>2, <1>3, <1>4, <1>5, MovesIdle DEF IInv, TypeOK, Types, Moves
<1>8. ASSUME NEW u \in Task, u # t PROVE Quiet(u)
  BY <1>1, <1>2, <1>3, <1>4, <1>5, <1>8, MovesElsewhere DEF Quiet
<1>9. Claims(t)'
  BY <1>1, <1>2, <1>3, <1>4, <1>5, <1>6 DEF Moves, Claims, At, Claimed, RunAt, InvOf
<1>10. Hidden(t)'
  BY <1>1, <1>2, <1>3, <1>4, <1>5, <1>6
  DEF Moves, Hidden, At, Holding, Early, OnDisk, ReadyEntry, InvOf
<1>11. Replies(t)'
  <2>1. CASE Open(t)
    <3>1. Open(t)'
      BY <1>1, <1>2, <1>3, <1>4, <1>5, <2>1 DEF Moves, Open, At, Passed, RunAt, OnDisk
    <3> QED BY <3>1 DEF Replies
  <2>2. CASE Marking(t)
    BY <1>1, <1>2, <1>3, <1>4, <1>5, <2>2 DEF Moves, Marking, At, OnDisk, Early
  <2>3. CASE Shut(t)
    BY <1>1, <1>2, <1>3, <1>4, <1>5, <2>3 DEF Moves, Shut, At, Holding, OnDisk, ReadyEntry, Early
  <2> QED BY <1>6, <2>1, <2>2, <2>3 DEF InvOf, Replies
<1>12. ASSUME t \notin Slow PROVE Untouched(t)' /\ Agreed(t)' /\ SameHome(t)' /\ Kept(t)'
  <2>0. Untouched(t) /\ Agreed(t) /\ SameHome(t) /\ Kept(t)
    BY <1>6, <1>12 DEF InvOf
  <2>1. Untouched(t)'
    BY <1>1, <1>2, <1>3, <1>4, <1>5, <1>6, <2>0
    DEF Moves, Untouched, At, Holding, Passed, RunAt, OnDisk, ReadyEntry, Delegating
  <2>2. Agreed(t)'
    BY <1>1, <1>2, <1>3, <1>4, <1>5, <1>6, <2>0 DEF Moves, Agreed, At, Holding, OnDisk
  <2>3. SameHome(t)'
    BY <1>1, <1>2, <1>3, <1>4, <1>5, <1>6, <2>0 DEF Moves, SameHome, At, Holding, OnDisk
  <2>4. Kept(t)'
    BY <1>1, <1>2, <1>3, <1>4, <1>5, <1>6, <2>0 DEF Moves, Kept, At, OnDisk
  <2> QED BY <2>1, <2>2, <2>3, <2>4
<1> QED BY <1>7, <1>8, <1>9, <1>10, <1>11, <1>12, OneTask

\* Step 1b: another handler has the phase.
LEMMA ConfirmSecondKeeps ==
    ASSUME IInv, NEW h \in Handler, Confirm(h), phase[run[h].task] = "confirmed"
    PROVE  IInv'
<1>1. PICK t \in Task : t = run[h].task
  BY Worker DEF Confirm
<1>2. run[h].at = "confirm" /\ Rests(h) /\ handling' = handling \ {t}
  BY <1>1, Idles DEF Confirm, Leave, IInv
<1>3. run'[h].task # t
  BY <1>2, NameAssumption DEF Rests
<1>4. UNCHANGED <<mem, disk, phase, turn, replies, delivered, crashes, merged, closed, cutShort>>
  BY <1>1 DEF Confirm
<1>5. InvOf(t)
  BY DEF IInv
<1>6. Types' /\ IdleRuns'
  BY <1>1, <1>2, <1>3, <1>4, RestsIdle DEF IInv, TypeOK, Types, Rests
<1>7. ASSUME NEW u \in Task, u # t PROVE Quiet(u)
  BY <1>1, <1>2, <1>3, <1>4, <1>7, RestsElsewhere DEF Quiet
<1>8. Claims(t)'
  <2>1. At(h, t, Claimed) /\ Claims(t)
    BY <1>1, <1>2, <1>5 DEF At, Claimed, RunAt, InvOf
  <2> QED BY <1>2, <1>3, <1>4, <2>1, RestsReleases
<1>9. Hidden(t)'
  BY <1>1, <1>2, <1>3, <1>4, <1>5 DEF Rests, Hidden, At, Holding, Early, OnDisk, ReadyEntry, InvOf
<1>10. Replies(t)'
  <2>1. CASE Open(t)
    <3>1. Open(t)'
      BY <1>4, <2>1, RestsAt, <1>2 DEF Open, OnDisk
    <3> QED BY <3>1 DEF Replies
  <2>2. CASE Marking(t)
    BY <1>1, <1>2, <1>3, <1>4, <2>2 DEF Rests, Marking, At, OnDisk, Early
  <2>3. CASE Shut(t)
    BY <1>1, <1>2, <1>3, <1>4, <2>3 DEF Rests, Shut, At, Holding, OnDisk, ReadyEntry, Early
  <2> QED BY <1>5, <2>1, <2>2, <2>3 DEF InvOf, Replies
<1>11. ASSUME t \notin Slow PROVE Untouched(t)' /\ Agreed(t)' /\ SameHome(t)' /\ Kept(t)'
  <2>0. Untouched(t) /\ Agreed(t) /\ SameHome(t) /\ Kept(t)
    BY <1>5, <1>11 DEF InvOf
  <2>1. Untouched(t)'
    BY <1>1, <1>2, <1>3, <1>4, <1>5, <2>0
    DEF Rests, Untouched, At, Holding, Passed, RunAt, OnDisk, ReadyEntry, Delegating
  <2>2. Agreed(t)'
    BY <1>1, <1>2, <1>3, <1>4, <1>5, <2>0 DEF Rests, Agreed, At, Holding, OnDisk
  <2>3. SameHome(t)'
    BY <1>1, <1>2, <1>3, <1>4, <1>5, <2>0 DEF Rests, SameHome, At, Holding, OnDisk
  <2>4. Kept(t)'
    BY <1>1, <1>2, <1>3, <1>4, <1>5, <2>0 DEF Rests, Kept, At, OnDisk
  <2> QED BY <2>1, <2>2, <2>3, <2>4
<1> QED BY <1>6, <1>7, <1>8, <1>9, <1>10, <1>11, OneTask

\* Step 4, memory.
LEMMA WriteBackInsertKeeps ==
    ASSUME IInv, NEW h \in Handler, WriteBackInsert(h)
    PROVE  IInv'
<1>1. PICK t \in Task : t = run[h].task
  BY Worker DEF WriteBackInsert
<1>2. run[h].at = "insert" /\ Moves(h, "write")
  BY Goes DEF WriteBackInsert, RunAt, IInv
<1>3. run[h].result \in Slot /\ run[h].home \in BOOLEAN
  BY DEF IInv, TypeOK, Types, RunType
<1>4. Inserts(t, run[h].result, run[h].home, h)
  BY <1>1, <1>3, Stores DEF WriteBackInsert, IInv
<1>5. UNCHANGED <<disk, handling, phase, turn, replies, delivered, crashes, merged, closed,
                  cutShort>>
  BY DEF WriteBackInsert
<1>6. InvOf(t)
  BY DEF IInv
<1>7. Types' /\ IdleRuns'
  BY <1>1, <1>2, <1>3, <1>4, <1>5, MovesIdle DEF IInv, TypeOK, Types, Moves, Inserts
<1>8. ASSUME NEW u \in Task, u # t PROVE Quiet(u)
  BY <1>1, <1>2, <1>3, <1>4, <1>5, <1>8, MovesElsewhere DEF Quiet, Inserts
<1>9. Claims(t)'
  BY <1>1, <1>2, <1>3, <1>4, <1>5, <1>6 DEF Moves, Inserts, Claims, At, Claimed, RunAt, InvOf
<1>10. Hidden(t)'
  BY <1>1, <1>2, <1>3, <1>4, <1>5, <1>6
  DEF Moves, Inserts, Hidden, At, Holding, Early, OnDisk, ReadyEntry, InvOf
<1>11. Replies(t)'
  <2>1. CASE Open(t)
    <3>1. Open(t)'
      BY <1>1, <1>2, <1>3, <1>4, <1>5, <2>1 DEF Moves, Inserts, Open, At, Passed, RunAt, OnDisk
    <3> QED BY <3>1 DEF Replies
  <2>2. CASE Marking(t)
    BY <1>1, <1>2, <1>3, <1>4, <1>5, <2>2 DEF Moves, Inserts, Marking, At, OnDisk, Early
  <2>3. CASE Shut(t)
    BY <1>1, <1>2, <1>3, <1>4, <1>5, <2>3
    DEF Moves, Inserts, Shut, At, Holding, OnDisk, ReadyEntry, Early
  <2> QED BY <1>6, <2>1, <2>2, <2>3 DEF InvOf, Replies
<1>12. ASSUME t \notin Slow PROVE Untouched(t)' /\ Agreed(t)' /\ SameHome(t)' /\ Kept(t)'
  <2>0. Untouched(t) /\ Agreed(t) /\ SameHome(t) /\ Kept(t)
    BY <1>6, <1>12 DEF InvOf
  <2>1. Untouched(t)'
    BY <1>1, <1>2, <1>3, <1>4, <1>5, <1>6, <2>0
    DEF Moves, Inserts, Untouched, At, Holding, Passed, RunAt, OnDisk, ReadyEntry, Delegating
  <2>2. Agreed(t)'
    BY <1>1, <1>2, <1>3, <1>4, <1>5, <1>6, <2>0
    DEF Moves, Inserts, Agreed, At, Holding, OnDisk, InvOf, Claims, Claimed, RunAt
  <2>3. SameHome(t)'
    BY <1>1, <1>2, <1>3, <1>4, <1>5, <1>6, <2>0
    DEF Moves, Inserts, SameHome, At, Holding, OnDisk, Untouched, Delegating
  <2>4. Kept(t)'
    BY <1>1, <1>2, <1>3, <1>4, <1>5, <1>6, <2>0 DEF Moves, Inserts, Kept, At, OnDisk
  <2> QED BY <2>1, <2>2, <2>3, <2>4
<1> QED BY <1>7, <1>8, <1>9, <1>10, <1>11, <1>12, OneTask

\* Step 4, disk.
LEMMA WriteBackWriteKeeps ==
    ASSUME IInv, NEW h \in Handler, WriteBackWrite(h)
    PROVE  IInv'
<1>1. PICK t \in Task : t = run[h].task
  BY Worker DEF WriteBackWrite
<1>2. run[h].at = "write" /\ Moves(h, "ready")
  BY Goes DEF WriteBackWrite, RunAt, IInv
<1>3. run[h].result \in Slot /\ run[h].home \in BOOLEAN
  BY DEF IInv, TypeOK, Types, RunType
<1>4. Writes(t, run[h].result, run[h].home)
  BY <1>1, <1>3, Stores DEF WriteBackWrite, IInv
<1>5. /\ merged' \in [Task -> Slot]
      /\ merged'[t] = IF merged[t] = Pending THEN run[h].result ELSE merged[t]
      /\ \A u \in Task : u # t => merged'[u] = merged[u]
  BY <1>1, <1>3 DEF WriteBackWrite, IInv, TypeOK, Types
<1>6. UNCHANGED <<mem, handling, phase, turn, replies, delivered, crashes, closed, cutShort>>
  BY DEF WriteBackWrite
<1>7. run[h].result # Pending
  BY <1>1, <1>2, ResultAssumption DEF IInv, InvOf, Claims, Pending
<1>8. InvOf(t)
  BY DEF IInv
<1>9. Types' /\ IdleRuns'
  BY <1>1, <1>2, <1>3, <1>4, <1>5, <1>6, <1>7, MovesIdle DEF IInv, TypeOK, Types, Moves, Writes
<1>10. ASSUME NEW u \in Task, u # t PROVE Quiet(u)
  BY <1>1, <1>2, <1>3, <1>4, <1>5, <1>6, <1>7, <1>10, MovesElsewhere DEF Quiet, Writes
<1>11. Claims(t)'
  BY <1>1, <1>2, <1>3, <1>4, <1>5, <1>6, <1>7, <1>8
  DEF Moves, Writes, Claims, At, Claimed, RunAt, InvOf
<1>12. Hidden(t)'
  BY <1>1, <1>2, <1>3, <1>4, <1>5, <1>6, <1>7, <1>8
  DEF Moves, Writes, Hidden, At, Holding, Early, OnDisk, ReadyEntry, InvOf
<1>13. Replies(t)'
  <2>1. CASE Open(t)
    <3>1. Open(t)'
      BY <1>1, <1>2, <1>3, <1>4, <1>5, <1>6, <1>7, <2>1
      DEF Moves, Writes, Open, At, Passed, RunAt, OnDisk
    <3> QED BY <3>1 DEF Replies
  <2>2. CASE Marking(t)
    BY <1>1, <1>2, <1>3, <1>4, <1>5, <1>6, <1>7, <2>2
    DEF Moves, Writes, Marking, At, OnDisk, Early
  <2>3. CASE Shut(t)
    BY <1>1, <1>2, <1>3, <1>4, <1>5, <1>6, <1>7, <2>3
    DEF Moves, Writes, Shut, At, Holding, OnDisk, ReadyEntry, Early
  <2> QED BY <1>8, <2>1, <2>2, <2>3 DEF InvOf, Replies
<1>14. ASSUME t \notin Slow PROVE Untouched(t)' /\ Agreed(t)' /\ SameHome(t)' /\ Kept(t)'
  <2>0. Untouched(t) /\ Agreed(t) /\ SameHome(t) /\ Kept(t)
    BY <1>8, <1>14 DEF InvOf
  <2>1. Untouched(t)'
    BY <1>1, <1>2, <1>3, <1>4, <1>5, <1>6, <1>7, <1>8, <2>0
    DEF Moves, Writes, Untouched, At, Holding, Passed, RunAt, OnDisk, ReadyEntry, Delegating
  <2>2. Agreed(t)'
    <3>1. replies[t] \in Seq(Result)
      BY DEF IInv, TypeOK, Types
    <3>2. \A i \in DOMAIN replies[t] : replies[t][i] \in Result
      BY <3>1
    <3>3. \A i \in DOMAIN replies[t] : replies[t][i] = merged[t] /\ merged[t] # Pending
      BY <2>0, <3>2, ResultAssumption DEF Agreed, Pending
    <3>4. \A i \in DOMAIN replies'[t] : replies'[t][i] = merged'[t]
      BY <1>5, <1>6, <3>3
    <3>5. \A g \in Handler : At(g, t, Claimed) => g = h
      BY <1>1, <1>2, <1>8 DEF InvOf, Claims, At, Claimed, RunAt
    <3>6. \A g \in Handler : At(g, t, Holding) \/ At(g, t, Holding)' => g = h
      BY <1>2, <3>5 DEF Moves, At, Claimed, RunAt, Holding
    <3>7. run[h].result = merged'[t] /\ merged'[t] # Pending
      BY <1>1, <1>2, <1>5, <1>7, <2>0 DEF Agreed, At, Holding
    <3>8. mem'[t].kind = "entry" => mem'[t].slot = merged'[t]
      BY <1>1, <1>2, <1>6, <3>7, <2>0 DEF Agreed, At
    <3> QED
      BY <1>1, <1>2, <1>4, <3>4, <3>6, <3>7, <3>8 DEF Agreed, Moves, Writes, At, Holding, OnDisk
  <2>3. SameHome(t)'
    BY <1>1, <1>2, <1>3, <1>4, <1>5, <1>6, <1>7, <1>8, <2>0
    DEF Moves, Writes, SameHome, At, Holding, OnDisk
  <2>4. Kept(t)'
    BY <1>1, <1>2, <1>3, <1>4, <1>5, <1>6, <1>7, <1>8, <2>0 DEF Moves, Writes, Kept, At, OnDisk
  <2> QED BY <2>1, <2>2, <2>3, <2>4
<1> QED BY <1>9, <1>10, <1>11, <1>12, <1>13, <1>14, OneTask

\* Step 4, the ready flag.
LEMMA WriteBackReadyKeeps ==
    ASSUME IInv, NEW h \in Handler, WriteBackReady(h)
    PROVE  IInv'
<1>1. PICK t \in Task : t = run[h].task
  BY Worker DEF WriteBackReady
<1>2. run[h].at = "ready" /\ Moves(h, "model")
  BY Goes DEF WriteBackReady, RunAt, IInv
<1>3. MarkReady(t, h)
  BY <1>1 DEF WriteBackReady
<1>4. /\ mem' \in [Task -> Entries \cup {None}] /\ \A u \in Task : u # t => mem'[u] = mem[u]
      /\ mem'[t].kind = mem[t].kind
      /\ mem[t].kind = "entry" => /\ mem'[t].slot = mem[t].slot /\ mem'[t].home = mem[t].home
                                  /\ mem'[t].by = mem[t].by
                                  /\ mem[t].by # h => mem'[t] = mem[t]
  BY <1>3, MarkedReady DEF IInv
<1>5. UNCHANGED <<disk, handling, phase, turn, replies, delivered, crashes, merged, closed,
                  cutShort>>
  BY DEF WriteBackReady
<1>6. InvOf(t)
  BY DEF IInv
<1>7. Types' /\ IdleRuns'
  BY <1>1, <1>2, <1>3, <1>4, <1>5, MovesIdle DEF IInv, TypeOK, Types, Moves
<1>8. ASSUME NEW u \in Task, u # t PROVE Quiet(u)
  BY <1>1, <1>2, <1>3, <1>4, <1>5, <1>8, MovesElsewhere DEF Quiet
<1>9. Claims(t)'
  BY <1>1, <1>2, <1>3, <1>4, <1>5, <1>6 DEF Moves, Claims, At, Claimed, RunAt, InvOf
<1>10. Hidden(t)'
  BY <1>1, <1>2, <1>3, <1>4, <1>5, <1>6
  DEF Moves, Hidden, At, Holding, Early, OnDisk, ReadyEntry, InvOf
<1>11. Replies(t)'
  <2>1. CASE Open(t)
    <3>1. Open(t)'
      BY <1>1, <1>2, <1>3, <1>4, <1>5, <2>1 DEF Moves, Open, At, Passed, RunAt, OnDisk
    <3> QED BY <3>1 DEF Replies
  <2>2. CASE Marking(t)
    BY <1>1, <1>2, <1>3, <1>4, <1>5, <2>2 DEF Moves, Marking, At, OnDisk, Early
  <2>3. CASE Shut(t)
    BY <1>1, <1>2, <1>3, <1>4, <1>5, <2>3 DEF Moves, Shut, At, Holding, OnDisk, ReadyEntry, Early
  <2> QED BY <1>6, <2>1, <2>2, <2>3 DEF InvOf, Replies
<1>12. ASSUME t \notin Slow PROVE Untouched(t)' /\ Agreed(t)' /\ SameHome(t)' /\ Kept(t)'
  <2>0. Untouched(t) /\ Agreed(t) /\ SameHome(t) /\ Kept(t)
    BY <1>6, <1>12 DEF InvOf
  <2>1. Untouched(t)'
    BY <1>1, <1>2, <1>3, <1>4, <1>5, <1>6, <2>0
    DEF Moves, Untouched, At, Holding, Passed, RunAt, OnDisk, ReadyEntry, Delegating
  <2>2. Agreed(t)'
    BY <1>1, <1>2, <1>3, <1>4, <1>5, <1>6, <2>0 DEF Moves, Agreed, At, Holding, OnDisk
  <2>3. SameHome(t)'
    BY <1>1, <1>2, <1>3, <1>4, <1>5, <1>6, <2>0 DEF Moves, SameHome, At, Holding, OnDisk
  <2>4. Kept(t)'
    BY <1>1, <1>2, <1>3, <1>4, <1>5, <1>6, <2>0 DEF Moves, Kept, At, OnDisk
  <2> QED BY <2>1, <2>2, <2>3, <2>4
<1> QED BY <1>7, <1>8, <1>9, <1>10, <1>11, <1>12, OneTask


\* Step 1, from the file.
LEMMA LoadDiskFoundKeeps ==
    ASSUME IInv, NEW h \in Handler, LoadDisk(h), disk[run[h].task].kind = "snapshot"
    PROVE  IInv'
<1>1. PICK t \in Task : t = run[h].task
  BY Worker DEF LoadDisk
<1>2. OnDisk(t) /\ Takes(h, disk[t].slot, disk[t].home)
  BY <1>1, Loads, Parts DEF LoadDisk, OnDisk, IInv
<1>3. run[h].at = "load" /\ ~ReadyEntry(t) /\ (t \in Slow \/ ~Delegating(t))
  BY <1>1 DEF LoadDisk, ReadyEntry
<1>4. UNCHANGED <<mem, disk, handling, phase, turn, replies, delivered, crashes, merged,
                  closed, cutShort>>
  BY <1>1, <1>2 DEF LoadDisk, OnDisk
<1>5. disk[t].slot \in Slot
  BY <1>2, Parts DEF IInv, OnDisk
<1>6. turn[t].at # "none"
  BY <1>1 DEF IInv, InvOf, Claims
<1>7. InvOf(t)
  BY DEF IInv
<1>8. Types' /\ IdleRuns'
  BY <1>1, <1>2, <1>3, <1>4, <1>5, <1>6, TakesIdle DEF IInv, TypeOK, Types, Takes
<1>9. ASSUME NEW u \in Task, u # t PROVE Quiet(u)
  BY <1>1, <1>2, <1>3, <1>4, <1>5, <1>6, <1>9, TakesElsewhere DEF Quiet
<1>10. Claims(t)'
  BY <1>1, <1>2, <1>3, <1>4, <1>5, <1>6, <1>7 DEF Takes, Claims, At, Claimed, RunAt, Slot, InvOf
<1>11. Hidden(t)'
  BY <1>1, <1>2, <1>3, <1>4, <1>5, <1>6, <1>7
  DEF Takes, Hidden, At, Holding, Early, OnDisk, ReadyEntry, InvOf
<1>12. Replies(t)'
  <2>1. CASE Open(t)
    <3>1. Open(t)'
      BY <1>1, <1>2, <1>3, <1>4, <1>5, <1>6, <2>1 DEF Takes, Open, At, Passed, RunAt, OnDisk
    <3> QED BY <3>1 DEF Replies
  <2>2. CASE Marking(t)
    BY <1>1, <1>2, <1>3, <1>4, <1>5, <1>6, <2>2 DEF Takes, Marking, At, OnDisk, Early
  <2>3. CASE Shut(t)
    BY <1>1, <1>2, <1>3, <1>4, <1>5, <1>6, <2>3
    DEF Takes, Shut, At, Holding, OnDisk, ReadyEntry, Early
  <2> QED BY <1>7, <2>1, <2>2, <2>3 DEF InvOf, Replies
<1>13. ASSUME t \notin Slow PROVE Untouched(t)' /\ Agreed(t)' /\ SameHome(t)' /\ Kept(t)'
  <2>0. Untouched(t) /\ Agreed(t) /\ SameHome(t) /\ Kept(t)
    BY <1>7, <1>13 DEF InvOf
  <2>1. Untouched(t)'
    BY <1>1, <1>2, <1>3, <1>4, <1>5, <1>6, <1>7, <2>0, <1>13
    DEF Takes, Untouched, At, Holding, Passed, RunAt, OnDisk, ReadyEntry, Delegating
  <2>2. Agreed(t)'
    BY <1>1, <1>2, <1>3, <1>4, <1>5, <1>6, <1>7, <2>0 DEF Takes, Agreed, At, Holding, OnDisk
  <2>3. SameHome(t)'
    BY <1>1, <1>2, <1>3, <1>4, <1>5, <1>6, <1>7, <2>0 DEF Takes, SameHome, At, Holding, OnDisk
  <2>4. Kept(t)'
    BY <1>1, <1>2, <1>3, <1>4, <1>5, <1>6, <1>7, <2>0 DEF Takes, Kept, At, OnDisk
  <2> QED BY <2>1, <2>2, <2>3, <2>4
<1> QED BY <1>8, <1>9, <1>10, <1>11, <1>12, <1>13, OneTask

\* Step 1, without a file that can be read.
LEMMA LoadDiskMissingKeeps ==
    ASSUME IInv, NEW h \in Handler, LoadDisk(h), disk[run[h].task].kind # "snapshot"
    PROVE  IInv'
<1>1. PICK t \in Task : t = run[h].task
  BY Worker DEF LoadDisk
<1>2. run[h].at = "load" /\ Rests(h) /\ handling' = handling \ {t}
  BY <1>1, Idles DEF LoadDisk, Leave, IInv
<1>3. run'[h].task # t
  BY <1>2, NameAssumption DEF Rests
<1>4. UNCHANGED <<mem, disk, phase, turn, replies, delivered, crashes, merged, closed, cutShort>>
  BY <1>1 DEF LoadDisk
<1>5. InvOf(t)
  BY DEF IInv
<1>6. Types' /\ IdleRuns'
  BY <1>1, <1>2, <1>3, <1>4, RestsIdle DEF IInv, TypeOK, Types, Rests
<1>7. ASSUME NEW u \in Task, u # t PROVE Quiet(u)
  BY <1>1, <1>2, <1>3, <1>4, <1>7, RestsElsewhere DEF Quiet
<1>8. Claims(t)'
  <2>1. At(h, t, Claimed) /\ Claims(t)
    BY <1>1, <1>2, <1>5 DEF At, Claimed, RunAt, InvOf
  <2> QED BY <1>2, <1>3, <1>4, <2>1, RestsReleases
<1>9. Hidden(t)'
  BY <1>1, <1>2, <1>3, <1>4, <1>5 DEF Rests, Hidden, At, Holding, Early, OnDisk, ReadyEntry, InvOf
<1>10. Replies(t)'
  <2>1. CASE Open(t)
    <3>1. Open(t)'
      BY <1>2, <1>4, <2>1, RestsAt DEF Open, OnDisk
    <3> QED BY <3>1 DEF Replies
  <2>2. CASE Marking(t)
    BY <1>1, <1>2, <1>3, <1>4, <2>2 DEF Rests, Marking, At, OnDisk, Early
  <2>3. CASE Shut(t)
    <3>1. Shut(t)'
      BY <1>2, <1>4, <2>3, RestsAt DEF Shut, OnDisk, ReadyEntry, Early
    <3> QED BY <3>1 DEF Replies
  <2> QED BY <1>5, <2>1, <2>2, <2>3 DEF InvOf, Replies
<1>11. ASSUME t \notin Slow PROVE Untouched(t)' /\ Agreed(t)' /\ SameHome(t)' /\ Kept(t)'
  <2>0. Untouched(t) /\ Agreed(t) /\ SameHome(t) /\ Kept(t)
    BY <1>5, <1>11 DEF InvOf
  <2>1. Untouched(t)'
    BY <1>1, <1>2, <1>3, <1>4, <1>5, <2>0
    DEF Rests, Untouched, At, Holding, Passed, RunAt, OnDisk, ReadyEntry, Delegating
  <2>2. Agreed(t)'
    BY <1>1, <1>2, <1>3, <1>4, <1>5, <2>0 DEF Rests, Agreed, At, Holding, OnDisk
  <2>3. SameHome(t)'
    BY <1>1, <1>2, <1>3, <1>4, <1>5, <2>0 DEF Rests, SameHome, At, Holding, OnDisk
  <2>4. Kept(t)'
    BY <1>1, <1>2, <1>3, <1>4, <1>5, <2>0 DEF Rests, Kept, At, OnDisk
  <2> QED BY <2>1, <2>2, <2>3, <2>4
<1> QED BY <1>6, <1>7, <1>8, <1>9, <1>10, <1>11, OneTask

\* Step 6: the reply is in the session.
LEMMA PersistKeeps ==
    ASSUME IInv, NEW h \in Handler, Persist(h)
    PROVE  IInv'
<1>1. PICK t \in Task : t = run[h].task
  BY Worker DEF Persist
<1>2. run[h].at = "persist" /\ Moves(h, "mark")
  BY Goes DEF Persist, RunAt, IInv
<1>3. run[h].result \in Result
  BY <1>1 DEF IInv, InvOf, Claims
<1>4. replies \in [Task -> Seq(Result)] /\ replies' = [replies EXCEPT ![t] = Append(replies[t], run[h].result)]
  BY <1>1 DEF Persist, IInv, TypeOK, Types
<1>5. /\ replies' \in [Task -> Seq(Result)] /\ replies'[t] = Append(replies[t], run[h].result)
      /\ \A u \in Task : u # t => replies'[u] = replies[u]
  BY <1>3, <1>4
<1>6. UNCHANGED <<mem, disk, handling, phase, turn, delivered, crashes, merged, closed, cutShort>>
  BY DEF Persist
<1>7. InvOf(t)
  BY DEF IInv
<1>8. Types' /\ IdleRuns'
  BY <1>1, <1>2, <1>3, <1>4, <1>5, <1>6, MovesIdle DEF IInv, TypeOK, Types, Moves
<1>9. ASSUME NEW u \in Task, u # t PROVE Quiet(u)
  <2>1. /\ \A g \in Handler : run'[g].task = u <=> run[g].task = u
        /\ \A g \in Handler : run[g].task = u => /\ run'[g].at = run[g].at /\ run'[g].home = run[g].home
                                                 /\ run'[g].result = run[g].result
    BY <1>1, <1>2, <1>9, MovesElsewhere
  <2>2. replies'[u] = replies[u]
    BY <1>5, <1>9
  <2> QED BY <1>6, <2>1, <2>2 DEF Quiet
<1>10. Claims(t)'
  BY <1>1, <1>2, <1>3, <1>6, <1>7 DEF Moves, Claims, At, Claimed, RunAt, InvOf
<1>11. Hidden(t)'
  BY <1>1, <1>2, <1>3, <1>6, <1>7 DEF Moves, Hidden, At, Holding, Early, OnDisk, ReadyEntry, InvOf
<1>12. Replies(t)'
  <2>1. CASE Open(t)
    <3>1. Marking(t)'
      <4>1. replies[t] \in Seq(Result) /\ cutShort[t] \in Nat
        BY DEF IInv, TypeOK, Types
      <4>2. Len(replies'[t]) <= 1 + cutShort'[t]
        BY <1>3, <1>5, <1>6, <2>1, <4>1, OneMore DEF Open
      <4>3. run[h].home /\ OnDisk(t) /\ ~disk[t].final /\ mem[t].kind = "entry" /\ mem[t].by = h
        BY <1>1, <1>2, <2>1 DEF Open, At
      <4>4. ~Early(t)
        BY <1>1, <1>2, <1>7, <4>3 DEF InvOf, Hidden, At, Holding
      <4>5. \A g \in Handler : run[g].task = t => g = h
        <5> SUFFICES ASSUME NEW g \in Handler, run[g].task = t PROVE g = h
          OBVIOUS
        <5>1. run[g].at \in RunAt /\ run[g].at # "idle"
          BY NameAssumption DEF IInv, IdleRuns, TypeOK, Types, RunType
        <5>2. At(g, t, Claimed) \/ At(g, t, Passed)
          BY <5>1 DEF At, Claimed, Passed, RunAt
        <5>3. At(h, t, Claimed) /\ At(h, t, Passed)
          BY <1>1, <1>2 DEF At, Claimed, Passed, RunAt
        <5> QED BY <1>7, <2>1, <5>2, <5>3 DEF InvOf, Claims, Open
      <4>6. \A g \in Handler : run'[g].task = t => g = h
        BY <1>1, <1>2, <4>5 DEF Moves
      <4> QED BY <1>1, <1>2, <1>6, <4>2, <4>3, <4>4, <4>6
      DEF Marking, Moves, At, OnDisk, Early, Open, Passed, RunAt
    <3> QED BY <3>1 DEF Replies
  <2>2. CASE Marking(t)
    BY <1>1, <1>2, <1>3, <1>6, <2>2 DEF Moves, Marking, At, OnDisk, Early
  <2>3. CASE Shut(t)
    BY <1>1, <1>2, <1>3, <1>6, <2>3 DEF Moves, Shut, At, Holding, OnDisk, ReadyEntry, Early
  <2> QED BY <1>7, <2>1, <2>2, <2>3 DEF InvOf, Replies
<1>13. ASSUME t \notin Slow PROVE Untouched(t)' /\ Agreed(t)' /\ SameHome(t)' /\ Kept(t)'
  <2>0. Untouched(t) /\ Agreed(t) /\ SameHome(t) /\ Kept(t)
    BY <1>7, <1>13 DEF InvOf
  <2>1. Untouched(t)'
    BY <1>1, <1>2, <1>3, <1>6, <1>7, <2>0
    DEF Moves, Untouched, At, Holding, Passed, RunAt, OnDisk, ReadyEntry, Delegating
  <2>2. Agreed(t)'
    <3>1. replies[t] \in Seq(Result) /\ run[h].result = merged[t]
      BY <1>1, <1>2, <2>0 DEF IInv, TypeOK, Types, Agreed, At, Holding
    <3>2. \A i \in DOMAIN replies'[t] : replies'[t][i] = merged'[t]
      BY <1>3, <1>5, <1>6, <2>0, <3>1, AllStill DEF Agreed
    <3> QED BY <1>1, <1>2, <1>6, <2>0, <3>2 DEF Agreed, Moves, At, Holding, OnDisk
  <2>3. SameHome(t)'
    BY <1>1, <1>2, <1>3, <1>6, <1>7, <2>0 DEF Moves, SameHome, At, Holding, OnDisk
  <2>4. Kept(t)'
    <3>1. replies'[t] # << >>
      BY <1>3, <1>4, <1>5
    <3> QED BY <3>1 DEF Kept
  <2> QED BY <2>1, <2>2, <2>3, <2>4
<1> QED BY <1>8, <1>9, <1>10, <1>11, <1>12, <1>13, OneTask

\* Step 6: the snapshot is marked.
LEMMA MarkKeeps ==
    ASSUME IInv, NEW h \in Handler, Mark(h)
    PROVE  IInv'
<1>1. PICK t \in Task : t = run[h].task
  BY Worker DEF Mark
<1>2. run[h].at = "mark" /\ Moves(h, "send")
  BY Goes DEF Mark, RunAt, IInv
<1>3. /\ disk' \in [Task -> Snapshots \cup {None, Torn}] /\ \A u \in Task : u # t => disk'[u] = disk[u]
      /\ disk'[t].kind = disk[t].kind
      /\ disk[t].kind = "snapshot" => /\ disk'[t].slot = disk[t].slot /\ disk'[t].home = disk[t].home
                                      /\ disk'[t].final
  BY <1>1, MarkedFinal DEF Mark, IInv
<1>4. UNCHANGED <<mem, handling, phase, turn, replies, delivered, crashes, merged, closed,
                  cutShort>>
  BY DEF Mark
<1>5. h # Turn
  BY NameAssumption DEF Turn
<1>6. InvOf(t)
  BY DEF IInv
<1>7. Types' /\ IdleRuns'
  BY <1>1, <1>2, <1>3, <1>4, <1>5, MovesIdle DEF IInv, TypeOK, Types, Moves
<1>8. ASSUME NEW u \in Task, u # t PROVE Quiet(u)
  BY <1>1, <1>2, <1>3, <1>4, <1>5, <1>8, MovesElsewhere DEF Quiet
<1>9. Claims(t)'
  BY <1>1, <1>2, <1>3, <1>4, <1>5, <1>6 DEF Moves, Claims, At, Claimed, RunAt, InvOf
<1>10. Hidden(t)'
  BY <1>1, <1>2, <1>3, <1>4, <1>5, <1>6
  DEF Moves, Hidden, At, Holding, Early, OnDisk, ReadyEntry, InvOf
<1>11. Replies(t)'
  <2>1. CASE Open(t)
    BY <1>1, <1>2, <1>3, <1>4, <1>5, <2>1 DEF Moves, Open, At, Passed, RunAt, OnDisk
  <2>2. CASE Marking(t)
    <3>1. Shut(t)'
      BY <1>1, <1>2, <1>3, <1>4, <1>5, <2>2
      DEF Moves, Shut, At, Holding, OnDisk, ReadyEntry, Early, Marking
    <3> QED BY <3>1 DEF Replies
  <2>3. CASE Shut(t)
    BY <1>1, <1>2, <1>3, <1>4, <1>5, <2>3 DEF Moves, Shut, At, Holding, OnDisk, ReadyEntry, Early
  <2> QED BY <1>6, <2>1, <2>2, <2>3 DEF InvOf, Replies
<1>12. ASSUME t \notin Slow PROVE Untouched(t)' /\ Agreed(t)' /\ SameHome(t)' /\ Kept(t)'
  <2>0. Untouched(t) /\ Agreed(t) /\ SameHome(t) /\ Kept(t)
    BY <1>6, <1>12 DEF InvOf
  <2>1. Untouched(t)'
    BY <1>1, <1>2, <1>3, <1>4, <1>5, <1>6, <2>0
    DEF Moves, Untouched, At, Holding, Passed, RunAt, OnDisk, ReadyEntry, Delegating
  <2>2. Agreed(t)'
    BY <1>1, <1>2, <1>3, <1>4, <1>5, <1>6, <2>0 DEF Moves, Agreed, At, Holding, OnDisk
  <2>3. SameHome(t)'
    BY <1>1, <1>2, <1>3, <1>4, <1>5, <1>6, <2>0 DEF Moves, SameHome, At, Holding, OnDisk
  <2>4. Kept(t)'
    BY <1>1, <1>2, <1>3, <1>4, <1>5, <1>6, <2>0 DEF Moves, Kept, At, OnDisk
  <2> QED BY <2>1, <2>2, <2>3, <2>4
<1> QED BY <1>7, <1>8, <1>9, <1>10, <1>11, <1>12, OneTask

\* Step 7, memory.
LEMMA ForgetKeeps ==
    ASSUME IInv, NEW h \in Handler, Forget(h)
    PROVE  IInv'
<1>1. PICK t \in Task : t = run[h].task
  BY Worker DEF Forget
<1>2. run[h].at = "forget" /\ Moves(h, "erase")
  BY Goes DEF Forget, RunAt, IInv
<1>3. Drops(t)
  BY <1>1, Stores DEF Forget, IInv
<1>4. UNCHANGED <<disk, handling, phase, turn, replies, delivered, crashes, merged, closed,
                  cutShort>>
  BY DEF Forget
<1>5. InvOf(t)
  BY DEF IInv
<1>6. Types' /\ IdleRuns'
  BY <1>1, <1>2, <1>3, <1>4, MovesIdle DEF IInv, TypeOK, Types, Moves, Drops
<1>7. ASSUME NEW u \in Task, u # t PROVE Quiet(u)
  BY <1>1, <1>2, <1>3, <1>4, <1>7, MovesElsewhere DEF Quiet, Drops
<1>8. Claims(t)'
  BY <1>1, <1>2, <1>3, <1>4, <1>5 DEF Moves, Drops, Claims, At, Claimed, RunAt, InvOf
<1>9. Hidden(t)'
  BY <1>1, <1>2, <1>3, <1>4, <1>5
  DEF Moves, Drops, Hidden, At, Holding, Early, OnDisk, ReadyEntry, InvOf
<1>10. Replies(t)'
  <2>1. CASE Open(t)
    <3>1. Open(t)'
      BY <1>1, <1>2, <1>3, <1>4, <2>1 DEF Moves, Drops, Open, At, Passed, RunAt, OnDisk
    <3> QED BY <3>1 DEF Replies
  <2>2. CASE Marking(t)
    BY <1>1, <1>2, <1>3, <1>4, <2>2 DEF Moves, Drops, Marking, At, OnDisk, Early
  <2>3. CASE Shut(t)
    <3>1. Shut(t)'
      BY <1>1, <1>2, <1>3, <1>4, <2>3
      DEF Moves, Drops, Shut, At, Holding, OnDisk, ReadyEntry, Early
    <3> QED BY <3>1 DEF Replies
  <2> QED BY <1>5, <2>1, <2>2, <2>3 DEF InvOf, Replies
<1>11. ASSUME t \notin Slow PROVE Untouched(t)' /\ Agreed(t)' /\ SameHome(t)' /\ Kept(t)'
  <2>0. Untouched(t) /\ Agreed(t) /\ SameHome(t) /\ Kept(t)
    BY <1>5, <1>11 DEF InvOf
  <2>1. Untouched(t)'
    BY <1>1, <1>2, <1>3, <1>4, <1>5, <2>0
    DEF Moves, Drops, Untouched, At, Holding, Passed, RunAt, OnDisk, ReadyEntry, Delegating
  <2>2. Agreed(t)'
    BY <1>1, <1>2, <1>3, <1>4, <1>5, <2>0 DEF Moves, Drops, Agreed, At, Holding, OnDisk
  <2>3. SameHome(t)'
    BY <1>1, <1>2, <1>3, <1>4, <1>5, <2>0 DEF Moves, Drops, SameHome, At, Holding, OnDisk
  <2>4. Kept(t)'
    BY <1>1, <1>2, <1>3, <1>4, <1>5, <2>0 DEF Moves, Drops, Kept, At, OnDisk
  <2> QED BY <2>1, <2>2, <2>3, <2>4
<1> QED BY <1>6, <1>7, <1>8, <1>9, <1>10, <1>11, OneTask

\* Step 7, disk.
LEMMA EraseKeeps ==
    ASSUME IInv, NEW h \in Handler, Erase(h)
    PROVE  IInv'
<1>1. PICK t \in Task : t = run[h].task
  BY Worker DEF Erase
<1>2. run[h].at = "erase" /\ Moves(h, "clear")
  BY Goes DEF Erase, RunAt, IInv
<1>3. Deletes(t)
  BY <1>1, Stores DEF Erase, IInv
<1>4. UNCHANGED <<mem, handling, phase, turn, replies, delivered, crashes, merged, closed,
                  cutShort>>
  BY DEF Erase
<1>5. InvOf(t)
  BY DEF IInv
<1>6. Types' /\ IdleRuns'
  BY <1>1, <1>2, <1>3, <1>4, MovesIdle DEF IInv, TypeOK, Types, Moves, Deletes
<1>7. ASSUME NEW u \in Task, u # t PROVE Quiet(u)
  BY <1>1, <1>2, <1>3, <1>4, <1>7, MovesElsewhere DEF Quiet, Deletes
<1>8. Claims(t)'
  BY <1>1, <1>2, <1>3, <1>4, <1>5 DEF Moves, Deletes, Claims, At, Claimed, RunAt, InvOf
<1>9. Hidden(t)'
  BY <1>1, <1>2, <1>3, <1>4, <1>5
  DEF Moves, Deletes, Hidden, At, Holding, Early, OnDisk, ReadyEntry, InvOf
<1>10. Replies(t)'
  <2>1. CASE Open(t)
    <3>1. Open(t)'
      BY <1>1, <1>2, <1>3, <1>4, <2>1 DEF Moves, Deletes, Open, At, Passed, RunAt, OnDisk
    <3> QED BY <3>1 DEF Replies
  <2>2. CASE Marking(t)
    BY <1>1, <1>2, <1>3, <1>4, <2>2 DEF Moves, Deletes, Marking, At, OnDisk, Early
  <2>3. CASE Shut(t)
    <3>1. Shut(t)'
      BY <1>1, <1>2, <1>3, <1>4, <2>3
      DEF Moves, Deletes, Shut, At, Holding, OnDisk, ReadyEntry, Early
    <3> QED BY <3>1 DEF Replies
  <2> QED BY <1>5, <2>1, <2>2, <2>3 DEF InvOf, Replies
<1>11. ASSUME t \notin Slow PROVE Untouched(t)' /\ Agreed(t)' /\ SameHome(t)' /\ Kept(t)'
  <2>0. Untouched(t) /\ Agreed(t) /\ SameHome(t) /\ Kept(t)
    BY <1>5, <1>11 DEF InvOf
  <2>1. Untouched(t)'
    BY <1>1, <1>2, <1>3, <1>4, <1>5, <2>0
    DEF Moves, Deletes, Untouched, At, Holding, Passed, RunAt, OnDisk, ReadyEntry, Delegating
  <2>2. Agreed(t)'
    BY <1>1, <1>2, <1>3, <1>4, <1>5, <2>0 DEF Moves, Deletes, Agreed, At, Holding, OnDisk
  <2>3. SameHome(t)'
    BY <1>1, <1>2, <1>3, <1>4, <1>5, <2>0 DEF Moves, Deletes, SameHome, At, Holding, OnDisk
  <2>4. Kept(t)'
    BY <1>1, <1>2, <1>3, <1>4, <1>5, <2>0 DEF Moves, Deletes, Kept, At, OnDisk
  <2> QED BY <2>1, <2>2, <2>3, <2>4
<1> QED BY <1>6, <1>7, <1>8, <1>9, <1>10, <1>11, OneTask

\* Step 7, the phase.
LEMMA ClearPhaseKeeps ==
    ASSUME IInv, NEW h \in Handler, ClearPhase(h)
    PROVE  IInv'
<1>1. PICK t \in Task : t = run[h].task
  BY Worker DEF ClearPhase
<1>2. run[h].at = "clear" /\ Rests(h)
  BY <1>1, Idles DEF ClearPhase, IInv
<1>3. run'[h].task # t
  BY <1>2, NameAssumption DEF Rests
<1>4. /\ phase' \in [Task -> {"checkpoint", "restored", "confirmed"}]
      /\ phase'[t] = "checkpoint" /\ \A u \in Task : u # t => phase'[u] = phase[u]
  BY <1>1 DEF ClearPhase, IInv, TypeOK, Types
<1>5. UNCHANGED <<mem, disk, handling, turn, replies, delivered, crashes, merged, closed, cutShort>>
  BY <1>1 DEF ClearPhase
<1>6. InvOf(t)
  BY DEF IInv
<1>7. Types' /\ IdleRuns'
  BY <1>1, <1>2, <1>3, <1>4, <1>5, RestsIdle DEF IInv, TypeOK, Types, Rests
<1>8. ASSUME NEW u \in Task, u # t PROVE Quiet(u)
  BY <1>1, <1>2, <1>3, <1>4, <1>5, <1>8, RestsElsewhere DEF Quiet
<1>9. Claims(t)'
  <2>1. ~At(h, t, Claimed)
    BY <1>2 DEF At, Claimed
  <2> QED BY <1>2, <1>3, <1>5, <1>6, <2>1, RestsAt DEF Claims, InvOf
<1>10. Hidden(t)'
  BY <1>1, <1>2, <1>3, <1>5, <1>6 DEF Rests, Hidden, At, Holding, Early, OnDisk, ReadyEntry, InvOf
<1>11. Replies(t)'
  <2>1. CASE Open(t)
    <3>1. Open(t)'
      <4>1. At(h, t, Passed)
        BY <1>1, <1>2 DEF At, Passed, RunAt
      <4>2. \A g \in Handler : ~At(g, t, Passed)'
        BY <1>2, <2>1, <4>1, RestsAt DEF Open
      <4>3. \A g \in Handler : At(g, t, {"write", "ready", "model", "nested", "persist"})'
                                   \/ At(g, t, {"ready", "model", "nested", "persist"})' => At(g, t, Passed)'
        BY DEF At, Passed, RunAt
      <4> QED BY <1>2, <1>5, <2>1, <4>2, <4>3, RestsAt DEF Open, OnDisk
    <3> QED BY <3>1 DEF Replies
  <2>2. CASE Marking(t)
    BY <1>1, <1>2, <1>3, <1>5, <2>2 DEF Rests, Marking, At, OnDisk, Early
  <2>3. CASE Shut(t)
    <3>1. Shut(t)'
      BY <1>2, <1>5, <2>3, RestsAt DEF Shut, OnDisk, ReadyEntry, Early
    <3> QED BY <3>1 DEF Replies
  <2> QED BY <1>6, <2>1, <2>2, <2>3 DEF InvOf, Replies
<1>12. ASSUME t \notin Slow PROVE Untouched(t)' /\ Agreed(t)' /\ SameHome(t)' /\ Kept(t)'
  <2>0. Untouched(t) /\ Agreed(t) /\ SameHome(t) /\ Kept(t)
    BY <1>6, <1>12 DEF InvOf
  <2>1. Untouched(t)'
    BY <1>1, <1>2, <1>3, <1>5, <1>6, <2>0
    DEF Rests, Untouched, At, Holding, Passed, RunAt, OnDisk, ReadyEntry, Delegating
  <2>2. Agreed(t)'
    BY <1>1, <1>2, <1>3, <1>5, <1>6, <2>0 DEF Rests, Agreed, At, Holding, OnDisk
  <2>3. SameHome(t)'
    BY <1>1, <1>2, <1>3, <1>5, <1>6, <2>0 DEF Rests, SameHome, At, Holding, OnDisk
  <2>4. Kept(t)'
    BY <1>1, <1>2, <1>3, <1>5, <1>6, <2>0 DEF Rests, Kept, At, OnDisk
  <2> QED BY <2>1, <2>2, <2>3, <2>4
<1> QED BY <1>7, <1>8, <1>9, <1>10, <1>11, <1>12, OneTask


-------------------------------------------------------------------------------
(* The steps of the turn that delegates, and the clean-up of old files.    *)

\* TurnAt, as a change of the turn's record.
LEMMA TurnGoes ==
    ASSUME TypeOK, NEW t \in Task, NEW s \in TurnStage, TurnAt(t, s)
    PROVE  /\ turn' \in [Task -> [at : TurnStage, home : BOOLEAN]]
           /\ turn'[t].at = s /\ turn'[t].home = turn[t].home
           /\ \A u \in Task : u # t => turn'[u] = turn[u]
<1> DEFINE r == [turn[t] EXCEPT !.at = s]
<1>1. turn \in [Task -> [at : TurnStage, home : BOOLEAN]]
  BY DEF TypeOK, Types
<1>2. r \in [at : TurnStage, home : BOOLEAN] /\ r.at = s /\ r.home = turn[t].home
  BY <1>1
<1>3. turn' = [turn EXCEPT ![t] = r]
  BY <1>1 DEF TurnAt
<1> HIDE DEF r
<1> QED BY <1>1, <1>2, <1>3

\* The peer has the task.
LEMMA AcceptedKeeps ==
    ASSUME IInv, NEW t \in Task, Accepted(t)
    PROVE  IInv'
<1>1. turn[t].at = "calling" /\ TurnAt(t, "acked")
  BY DEF Accepted
<1>2. /\ turn' \in [Task -> [at : TurnStage, home : BOOLEAN]]
      /\ turn'[t].at = "acked" /\ turn'[t].home = turn[t].home
      /\ \A u \in Task : u # t => turn'[u] = turn[u]
  BY <1>1, TurnGoes DEF TurnStage, IInv
<1>3. UNCHANGED <<run, mem, disk, handling, phase, replies, delivered, crashes, merged,
                  closed, cutShort>>
  BY DEF Accepted
<1>4. InvOf(t)
  BY DEF IInv
<1>5. Types' /\ IdleRuns'
  BY <1>1, <1>2, <1>3 DEF IInv, IdleRuns, TypeOK, Types
<1>6. ASSUME NEW u \in Task, u # t PROVE Quiet(u)
  BY <1>1, <1>2, <1>3, <1>6 DEF Quiet
<1>7. Claims(t)'
  BY <1>1, <1>2, <1>3, <1>4 DEF Claims, At, Claimed, RunAt, InvOf
<1>8. Hidden(t)'
  BY <1>1, <1>2, <1>3, <1>4 DEF Hidden, At, Holding, Early, OnDisk, ReadyEntry, InvOf
<1>9. Replies(t)'
  <2>1. CASE Open(t)
    <3>1. Open(t)'
      BY <1>1, <1>2, <1>3, <2>1 DEF Open, At, Passed, RunAt, OnDisk
    <3> QED BY <3>1 DEF Replies
  <2>2. CASE Marking(t)
    BY <1>1, <1>2, <1>3, <2>2 DEF Marking, At, OnDisk, Early
  <2>3. CASE Shut(t)
    BY <1>1, <1>2, <1>3, <2>3 DEF Shut, At, Holding, OnDisk, ReadyEntry, Early
  <2> QED BY <1>4, <2>1, <2>2, <2>3 DEF InvOf, Replies
<1>10. ASSUME t \notin Slow PROVE Untouched(t)' /\ Agreed(t)' /\ SameHome(t)' /\ Kept(t)'
  <2>0. Untouched(t) /\ Agreed(t) /\ SameHome(t) /\ Kept(t)
    BY <1>4, <1>10 DEF InvOf
  <2>1. Untouched(t)'
    BY <1>1, <1>2, <1>3, <1>4, <2>0
    DEF Untouched, At, Holding, Passed, RunAt, OnDisk, ReadyEntry, Delegating
  <2>2. Agreed(t)'
    BY <1>1, <1>2, <1>3, <1>4, <2>0 DEF Agreed, At, Holding, OnDisk
  <2>3. SameHome(t)'
    BY <1>1, <1>2, <1>3, <1>4, <2>0 DEF SameHome, At, Holding, OnDisk
  <2>4. Kept(t)'
    BY <1>1, <1>2, <1>3, <1>4, <2>0 DEF Kept, At, OnDisk
  <2> QED BY <2>1, <2>2, <2>3, <2>4
<1> QED BY <1>5, <1>6, <1>7, <1>8, <1>9, <1>10, OneTask

\* The peer may have the task.
LEMMA RequestLostKeeps ==
    ASSUME IInv, NEW t \in Task, RequestLost(t)
    PROVE  IInv'
<1>1. turn[t].at = "calling" /\ TurnAt(t, "lost")
  BY DEF RequestLost
<1>2. /\ turn' \in [Task -> [at : TurnStage, home : BOOLEAN]]
      /\ turn'[t].at = "lost" /\ turn'[t].home = turn[t].home
      /\ \A u \in Task : u # t => turn'[u] = turn[u]
  BY <1>1, TurnGoes DEF TurnStage, IInv
<1>3. UNCHANGED <<run, mem, disk, handling, phase, replies, delivered, crashes, merged,
                  closed, cutShort>>
  BY DEF RequestLost
<1>4. InvOf(t)
  BY DEF IInv
<1>5. Types' /\ IdleRuns'
  BY <1>1, <1>2, <1>3 DEF IInv, IdleRuns, TypeOK, Types
<1>6. ASSUME NEW u \in Task, u # t PROVE Quiet(u)
  BY <1>1, <1>2, <1>3, <1>6 DEF Quiet
<1>7. Claims(t)'
  BY <1>1, <1>2, <1>3, <1>4 DEF Claims, At, Claimed, RunAt, InvOf
<1>8. Hidden(t)'
  BY <1>1, <1>2, <1>3, <1>4 DEF Hidden, At, Holding, Early, OnDisk, ReadyEntry, InvOf
<1>9. Replies(t)'
  <2>1. CASE Open(t)
    <3>1. Open(t)'
      BY <1>1, <1>2, <1>3, <2>1 DEF Open, At, Passed, RunAt, OnDisk
    <3> QED BY <3>1 DEF Replies
  <2>2. CASE Marking(t)
    BY <1>1, <1>2, <1>3, <2>2 DEF Marking, At, OnDisk, Early
  <2>3. CASE Shut(t)
    BY <1>1, <1>2, <1>3, <2>3 DEF Shut, At, Holding, OnDisk, ReadyEntry, Early
  <2> QED BY <1>4, <2>1, <2>2, <2>3 DEF InvOf, Replies
<1>10. ASSUME t \notin Slow PROVE Untouched(t)' /\ Agreed(t)' /\ SameHome(t)' /\ Kept(t)'
  <2>0. Untouched(t) /\ Agreed(t) /\ SameHome(t) /\ Kept(t)
    BY <1>4, <1>10 DEF InvOf
  <2>1. Untouched(t)'
    BY <1>1, <1>2, <1>3, <1>4, <2>0
    DEF Untouched, At, Holding, Passed, RunAt, OnDisk, ReadyEntry, Delegating
  <2>2. Agreed(t)'
    BY <1>1, <1>2, <1>3, <1>4, <2>0 DEF Agreed, At, Holding, OnDisk
  <2>3. SameHome(t)'
    BY <1>1, <1>2, <1>3, <1>4, <2>0 DEF SameHome, At, Holding, OnDisk
  <2>4. Kept(t)'
    BY <1>1, <1>2, <1>3, <1>4, <2>0 DEF Kept, At, OnDisk
  <2> QED BY <2>1, <2>2, <2>3, <2>4
<1> QED BY <1>5, <1>6, <1>7, <1>8, <1>9, <1>10, OneTask

\* The peer does not have the task.
LEMMA RefusedKeeps ==
    ASSUME IInv, NEW t \in Task, Refused(t)
    PROVE  IInv'
<1>1. turn[t].at = "calling" /\ TurnAt(t, "refused")
  BY DEF Refused
<1>2. /\ turn' \in [Task -> [at : TurnStage, home : BOOLEAN]]
      /\ turn'[t].at = "refused" /\ turn'[t].home = turn[t].home
      /\ \A u \in Task : u # t => turn'[u] = turn[u]
  BY <1>1, TurnGoes DEF TurnStage, IInv
<1>3. Deletes(t) /\ delivered[t] = 0
  BY Stores DEF Refused, IInv
<1>4. UNCHANGED <<run, mem, handling, phase, replies, delivered, crashes, merged, closed, cutShort>>
  BY DEF Refused
<1>5. \A h \in Handler : run[h].task # t
  BY <1>3 DEF IInv, InvOf, Claims
<1>6. InvOf(t)
  BY DEF IInv
<1>7. Types' /\ IdleRuns'
  BY <1>1, <1>2, <1>3, <1>4, <1>5 DEF IInv, IdleRuns, TypeOK, Types, Deletes
<1>8. ASSUME NEW u \in Task, u # t PROVE Quiet(u)
  BY <1>1, <1>2, <1>3, <1>4, <1>5, <1>8 DEF Quiet, Deletes
<1>9. Claims(t)'
  BY <1>1, <1>2, <1>3, <1>4, <1>5, <1>6 DEF Deletes, Claims, At, Claimed, RunAt, InvOf
<1>10. Hidden(t)'
  BY <1>1, <1>2, <1>3, <1>4, <1>5, <1>6
  DEF Deletes, Hidden, At, Holding, Early, OnDisk, ReadyEntry, InvOf
<1>11. Replies(t)'
  <2>1. CASE Open(t)
    <3>1. Open(t)'
      BY <1>1, <1>2, <1>3, <1>4, <1>5, <2>1 DEF Deletes, Open, At, Passed, RunAt, OnDisk
    <3> QED BY <3>1 DEF Replies
  <2>2. CASE Marking(t)
    BY <1>1, <1>2, <1>3, <1>4, <1>5, <2>2 DEF Deletes, Marking, At, OnDisk, Early
  <2>3. CASE Shut(t)
    BY <1>1, <1>2, <1>3, <1>4, <1>5, <2>3
    DEF Deletes, Shut, At, Holding, OnDisk, ReadyEntry, Early
  <2> QED BY <1>6, <2>1, <2>2, <2>3 DEF InvOf, Replies
<1>12. ASSUME t \notin Slow PROVE Untouched(t)' /\ Agreed(t)' /\ SameHome(t)' /\ Kept(t)'
  <2>0. Untouched(t) /\ Agreed(t) /\ SameHome(t) /\ Kept(t)
    BY <1>6, <1>12 DEF InvOf
  <2>1. Untouched(t)'
    BY <1>1, <1>2, <1>3, <1>4, <1>5, <1>6, <2>0
    DEF Deletes, Untouched, At, Holding, Passed, RunAt, OnDisk, ReadyEntry, Delegating
  <2>2. Agreed(t)'
    BY <1>1, <1>2, <1>3, <1>4, <1>5, <1>6, <2>0 DEF Deletes, Agreed, At, Holding, OnDisk
  <2>3. SameHome(t)'
    BY <1>1, <1>2, <1>3, <1>4, <1>5, <1>6, <2>0 DEF Deletes, SameHome, At, Holding, OnDisk
  <2>4. Kept(t)'
    BY <1>1, <1>2, <1>3, <1>4, <1>5, <1>6, <2>0 DEF Deletes, Kept, At, OnDisk
  <2> QED BY <2>1, <2>2, <2>3, <2>4
<1> QED BY <1>7, <1>8, <1>9, <1>10, <1>11, <1>12, OneTask

\* The snapshot of the turn, memory.
LEMMA SaveInsertKeeps ==
    ASSUME IInv, NEW t \in Task, SaveInsert(t)
    PROVE  IInv'
<1>1. turn[t].at = "acked" /\ TurnAt(t, "inserted")
  BY DEF SaveInsert
<1>2. /\ turn' \in [Task -> [at : TurnStage, home : BOOLEAN]]
      /\ turn'[t].at = "inserted" /\ turn'[t].home = turn[t].home
      /\ \A u \in Task : u # t => turn'[u] = turn[u]
  BY <1>1, TurnGoes DEF TurnStage, IInv
<1>3. Pending \in Slot /\ turn[t].home \in BOOLEAN
  BY DEF IInv, IdleRuns, TypeOK, Types, Slot
<1>4. Inserts(t, Pending, turn[t].home, Turn)
  BY <1>3, Stores DEF SaveInsert, IInv
<1>5. UNCHANGED <<run, disk, handling, phase, replies, delivered, crashes, merged, closed,
                  cutShort>>
  BY DEF SaveInsert
<1>6. Turn \notin Handler
  BY NameAssumption DEF Turn
<1>7. InvOf(t)
  BY DEF IInv
<1>8. Types' /\ IdleRuns'
  BY <1>1, <1>2, <1>3, <1>4, <1>5, <1>6 DEF IInv, IdleRuns, TypeOK, Types, Inserts
<1>9. ASSUME NEW u \in Task, u # t PROVE Quiet(u)
  BY <1>1, <1>2, <1>3, <1>4, <1>5, <1>6, <1>9 DEF Quiet, Inserts
<1>10. Claims(t)'
  BY <1>1, <1>2, <1>3, <1>4, <1>5, <1>6, <1>7 DEF Inserts, Claims, At, Claimed, RunAt, InvOf
<1>11. Hidden(t)'
  BY <1>1, <1>2, <1>3, <1>4, <1>5, <1>6, <1>7
  DEF Inserts, Hidden, At, Holding, Early, OnDisk, ReadyEntry, InvOf
<1>12. Replies(t)'
  <2>1. CASE Open(t)
    <3>1. Open(t)'
      BY <1>1, <1>2, <1>3, <1>4, <1>5, <1>6, <2>1, <1>7
      DEF Inserts, Open, At, Passed, RunAt, OnDisk, InvOf, Hidden, Early, Holding
    <3> QED BY <3>1 DEF Replies
  <2>2. CASE Marking(t)
    BY <1>1, <1>2, <1>3, <1>4, <1>5, <1>6, <2>2 DEF Inserts, Marking, At, OnDisk, Early
  <2>3. CASE Shut(t)
    BY <1>1, <1>2, <1>3, <1>4, <1>5, <1>6, <2>3
    DEF Inserts, Shut, At, Holding, OnDisk, ReadyEntry, Early
  <2> QED BY <1>7, <2>1, <2>2, <2>3 DEF InvOf, Replies
<1>13. ASSUME t \notin Slow PROVE Untouched(t)' /\ Agreed(t)' /\ SameHome(t)' /\ Kept(t)'
  <2>0. Untouched(t) /\ Agreed(t) /\ SameHome(t) /\ Kept(t)
    BY <1>7, <1>13 DEF InvOf
  <2>1. Untouched(t)'
    BY <1>1, <1>2, <1>3, <1>4, <1>5, <1>6, <1>7, <2>0
    DEF Inserts, Untouched, At, Holding, Passed, RunAt, OnDisk, ReadyEntry, Delegating
  <2>2. Agreed(t)'
    BY <1>1, <1>2, <1>3, <1>4, <1>5, <1>6, <1>7, <2>0
    DEF Inserts, Agreed, At, Holding, OnDisk, Untouched, Delegating
  <2>3. SameHome(t)'
    BY <1>1, <1>2, <1>3, <1>4, <1>5, <1>6, <1>7, <2>0 DEF Inserts, SameHome, At, Holding, OnDisk
  <2>4. Kept(t)'
    BY <1>1, <1>2, <1>3, <1>4, <1>5, <1>6, <1>7, <2>0 DEF Inserts, Kept, At, OnDisk
  <2> QED BY <2>1, <2>2, <2>3, <2>4
<1> QED BY <1>8, <1>9, <1>10, <1>11, <1>12, <1>13, OneTask

\* The snapshot of the turn, disk.
LEMMA SaveWriteKeeps ==
    ASSUME IInv, NEW t \in Task, SaveWrite(t)
    PROVE  IInv'
<1>1. turn[t].at = "inserted" /\ TurnAt(t, "written")
  BY DEF SaveWrite
<1>2. /\ turn' \in [Task -> [at : TurnStage, home : BOOLEAN]]
      /\ turn'[t].at = "written" /\ turn'[t].home = turn[t].home
      /\ \A u \in Task : u # t => turn'[u] = turn[u]
  BY <1>1, TurnGoes DEF TurnStage, IInv
<1>3. Pending \in Slot /\ turn[t].home \in BOOLEAN
  BY DEF IInv, IdleRuns, TypeOK, Types, Slot
<1>4. Writes(t, Pending, turn[t].home)
  BY <1>3, Stores DEF SaveWrite, IInv
<1>5. UNCHANGED <<run, mem, handling, phase, replies, delivered, crashes, merged, closed, cutShort>>
  BY DEF SaveWrite
<1>6. InvOf(t)
  BY DEF IInv
<1>7. Types' /\ IdleRuns'
  BY <1>1, <1>2, <1>3, <1>4, <1>5 DEF IInv, IdleRuns, TypeOK, Types, Writes
<1>8. ASSUME NEW u \in Task, u # t PROVE Quiet(u)
  BY <1>1, <1>2, <1>3, <1>4, <1>5, <1>8 DEF Quiet, Writes
<1>9. Claims(t)'
  BY <1>1, <1>2, <1>3, <1>4, <1>5, <1>6 DEF Writes, Claims, At, Claimed, RunAt, InvOf
<1>10. Hidden(t)'
  BY <1>1, <1>2, <1>3, <1>4, <1>5, <1>6
  DEF Writes, Hidden, At, Holding, Early, OnDisk, ReadyEntry, InvOf
<1>11. Replies(t)'
  <2>1. CASE Open(t)
    <3>1. Open(t)'
      BY <1>1, <1>2, <1>3, <1>4, <1>5, <2>1 DEF Writes, Open, At, Passed, RunAt, OnDisk
    <3> QED BY <3>1 DEF Replies
  <2>2. CASE Marking(t)
    BY <1>1, <1>2, <1>3, <1>4, <1>5, <2>2 DEF Writes, Marking, At, OnDisk, Early
  <2>3. CASE Shut(t)
    BY <1>1, <1>2, <1>3, <1>4, <1>5, <2>3 DEF Writes, Shut, At, Holding, OnDisk, ReadyEntry, Early
  <2> QED BY <1>6, <2>1, <2>2, <2>3 DEF InvOf, Replies
<1>12. ASSUME t \notin Slow PROVE Untouched(t)' /\ Agreed(t)' /\ SameHome(t)' /\ Kept(t)'
  <2>0. Untouched(t) /\ Agreed(t) /\ SameHome(t) /\ Kept(t)
    BY <1>6, <1>12 DEF InvOf
  <2>1. Untouched(t)'
    BY <1>1, <1>2, <1>3, <1>4, <1>5, <1>6, <2>0
    DEF Writes, Untouched, At, Holding, Passed, RunAt, OnDisk, ReadyEntry, Delegating
  <2>2. Agreed(t)'
    BY <1>1, <1>2, <1>3, <1>4, <1>5, <1>6, <2>0
    DEF Writes, Agreed, At, Holding, OnDisk, Untouched, Delegating
  <2>3. SameHome(t)'
    BY <1>1, <1>2, <1>3, <1>4, <1>5, <1>6, <2>0
    DEF Writes, SameHome, At, Holding, OnDisk, Untouched, Delegating
  <2>4. Kept(t)'
    BY <1>1, <1>2, <1>3, <1>4, <1>5, <1>6, <2>0
    DEF Writes, Kept, At, OnDisk, Untouched, Delegating, Passed, RunAt
  <2> QED BY <2>1, <2>2, <2>3, <2>4
<1> QED BY <1>7, <1>8, <1>9, <1>10, <1>11, <1>12, OneTask

\* The snapshot of the turn, the ready flag.
LEMMA SaveReadyKeeps ==
    ASSUME IInv, NEW t \in Task, SaveReady(t)
    PROVE  IInv'
<1>1. turn[t].at = "written" /\ TurnAt(t, "saved")
  BY DEF SaveReady
<1>2. /\ turn' \in [Task -> [at : TurnStage, home : BOOLEAN]]
      /\ turn'[t].at = "saved" /\ turn'[t].home = turn[t].home
      /\ \A u \in Task : u # t => turn'[u] = turn[u]
  BY <1>1, TurnGoes DEF TurnStage, IInv
<1>3. /\ mem' \in [Task -> Entries \cup {None}] /\ \A u \in Task : u # t => mem'[u] = mem[u]
      /\ mem'[t].kind = mem[t].kind
      /\ mem[t].kind = "entry" => /\ mem'[t].slot = mem[t].slot /\ mem'[t].home = mem[t].home
                                  /\ mem'[t].by = mem[t].by
                                  /\ mem[t].by # Turn => mem'[t] = mem[t]
  BY MarkedReady DEF SaveReady, IInv
<1>4. UNCHANGED <<run, disk, handling, phase, replies, delivered, crashes, merged, closed,
                  cutShort>>
  BY DEF SaveReady
<1>5. InvOf(t)
  BY DEF IInv
<1>6. Types' /\ IdleRuns'
  BY <1>1, <1>2, <1>3, <1>4 DEF IInv, IdleRuns, TypeOK, Types
<1>7. ASSUME NEW u \in Task, u # t PROVE Quiet(u)
  BY <1>1, <1>2, <1>3, <1>4, <1>7 DEF Quiet
<1>8. Claims(t)'
  BY <1>1, <1>2, <1>3, <1>4, <1>5 DEF Claims, At, Claimed, RunAt, InvOf
<1>9. Hidden(t)'
  BY <1>1, <1>2, <1>3, <1>4, <1>5 DEF Hidden, At, Holding, Early, OnDisk, ReadyEntry, InvOf
<1>10. Replies(t)'
  <2>1. CASE Open(t)
    <3>1. Open(t)'
      BY <1>1, <1>2, <1>3, <1>4, <2>1 DEF Open, At, Passed, RunAt, OnDisk
    <3> QED BY <3>1 DEF Replies
  <2>2. CASE Marking(t)
    <3>1. Marking(t)'
      BY <1>1, <1>2, <1>3, <1>4, <2>2 DEF Marking, At, OnDisk, Early
    <3> QED BY <3>1 DEF Replies
  <2>3. CASE Shut(t)
    <3>1. Shut(t)'
      BY <1>1, <1>2, <1>3, <1>4, <2>3 DEF Shut, At, Holding, OnDisk, ReadyEntry, Early
    <3> QED BY <3>1 DEF Replies
  <2> QED BY <1>5, <2>1, <2>2, <2>3 DEF InvOf, Replies
<1>11. ASSUME t \notin Slow PROVE Untouched(t)' /\ Agreed(t)' /\ SameHome(t)' /\ Kept(t)'
  <2>0. Untouched(t) /\ Agreed(t) /\ SameHome(t) /\ Kept(t)
    BY <1>5, <1>11 DEF InvOf
  <2>1. Untouched(t)'
    BY <1>1, <1>2, <1>3, <1>4, <1>5, <2>0
    DEF Untouched, At, Holding, Passed, RunAt, OnDisk, ReadyEntry, Delegating
  <2>2. Agreed(t)'
    BY <1>1, <1>2, <1>3, <1>4, <1>5, <2>0 DEF Agreed, At, Holding, OnDisk
  <2>3. SameHome(t)'
    BY <1>1, <1>2, <1>3, <1>4, <1>5, <2>0 DEF SameHome, At, Holding, OnDisk
  <2>4. Kept(t)'
    BY <1>1, <1>2, <1>3, <1>4, <1>5, <2>0 DEF Kept, At, OnDisk
  <2> QED BY <2>1, <2>2, <2>3, <2>4
<1> QED BY <1>6, <1>7, <1>8, <1>9, <1>10, <1>11, OneTask

\* The seven days are over.
LEMMA CleanupOldKeeps ==
    ASSUME IInv, NEW t \in Task, CleanupOld(t)
    PROVE  IInv'
<1>1. Drops(t) /\ Deletes(t)
  BY Stores DEF CleanupOld, IInv
<1>2. closed' = closed \cup {t} /\ ~Delegating(t) /\ \A h \in Handler : run[h].task # t
  BY DEF CleanupOld
<1>3. UNCHANGED <<run, handling, phase, turn, replies, delivered, crashes, merged, cutShort>>
  BY DEF CleanupOld
<1>4. InvOf(t)
  BY DEF IInv
<1>5. Types' /\ IdleRuns'
  BY <1>1, <1>2, <1>3 DEF IInv, IdleRuns, TypeOK, Types, Drops, Deletes
<1>6. ASSUME NEW u \in Task, u # t PROVE Quiet(u)
  BY <1>1, <1>2, <1>3, <1>6 DEF Quiet, Drops, Deletes
<1>7. Claims(t)'
  BY <1>1, <1>2, <1>3, <1>4 DEF Drops, Deletes, Claims, At, Claimed, RunAt, InvOf
<1>8. Hidden(t)'
  BY <1>1, <1>2, <1>3, <1>4
  DEF Drops, Deletes, Hidden, At, Holding, Early, OnDisk, ReadyEntry, InvOf
<1>9. Replies(t)'
  <2>1. CASE Open(t)
    <3>1. Open(t)'
      BY <1>1, <1>2, <1>3, <2>1 DEF Drops, Deletes, Open, At, Passed, RunAt, OnDisk
    <3> QED BY <3>1 DEF Replies
  <2>2. CASE Marking(t)
    BY <1>1, <1>2, <1>3, <2>2 DEF Drops, Deletes, Marking, At, OnDisk, Early
  <2>3. CASE Shut(t)
    <3>1. Shut(t)'
      BY <1>1, <1>2, <1>3, <2>3 DEF Drops, Deletes, Shut, At, Holding, OnDisk, ReadyEntry, Early
    <3> QED BY <3>1 DEF Replies
  <2> QED BY <1>4, <2>1, <2>2, <2>3 DEF InvOf, Replies
<1>10. ASSUME t \notin Slow PROVE Untouched(t)' /\ Agreed(t)' /\ SameHome(t)' /\ Kept(t)'
  <2>0. Untouched(t) /\ Agreed(t) /\ SameHome(t) /\ Kept(t)
    BY <1>4, <1>10 DEF InvOf
  <2>1. Untouched(t)'
    BY <1>1, <1>2, <1>3, <1>4, <2>0
    DEF Drops, Deletes, Untouched, At, Holding, Passed, RunAt, OnDisk, ReadyEntry, Delegating
  <2>2. Agreed(t)'
    BY <1>1, <1>2, <1>3, <1>4, <2>0 DEF Drops, Deletes, Agreed, At, Holding, OnDisk
  <2>3. SameHome(t)'
    BY <1>1, <1>2, <1>3, <1>4, <2>0 DEF Drops, Deletes, SameHome, At, Holding, OnDisk
  <2>4. Kept(t)'
    BY <1>1, <1>2, <1>3, <1>4, <2>0 DEF Drops, Deletes, Kept, At, OnDisk
  <2> QED BY <2>1, <2>2, <2>3, <2>4
<1> QED BY <1>5, <1>6, <1>7, <1>8, <1>9, <1>10, OneTask


-------------------------------------------------------------------------------
(* Deliveries and dispatches.                                             *)

\* Handler h, idle so far, works on a delivery.
Claiming(h, t, r) ==
    /\ run' \in [Handler -> RunType]
    /\ run'[h].at = "gate" /\ run'[h].task = t /\ run'[h].result = r
    /\ \A g \in Handler : g # h => run'[g] = run[g]

\* Claim, as a change of the handler's record.
LEMMA NewClaim ==
    ASSUME TypeOK, NEW h \in Handler, NEW t \in Task, NEW r \in Result,
           run' = [run EXCEPT ![h] = [IdleRun EXCEPT !.at = "gate", !.task = t, !.result = r]]
    PROVE  Claiming(h, t, r)
<1> DEFINE e == [IdleRun EXCEPT !.at = "gate", !.task = t, !.result = r]
<1>1. run \in [Handler -> RunType]
  BY DEF TypeOK, Types
<1>2. e \in RunType /\ e.at = "gate" /\ e.task = t /\ e.result = r
  BY DEF IdleRun, RunType, RunAt, Slot
<1>3. run' = [run EXCEPT ![h] = e]
  OBVIOUS
<1> HIDE DEF e
<1> QED BY <1>1, <1>2, <1>3 DEF Claiming

\* A delivery counts.
LEMMA Counted ==
    ASSUME NEW n \in Nat
    PROVE  n + 1 \in Nat /\ n + 1 # 0
OBVIOUS

\* A delivery that finds the task claimed.
LEMMA DeliverDroppedKeeps ==
    ASSUME IInv, NEW h \in Handler, NEW t \in Task, NEW r \in Result, Deliver(h, t, r), t \in handling
    PROVE  IInv'
<1>1. delivered \in [Task -> Nat] /\ delivered' = [delivered EXCEPT ![t] = delivered[t] + 1]
  BY DEF Deliver, IInv, TypeOK, Types
<1>2. /\ delivered' \in [Task -> Nat] /\ delivered'[t] # 0
      /\ \A u \in Task : u # t => delivered'[u] = delivered[u]
  BY <1>1, Counted
<1>3. delivered'[t] # 0
  BY <1>2
<1>4. turn[t].at \notin {"none", "refused"} /\ UNCHANGED <<run, mem, disk, handling, phase,
                                                           turn, replies, crashes, merged, closed, cutShort>>
  BY DEF Deliver, Claim
<1>5. InvOf(t)
  BY DEF IInv
<1>6. Types' /\ IdleRuns'
  BY <1>1, <1>2, <1>3, <1>4 DEF IInv, IdleRuns, TypeOK, Types
<1>7. ASSUME NEW u \in Task, u # t PROVE Quiet(u)
  BY <1>1, <1>2, <1>3, <1>4, <1>7 DEF Quiet
<1>8. Claims(t)'
  BY <1>3, <1>4, <1>5 DEF Claims, At, Claimed, RunAt, InvOf
<1>9. Hidden(t)'
  BY <1>3, <1>4, <1>5 DEF Hidden, At, Holding, Early, OnDisk, ReadyEntry, InvOf
<1>10. Replies(t)'
  <2>1. CASE Open(t)
    <3>1. Open(t)'
      BY <1>3, <1>4, <2>1 DEF Open, At, Passed, RunAt, OnDisk
    <3> QED BY <3>1 DEF Replies
  <2>2. CASE Marking(t)
    <3>1. Marking(t)'
      BY <1>3, <1>4, <2>2 DEF Marking, At, OnDisk, Early
    <3> QED BY <3>1 DEF Replies
  <2>3. CASE Shut(t)
    <3>1. Shut(t)'
      BY <1>3, <1>4, <2>3 DEF Shut, At, Holding, OnDisk, ReadyEntry, Early
    <3> QED BY <3>1 DEF Replies
  <2> QED BY <1>5, <2>1, <2>2, <2>3 DEF InvOf, Replies
<1>11. ASSUME t \notin Slow PROVE Untouched(t)' /\ Agreed(t)' /\ SameHome(t)' /\ Kept(t)'
  <2>0. Untouched(t) /\ Agreed(t) /\ SameHome(t) /\ Kept(t)
    BY <1>5, <1>11 DEF InvOf
  <2>1. Untouched(t)'
    BY <1>3, <1>4, <1>5, <2>0
    DEF Untouched, At, Holding, Passed, RunAt, OnDisk, ReadyEntry, Delegating
  <2>2. Agreed(t)'
    BY <1>3, <1>4, <1>5, <2>0 DEF Agreed, At, Holding, OnDisk
  <2>3. SameHome(t)'
    BY <1>3, <1>4, <1>5, <2>0 DEF SameHome, At, Holding, OnDisk
  <2>4. Kept(t)'
    BY <1>3, <1>4, <1>5, <2>0 DEF Kept, At, OnDisk
  <2> QED BY <2>1, <2>2, <2>3, <2>4
<1> QED BY <1>6, <1>7, <1>8, <1>9, <1>10, <1>11, OneTask

\* A delivery that claims the task.
LEMMA DeliverClaimedKeeps ==
    ASSUME IInv, NEW h \in Handler, NEW t \in Task, NEW r \in Result, Deliver(h, t, r), t \notin handling
    PROVE  IInv'
<1>1. delivered \in [Task -> Nat] /\ delivered' = [delivered EXCEPT ![t] = delivered[t] + 1]
  BY DEF Deliver, IInv, TypeOK, Types
<1>2. /\ delivered' \in [Task -> Nat] /\ delivered'[t] # 0
      /\ \A u \in Task : u # t => delivered'[u] = delivered[u]
  BY <1>1, Counted
<1>3. delivered'[t] # 0
  BY <1>2
<1>4. turn[t].at \notin {"none", "refused"} /\ run[h].at = "idle" /\ UNCHANGED <<mem, disk,
                                                                                 phase, turn, replies, crashes, merged, closed, cutShort>>
  BY DEF Deliver, Claim
<1>5. Claiming(h, t, r) /\ handling' = handling \cup {t}
  BY NewClaim DEF Deliver, Claim, IInv
<1>6. \A g \in Handler : ~At(g, t, Claimed)
  BY DEF IInv, InvOf, Claims
<1>7. run[h].task = "" /\ run[h].task # t
  BY <1>4, NameAssumption DEF IInv, IdleRuns
<1>8. InvOf(t)
  BY DEF IInv
<1>9. Types' /\ IdleRuns'
  <2>1. Types'
    BY <1>2, <1>4, <1>5 DEF IInv, TypeOK, Types, Claiming
  <2>2. IdleRuns'
    BY <1>5, NameAssumption DEF IInv, IdleRuns, Claiming
  <2> QED BY <2>1, <2>2
<1>10. ASSUME NEW u \in Task, u # t PROVE Quiet(u)
  <2>1. \A g \in Handler : g # h => run'[g] = run[g]
    BY <1>5 DEF Claiming
  <2>2. run[h].task # u /\ run'[h].task # u
    BY <1>5, <1>7, <1>10, NameAssumption DEF Claiming
  <2>3. /\ \A g \in Handler : run'[g].task = u <=> run[g].task = u
        /\ \A g \in Handler : run[g].task = u => /\ run'[g].at = run[g].at /\ run'[g].home = run[g].home
                                                 /\ run'[g].result = run[g].result
    BY <2>1, <2>2
  <2>4. delivered'[u] = delivered[u] /\ (u \in handling' <=> u \in handling)
    BY <1>2, <1>5, <1>10
  <2> QED BY <1>4, <2>3, <2>4 DEF Quiet
<1>11. Claims(t)'
  <2>1. At(h, t, Claimed)' /\ run'[h].result \in Result
    BY <1>5 DEF Claiming, At, Claimed, RunAt
  <2>2. \A g \in Handler : g # h => run'[g] = run[g] /\ ~At(g, t, Claimed)'
    BY <1>5, <1>6 DEF Claiming, At
  <2>3. ASSUME NEW g \in Handler, run'[g].task = t PROVE run'[g].result \in Result
    BY <1>8, <2>1, <2>2, <2>3 DEF InvOf, Claims
  <2> QED BY <1>3, <1>4, <1>5, <2>1, <2>2, <2>3 DEF Claims
<1>12. Hidden(t)'
  BY <1>3, <1>4, <1>5, <1>6, <1>7, <1>8
  DEF Claiming, Hidden, At, Holding, Early, OnDisk, ReadyEntry, InvOf
<1>13. Replies(t)'
  <2>1. CASE Open(t)
    <3>1. Open(t)'
      <4>1. \A S : \A g \in Handler : g # h => (At(g, t, S)' <=> At(g, t, S)) /\ run'[g] = run[g]
        BY <1>5 DEF Claiming, At
      <4>2. /\ ~At(h, t, Passed)' /\ ~At(h, t, {"mark"})' /\ ~At(h, t, {"persist"})'
            /\ ~At(h, t, {"ready", "model", "nested", "persist"})'
            /\ ~At(h, t, {"write", "ready", "model", "nested", "persist"})'
        BY <1>5 DEF Claiming, At, Passed
      <4> QED BY <1>4, <2>1, <4>1, <4>2 DEF Open, OnDisk
    <3> QED BY <3>1 DEF Replies
  <2>2. CASE Marking(t)
    BY <1>3, <1>4, <1>5, <1>6, <1>7, <2>2 DEF Claiming, Marking, At, OnDisk, Early, Claimed, RunAt
  <2>3. CASE Shut(t)
    <3>1. Shut(t)'
      BY <1>3, <1>4, <1>5, <1>6, <1>7, <2>3
      DEF Claiming, Shut, At, Holding, OnDisk, ReadyEntry, Early
    <3> QED BY <3>1 DEF Replies
  <2> QED BY <1>8, <2>1, <2>2, <2>3 DEF InvOf, Replies
<1>14. ASSUME t \notin Slow PROVE Untouched(t)' /\ Agreed(t)' /\ SameHome(t)' /\ Kept(t)'
  <2>0. Untouched(t) /\ Agreed(t) /\ SameHome(t) /\ Kept(t)
    BY <1>8, <1>14 DEF InvOf
  <2>1. Untouched(t)'
    BY <1>3, <1>4, <1>5, <1>6, <1>7, <1>8, <2>0
    DEF Claiming, Untouched, At, Holding, Passed, RunAt, OnDisk, ReadyEntry, Delegating
  <2>2. Agreed(t)'
    <3>1. \A g \in Handler : g # h => run'[g] = run[g]
      BY <1>5 DEF Claiming
    <3>2. run'[h].at = "gate"
      BY <1>5 DEF Claiming
    <3> QED BY <1>4, <2>0, <3>1, <3>2 DEF Agreed, At, Holding, OnDisk
  <2>3. SameHome(t)'
    BY <1>3, <1>4, <1>5, <1>6, <1>7, <1>8, <2>0 DEF Claiming, SameHome, At, Holding, OnDisk
  <2>4. Kept(t)'
    BY <1>3, <1>4, <1>5, <1>6, <1>7, <1>8, <2>0 DEF Claiming, Kept, At, OnDisk
  <2> QED BY <2>1, <2>2, <2>3, <2>4
<1> QED BY <1>9, <1>10, <1>11, <1>12, <1>13, <1>14, OneTask


\* The snapshot of a turn that has just dispatched its task.
LEMMA DispatchKeeps ==
    ASSUME IInv, NEW u \in Task, NEW home \in BOOLEAN, Dispatch(u, home),
           UNCHANGED <<mem, handling, phase, replies, delivered, crashes, merged, closed,
                       cutShort>>,
           \A h \in Handler : run'[h].task = run[h].task
    PROVE  /\ turn' \in [Task -> [at : TurnStage, home : BOOLEAN]]
           /\ \A v \in Task : v # u => turn'[v] = turn[v]
           /\ Writes(u, Pending, FALSE)
           /\ delivered[u] = 0
           /\ InvOf(u)'
<1>1. turn[u].at = "none" /\ turn' = [turn EXCEPT ![u] = [at |-> "calling", home |-> home]]
  BY DEF Dispatch
<1>2. [at |-> "calling", home |-> home] \in [at : TurnStage, home : BOOLEAN]
  BY DEF TurnStage
<1>3. /\ turn' \in [Task -> [at : TurnStage, home : BOOLEAN]] /\ turn'[u].at = "calling"
      /\ \A v \in Task : v # u => turn'[v] = turn[v]
  BY <1>1, <1>2 DEF IInv, TypeOK, Types
<1>4. Writes(u, Pending, FALSE)
  BY Stores DEF Dispatch, Slot, IInv
<1>5. InvOf(u)
  BY DEF IInv
<1>6. delivered[u] = 0 /\ \A h \in Handler : run[h].task # u /\ run'[h].task # u
  BY <1>1, <1>5 DEF InvOf, Claims
<1>7. Claims(u)'
  BY <1>3, <1>5, <1>6 DEF InvOf, Claims, At
<1>8. Hidden(u)'
  BY <1>1, <1>4, <1>5, <1>6 DEF InvOf, Hidden, At, Writes, Early, ReadyEntry
<1>9. Replies(u)'
  <2>1. Open(u)
    BY <1>1, <1>5 DEF InvOf, Replies, Marking, Shut, Early
  <2>2. Open(u)'
    BY <1>4, <1>6, <2>1 DEF Open, At, Writes
  <2> QED BY <2>2 DEF Replies
<1>10. ASSUME u \notin Slow PROVE Untouched(u)' /\ Agreed(u)' /\ SameHome(u)' /\ Kept(u)'
  <2>1. Untouched(u) /\ Agreed(u) /\ SameHome(u) /\ Kept(u)
    BY <1>5, <1>10 DEF InvOf
  <2>2. Untouched(u)'
    BY <1>1, <1>3, <1>4, <1>6, <2>1 DEF Untouched, At, Writes, ReadyEntry
  <2>3. Agreed(u)'
    BY <1>1, <1>4, <1>6, <2>1 DEF Untouched, Agreed, At, Writes
  <2>4. SameHome(u)' /\ Kept(u)'
    BY <1>3 DEF SameHome, Kept
  <2> QED BY <2>2, <2>3, <2>4
<1> QED BY <1>3, <1>4, <1>6, <1>7, <1>8, <1>9, <1>10 DEF InvOf

\* A user's turn delegates.
LEMMA UserDispatchKeeps ==
    ASSUME IInv, NEW u \in Task, UserDispatch(u)
    PROVE  IInv'
<1>1. /\ Dispatch(u, TRUE)
      /\ UNCHANGED <<mem, handling, phase, run, replies, delivered, crashes, merged, closed,
                     cutShort>>
  BY DEF UserDispatch
<1>2. /\ turn' \in [Task -> [at : TurnStage, home : BOOLEAN]]
      /\ \A v \in Task : v # u => turn'[v] = turn[v]
      /\ Writes(u, Pending, FALSE)
      /\ InvOf(u)'
  BY <1>1, DispatchKeeps
<1>3. Types' /\ IdleRuns'
  BY <1>1, <1>2 DEF IInv, IdleRuns, TypeOK, Types, Writes
<1>4. ASSUME NEW v \in Task, v # u PROVE InvOf(v)'
  <2>1. Quiet(v)
    BY <1>1, <1>2, <1>4 DEF Quiet, Writes
  <2> QED BY <2>1, QuietKeeps DEF IInv
<1> QED BY <1>2, <1>3, <1>4, Frame

\* A handler's turn delegates once more: the handler is inside the model's turn
\* as before, and the other task is dispatched.
LEMMA DelegateKeeps ==
    ASSUME IInv, NEW h \in Handler, NEW u \in Task, Delegate(h, u)
    PROVE  IInv'
<1>1. PICK t \in Task : t = run[h].task
  BY Worker DEF Delegate
<1>2. run[h].at = "model" /\ Moves(h, "nested")
  BY Nests DEF Delegate, RunAt, IInv
<1>3. /\ Dispatch(u, run[h].home) /\ run[h].home \in BOOLEAN
      /\ UNCHANGED <<mem, handling, phase, replies, delivered, crashes, merged, closed, cutShort>>
  BY DEF Delegate, IInv, TypeOK, Types, RunType
<1>4. \A g \in Handler : run'[g].task = run[g].task
  BY <1>2 DEF Moves
<1>5. /\ turn' \in [Task -> [at : TurnStage, home : BOOLEAN]]
      /\ \A v \in Task : v # u => turn'[v] = turn[v]
      /\ Writes(u, Pending, FALSE)
      /\ delivered[u] = 0
      /\ InvOf(u)'
  BY <1>3, <1>4, DispatchKeeps
<1>6. Types' /\ IdleRuns'
  BY <1>2, <1>3, <1>5, MovesIdle DEF IInv, TypeOK, Types, Writes, Moves
<1>7. ASSUME NEW v \in Task, v # u, v # t PROVE InvOf(v)'
  <2>1. Quiet(v)
    BY <1>1, <1>2, <1>3, <1>5, <1>7, MovesElsewhere DEF Quiet, Writes
  <2> QED BY <2>1, QuietKeeps DEF IInv
<1>8. InvOf(t) /\ t # u
  BY <1>1, <1>5 DEF IInv, InvOf, Claims
<1>9. /\ mem'[t] = mem[t] /\ disk'[t] = disk[t] /\ turn'[t] = turn[t]
      /\ UNCHANGED <<handling, phase, replies, delivered, crashes, merged, closed, cutShort>>
  BY <1>3, <1>5, <1>8 DEF Writes
<1>10. InvOf(t)'
  <2>1. Claims(t)'
    BY <1>1, <1>2, <1>8, <1>9 DEF InvOf, Claims, Moves, At, Claimed, RunAt
  <2>2. Hidden(t)'
    BY <1>1, <1>2, <1>8, <1>9 DEF InvOf, Hidden, Moves, At, Holding, Early, OnDisk, ReadyEntry
  <2>3. Replies(t)'
    <3>1. Open(t)
      BY <1>1, <1>2, <1>8 DEF InvOf, Replies, Marking, Shut, At, Holding
    <3>2. Open(t)'
      BY <1>1, <1>2, <1>9, <3>1 DEF Open, Moves, At, Passed, RunAt, OnDisk
    <3> QED BY <3>2 DEF Replies
  <2>4. ASSUME t \notin Slow PROVE Untouched(t)' /\ Agreed(t)' /\ SameHome(t)' /\ Kept(t)'
    <3>1. Untouched(t) /\ Agreed(t) /\ SameHome(t) /\ Kept(t)
      BY <1>8, <2>4 DEF InvOf
    <3>2. Untouched(t)'
      BY <1>1, <1>2, <1>9, <3>1
      DEF Untouched, Moves, At, Holding, Passed, RunAt, OnDisk, ReadyEntry, Delegating
    <3>3. Agreed(t)'
      BY <1>1, <1>2, <1>9, <3>1 DEF Agreed, Moves, At, Holding, OnDisk
    <3>4. SameHome(t)'
      BY <1>1, <1>2, <1>9, <3>1 DEF SameHome, Moves, At, Holding, OnDisk
    <3>5. Kept(t)'
      BY <1>1, <1>2, <1>9, <3>1 DEF Kept, Moves, At, OnDisk
    <3> QED BY <3>2, <3>3, <3>4, <3>5
  <2> QED BY <2>1, <2>2, <2>3, <2>4 DEF InvOf
<1>11. \A v \in Task : InvOf(v)'
  BY <1>5, <1>7, <1>10
<1> QED BY <1>6, <1>11, Frame

-------------------------------------------------------------------------------
(* Crash.                                                                  *)

\* The handlers that a crash catches between a reply and its mark can be counted.
LEMMA Caught ==
    ASSUME NEW t
    PROVE  /\ Cardinality({h \in Handler : run[h].task = t /\ run[h].at = "mark"}) \in Nat
           /\ (\E h \in Handler : At(h, t, {"mark"}))
                 => Cardinality({h \in Handler : run[h].task = t /\ run[h].at = "mark"}) # 0
<1> DEFINE S == {h \in Handler : run[h].task = t /\ run[h].at = "mark"}
<1>1. IsFiniteSet(S)
  <2>1. S \subseteq Handler /\ IsFiniteSet(Handler)
    BY NameAssumption
  <2> HIDE DEF S
  <2> QED BY <2>1, FS_Subset
<1>2. (\E h \in Handler : At(h, t, {"mark"})) => S # {}
  BY DEF At
<1> HIDE DEF S
<1>3. Cardinality(S) \in Nat /\ (S # {} => Cardinality(S) # 0)
  BY <1>1, FS_CardinalityType, FS_EmptySet
<1> QED BY <1>2, <1>3 DEF S

\* The replies that the crashes excuse.
LEMMA Excused ==
    ASSUME NEW n \in Nat, NEW c \in Nat, NEW d \in Nat
    PROVE  /\ c + d \in Nat
           /\ n <= c => n <= c + d
           /\ n <= 1 + c => n <= 1 + (c + d)
           /\ n <= 1 + c /\ d # 0 => n <= c + d
OBVIOUS

\* Crashes are counted up to their bound.
LEMMA OneCrash ==
    ASSUME NEW n \in 0..MaxCrash, n < MaxCrash
    PROVE  n + 1 \in 0..MaxCrash /\ n + 1 # 0
BY BoundAssumption

\* What a crash leaves of a task.
CrashedAt(t) ==
    /\ disk'[t] = disk[t] \/ disk'[t] = Torn
    /\ OnDisk(t)' => /\ disk'[t] = disk[t] /\ OnDisk(t)
                     /\ mem'[t].kind = "entry" /\ mem'[t].by = Turn
                     /\ mem'[t].slot = disk[t].slot /\ mem'[t].home = disk[t].home
    /\ ~OnDisk(t)' => mem'[t].kind = "none"
    /\ \/ turn'[t] = turn[t] /\ ~Delegating(t)
       \/ turn'[t].home = turn[t].home /\ turn'[t].at = "saved" /\ turn[t].at = "written"
       \/ turn'[t].home = turn[t].home /\ turn'[t].at = "crashed" /\ Delegating(t)
    /\ cutShort'[t] = cutShort[t] + Cardinality({h \in Handler : run[h].task = t /\ run[h].at = "mark"})

\* Crash, as a change of each task.
LEMMA CrashEffect ==
    ASSUME IInv, Crash
    PROVE  /\ Types' /\ IdleRuns' /\ crashes' # 0 /\ handling' = {}
           /\ \A h \in Handler : run'[h] = IdleRun
           /\ UNCHANGED <<replies, delivered, merged, closed>>
           /\ \A t \in Task : CrashedAt(t)
<1>1. TypeOK /\ Types
  BY DEF IInv, TypeOK
<1>2. PICK cut \in SUBSET {t \in Task : Writing(t)} :
         disk' = [t \in Task |-> IF t \in cut THEN Torn ELSE disk[t]]
  BY DEF Crash
<1>3. /\ disk' \in [Task -> Snapshots \cup {None, Torn}]
      /\ \A t \in Task : disk'[t] = disk[t] \/ disk'[t] = Torn
  BY <1>1, <1>2 DEF Types
<1>4. \A t \in Task : disk'[t].kind = "snapshot" => disk'[t] = disk[t] /\ disk[t].kind = "snapshot"
  BY <1>3, Shapes
<1>5. mem' = [t \in Task |-> IF disk'[t].kind = "snapshot"
                             THEN Entry(disk'[t].slot, disk'[t].home, Turn, TRUE) ELSE None]
  BY DEF Crash, Recovered
<1>6. ASSUME NEW t \in Task
      PROVE  /\ mem'[t] \in Entries \cup {None}
             /\ disk'[t].kind = "snapshot" => /\ mem'[t].kind = "entry" /\ mem'[t].by = Turn
                                              /\ mem'[t].slot = disk[t].slot /\ mem'[t].home = disk[t].home
             /\ disk'[t].kind # "snapshot" => mem'[t].kind = "none"
  <2>1. CASE disk'[t].kind = "snapshot"
    <3>1. disk'[t] = disk[t] /\ disk[t].slot \in Slot /\ disk[t].home \in BOOLEAN
      BY <1>1, <1>4, <2>1, Parts
    <3>2. mem'[t] = Entry(disk[t].slot, disk[t].home, Turn, TRUE)
      BY <1>5, <2>1, <3>1
    <3>3. Entry(disk[t].slot, disk[t].home, Turn, TRUE) \in Entries \cup {None}
      BY <3>1, MadeValues
    <3> QED BY <2>1, <3>2, <3>3 DEF Entry
  <2>2. CASE disk'[t].kind # "snapshot"
    BY <1>5, <2>2, MadeValues, Shapes
  <2> QED BY <2>1, <2>2
<1>7. mem' \in [Task -> Entries \cup {None}]
  BY <1>5, <1>6
<1>8. phase' \in [Task -> {"checkpoint", "restored", "confirmed"}]
  BY DEF Crash
<1>9. ASSUME NEW t \in Task
      PROVE  /\ turn'[t] \in [at : TurnStage, home : BOOLEAN]
             /\ \/ turn'[t] = turn[t] /\ ~Delegating(t)
                \/ turn'[t].home = turn[t].home /\ turn'[t].at = "saved" /\ turn[t].at = "written"
                \/ turn'[t].home = turn[t].home /\ turn'[t].at = "crashed" /\ Delegating(t)
  <2>1. turn[t] \in [at : TurnStage, home : BOOLEAN]
    BY <1>1 DEF Types
  <2>2. turn'[t] = IF ~Delegating(t) THEN turn[t]
                   ELSE [turn[t] EXCEPT !.at = IF turn[t].at = "written" THEN "saved" ELSE "crashed"]
    BY DEF Crash
  <2>3. CASE ~Delegating(t)
    BY <2>1, <2>2, <2>3
  <2>4. CASE Delegating(t) /\ turn[t].at = "written"
    BY <2>1, <2>2, <2>4 DEF TurnStage
  <2>5. CASE Delegating(t) /\ turn[t].at # "written"
    BY <2>1, <2>2, <2>5 DEF TurnStage
  <2> QED BY <2>3, <2>4, <2>5
<1>10. turn' \in [Task -> [at : TurnStage, home : BOOLEAN]]
  <2>1. \E f : turn' = [t \in Task |-> f[t]]
    <3>1. turn' = [t \in Task |-> turn'[t]]
      BY DEF Crash
    <3> QED BY <3>1
  <2> QED BY <1>9, <2>1
<1>11. IdleRun \in RunType /\ IdleRun.at = "idle" /\ IdleRun.task = ""
  BY DEF IdleRun, RunType, RunAt, Slot
<1>12. run' \in [Handler -> RunType] /\ \A h \in Handler : run'[h] = IdleRun
  BY <1>11 DEF Crash
<1>13. cutShort' = [t \in Task |->
          cutShort[t] + Cardinality({h \in Handler : run[h].task = t /\ run[h].at = "mark"})]
  BY DEF Crash
<1>14. \A t \in Task : cutShort[t] + Cardinality({h \in Handler : run[h].task = t /\ run[h].at = "mark"}) \in Nat
  <2>1. ASSUME NEW t \in Task
        PROVE  cutShort[t] + Cardinality({h \in Handler : run[h].task = t /\ run[h].at = "mark"}) \in Nat
    <3>1. cutShort[t] \in Nat
      BY <1>1 DEF Types
    <3>2. Cardinality({h \in Handler : run[h].task = t /\ run[h].at = "mark"}) \in Nat
      BY Caught
    <3> QED BY <3>1, <3>2
  <2> QED BY <2>1
<1>15. cutShort' \in [Task -> Nat]
  BY <1>13, <1>14
<1>16. crashes' \in 0..MaxCrash /\ crashes' # 0
  BY <1>1, OneCrash DEF Crash, Types
<1>17. handling' = {} /\ UNCHANGED <<replies, delivered, merged, closed>>
  BY DEF Crash
<1>18. Types'
  BY <1>1, <1>3, <1>7, <1>8, <1>10, <1>12, <1>15, <1>16, <1>17 DEF Types
<1>19. IdleRuns'
  BY <1>11, <1>12 DEF IdleRuns
<1>20. ASSUME NEW t \in Task PROVE CrashedAt(t)
  BY <1>3, <1>4, <1>6, <1>9, <1>13 DEF CrashedAt, OnDisk
<1> QED BY <1>12, <1>16, <1>17, <1>18, <1>19, <1>20

\* A crash at any point keeps the invariant.
LEMMA CrashKeeps ==
    ASSUME IInv, Crash
    PROVE  IInv'
<1>1. /\ Types' /\ IdleRuns' /\ crashes' # 0 /\ handling' = {}
      /\ \A h \in Handler : run'[h] = IdleRun
      /\ UNCHANGED <<replies, delivered, merged, closed>>
      /\ \A t \in Task : CrashedAt(t)
  BY CrashEffect
<1>2. ASSUME NEW t \in Task PROVE InvOf(t)'
  <2>1. InvOf(t) /\ CrashedAt(t)
    BY <1>1 DEF IInv
  <2>2. \A h \in Handler : run'[h].task # t
    <3>1. IdleRun.task = ""
      BY DEF IdleRun
    <3> QED BY <1>1, <3>1, NameAssumption
  <2>3. Claims(t)'
    BY <1>1, <2>1, <2>2 DEF InvOf, Claims, CrashedAt, At
  <2>4. Early(t)' => Early(t) /\ turn[t].at = "none" /\ turn'[t].at = "none"
    BY <2>1 DEF CrashedAt, Early, Delegating
  <2>5. Hidden(t)'
    BY <2>1, <2>2, <2>4 DEF InvOf, Hidden, CrashedAt, At, OnDisk, ReadyEntry
  <2>6. Replies(t)'
    <3> DEFINE n == Len(replies[t])
               c == cutShort[t]
               d == Cardinality({h \in Handler : run[h].task = t /\ run[h].at = "mark"})
    <3>1. n \in Nat /\ c \in Nat /\ d \in Nat
      <4>1. replies[t] \in Seq(Result) /\ cutShort[t] \in Nat
        BY DEF IInv, TypeOK, Types
      <4>2. d \in Nat
        BY Caught
      <4> QED BY <4>1, <4>2
    <3>2. Len(replies'[t]) = n /\ cutShort'[t] = c + d
      BY <1>1, <2>1 DEF CrashedAt
    <3>3. Marking(t) => d # 0
      BY Caught DEF Marking
    <3> HIDE DEF d
    <3>4. Open(t) \/ Marking(t) => n <= c + d
      BY <3>1, <3>3, Excused DEF Open, Marking
    <3>5. Shut(t) => n <= 1 + (c + d)
      BY <3>1, Excused DEF Shut
    <3> HIDE DEF n, c
    <3>6. CASE Open(t) \/ Marking(t)
      <4>1. Open(t)'
        BY <2>1, <2>2, <3>2, <3>4, <3>6 DEF Open, Marking, At, CrashedAt, OnDisk
      <4> QED BY <4>1 DEF Replies
    <3>7. CASE Shut(t)
      <4>1. Shut(t)'
        BY <2>1, <2>2, <2>4, <3>2, <3>5, <3>7
        DEF Shut, At, CrashedAt, OnDisk, ReadyEntry, Delegating
      <4> QED BY <4>1 DEF Replies
    <3> QED BY <2>1, <3>6, <3>7 DEF InvOf, Replies
  <2>7. ASSUME t \notin Slow PROVE Untouched(t)' /\ Agreed(t)' /\ SameHome(t)' /\ Kept(t)'
    <3>1. Untouched(t) /\ Agreed(t) /\ SameHome(t) /\ Kept(t)
      BY <2>1, <2>7 DEF InvOf
    <3>2. Untouched(t)'
      BY <1>1, <2>1, <2>2, <3>1 DEF Untouched, CrashedAt, At, OnDisk, ReadyEntry, Delegating
    <3>3. Agreed(t)'
      BY <1>1, <2>1, <2>2, <3>1 DEF Agreed, CrashedAt, At, OnDisk
    <3>4. SameHome(t)'
      BY <1>1, <2>1, <2>2, <3>1 DEF SameHome, CrashedAt, At, OnDisk, Delegating
    <3>5. Kept(t)'
      BY <1>1, <2>1, <2>2, <3>1 DEF Kept, CrashedAt, At, OnDisk
    <3> QED BY <3>2, <3>3, <3>4, <3>5
  <2> QED BY <2>3, <2>5, <2>6, <2>7 DEF InvOf
<1> QED BY <1>1, <1>2, Frame

-------------------------------------------------------------------------------
(* The theorems.                                                           *)

\* The invariant holds initially.
LEMMA InitIInv == Init => IInv
<1> SUFFICES ASSUME Init PROVE IInv
  OBVIOUS
<1>1. IdleRun \in RunType /\ IdleRun.at = "idle" /\ IdleRun.task = ""
  BY DEF IdleRun, RunType, RunAt, Slot
<1>2. << >> \in Seq(Result) /\ Pending \in Slot /\ 0 \in Nat /\ 0 \in 0..MaxCrash
  BY BoundAssumption DEF Slot
<1>3. [at |-> "none", home |-> FALSE] \in [at : TurnStage, home : BOOLEAN]
  BY DEF TurnStage
<1>4. TypeOK
  BY <1>1, <1>2, <1>3, MadeValues DEF Init, TypeOK, Types
<1>5. IdleRuns
  BY <1>1 DEF Init, IdleRuns
<1>6. ASSUME NEW t \in Task PROVE InvOf(t)
  <2>1. /\ mem[t].kind = "none" /\ disk[t].kind = "none" /\ turn[t].at = "none"
        /\ handling = {} /\ delivered[t] = 0 /\ merged[t] = Pending /\ replies[t] = << >>
        /\ cutShort[t] = 0 /\ \A h \in Handler : run[h].task # t
    BY <1>1, Shapes, NameAssumption DEF Init
  <2>2. Claims(t) /\ Hidden(t)
    BY <2>1 DEF Claims, Hidden, At, OnDisk, ReadyEntry
  <2>3. Replies(t)
    <3>1. Len(replies[t]) <= cutShort[t]
      BY <2>1
    <3>2. Open(t)
      BY <2>1, <3>1 DEF Open, At, OnDisk
    <3> QED BY <3>2 DEF Replies
  <2>4. Untouched(t) /\ Agreed(t) /\ SameHome(t) /\ Kept(t)
    BY <2>1 DEF Untouched, Agreed, SameHome, Kept, At, OnDisk, ReadyEntry
  <2> QED BY <2>2, <2>3, <2>4 DEF InvOf
<1> QED BY <1>4, <1>5, <1>6 DEF IInv

\* A stuttering step changes nothing.
LEMMA StutterKeeps ==
    ASSUME IInv, UNCHANGED vars
    PROVE  IInv'
<1>1. Types' /\ IdleRuns'
  BY DEF vars, IInv, IdleRuns, TypeOK, Types
<1>2. \A t \in Task : Quiet(t)
  BY DEF vars, Quiet
<1> QED BY <1>1, <1>2, QuietKeeps, Frame DEF IInv

\* Every step keeps the invariant.
LEMMA NextIInv == IInv /\ [Next]_vars => IInv'
<1> SUFFICES ASSUME IInv, [Next]_vars PROVE IInv'
  OBVIOUS
<1>1. ASSUME NEW t \in Task, UserDispatch(t) \/ TurnStep(t) \/ CleanupOld(t) PROVE IInv'
  BY <1>1, UserDispatchKeeps, AcceptedKeeps, RefusedKeeps, RequestLostKeeps, SaveInsertKeeps,
     SaveWriteKeeps, SaveReadyKeeps, CleanupOldKeeps DEF TurnStep
<1>2. ASSUME NEW h \in Handler, HandlerStep(h) PROVE IInv'
  <2>1. CASE LoadDisk(h)
    BY <2>1, LoadDiskFoundKeeps, LoadDiskMissingKeeps
  <2>2. CASE Confirm(h)
    BY <2>2, ConfirmFirstKeeps, ConfirmSecondKeeps
  <2> QED
    BY <1>2, <2>1, <2>2, GateKeeps, LoadMemoryKeeps, WriteBackInsertKeeps, WriteBackWriteKeeps,
       WriteBackReadyKeeps, DelegateKeeps, ResumeKeeps, ConcludeKeeps, ConcludeEmptyKeeps,
       PersistKeeps, MarkKeeps, SendKeeps, ReleaseKeeps, ForgetKeeps, EraseKeeps, ClearPhaseKeeps
    DEF HandlerStep
<1>3. ASSUME NEW h \in Handler, NEW t \in Task, NEW r \in Result, Deliver(h, t, r) PROVE IInv'
  BY <1>3, DeliverDroppedKeeps, DeliverClaimedKeeps
<1> QED BY <1>1, <1>2, <1>3, CrashKeeps, StutterKeeps DEF Next

\* IInv holds in every state that Continuation reaches: the phases of restore_phases,
\* the handling set and the final_persisted mark together guard a task's one reply.
THEOREM Invariance == Spec => []IInv
BY InitIInv, NextIInv, PTL DEF Spec

\* The variables of Continuation keep their types, and claim_handling is leaked by
\* no crash and by no early return: a claimed task has a handler at work on it.
THEOREM TypesHold == Spec => []TypeOK
<1>1. IInv => TypeOK
  BY DEF IInv
<1> QED BY <1>1, Invariance, PTL

\* persist_final_reply appends a task's reply to its session once, for any number of
\* deliveries, handlers and crashes; only a crash between the append and the
\* final_persisted mark of handle_cluster_continuation excuses another one.
THEOREM RepliesAreWrittenOnce == Spec => []ReplyOnce
<1>1. IInv => ReplyOnce
  <2> SUFFICES ASSUME IInv, NEW t \in Task PROVE Len(replies[t]) <= 1 + cutShort[t]
    BY DEF ReplyOnce
  <2>1. Replies(t)
    BY DEF IInv, InvOf
  <2>2. Len(replies[t]) \in Nat /\ cutShort[t] \in Nat
    <3>1. replies[t] \in Seq(Result) /\ cutShort[t] \in Nat
      BY DEF IInv, TypeOK, Types
    <3> QED BY <3>1
  <2>3. Len(replies[t]) <= cutShort[t] \/ Len(replies[t]) <= 1 + cutShort[t]
    BY <2>1 DEF Replies, Open, Marking, Shut
  <2> QED BY <2>2, <2>3
<1> QED BY <1>1, Invariance, PTL

\* For a task whose save is not slower than barrier_timeout, the first result that
\* merge_real_tool_result wrote back is the one in the file and in every reply.
THEOREM TheFirstResultWins == Spec => []FirstResultWins
<1>1. IInv => FirstResultWins
  BY DEF IInv, InvOf, FirstResultWins, Agreed, OnDisk
<1> QED BY <1>1, Invariance, PTL

\* From the save of the turn to its reply, recover_to_manager finds the snapshot
\* with its session on disk, unless a crash cut the write of the file itself.
THEOREM SnapshotsSurvive == Spec => []SnapshotSurvives
<1>1. IInv => SnapshotSurvives
  <2> SUFFICES ASSUME IInv, NEW t \in Task \ Slow,
                      turn[t].at \in {"written", "saved"}, turn[t].home,
                      replies[t] = << >>, t \notin closed
               PROVE  \/ disk[t].kind = "snapshot" /\ disk[t].home
                      \/ disk[t] = Torn /\ crashes > 0
    BY DEF SnapshotSurvives
  <2>1. Kept(t) /\ SameHome(t)
    BY DEF IInv, InvOf
  <2>2. crashes \in 0..MaxCrash
    BY DEF IInv, TypeOK, Types
  <2>3. crashes # 0 => crashes > 0
    BY <2>2, BoundAssumption
  <2> QED BY <2>1, <2>3 DEF Kept, SameHome, OnDisk
<1> QED BY <1>1, Invariance, PTL

===============================================================================
