-------------------------- MODULE ExecWorkspaceProofs --------------------------
(***************************************************************************)
(* The work copy of an executed task, for any files, any baseline and any  *)
(* bounds on writes and mishaps.  The argument has three layers, each an   *)
(* inductive invariant over the one before: where the threads are and what *)
(* they leave alone (Control), what a change-set says (Truth), and where   *)
(* the work of a task is (Kept).                                           *)
(***************************************************************************)
EXTENDS ExecWorkspace, TLAPS

-------------------------------------------------------------------------------
(* The invariant.                                                          *)

\* What has happened, as the properties excuse it.
Redo   == "startup" \in events \/ "again" \in events
Untrue == Redo \/ "overlap" \in events \/ "residue" \in events
Lost   == Redo \/ "overlap" \in events \/ "unpack" \in events \/ "record" \in events
               \/ "skipped" \in events

Over == run \in {"reporting", "over"}
Full == copy = [sidecar |-> TRUE, tree |-> made]

\* A finisher is past the question whether the task runs; it queues the record alone;
\* it has seen a work copy.
Works(a) == actor[a].at \notin {"idle", "ask"}
Plain(a) ==
    /\ actor[a].at \in {"enqueue", "clear", "copy", "entry"}
    /\ actor[a].set = NoSet /\ ~actor[a].clean
Holds(a) == actor[a].at \notin {"idle", "ask", "sidecar", "read"} /\ ~Plain(a)

\* What each thread may be doing.
Threads ==
    /\ actor["hook"].at # "idle" => run = "reporting" /\ boot = "up"
    /\ actor["hook"].at # "ask"
    /\ actor["pull"].at = "idle" \/ Plain("pull")
    /\ actor["hook"].at # "idle" /\ Works("sweep") => "overlap" \in events
    /\ actor["sweep"].at = "ask" => boot = "up"
    /\ boot = "exec" => actor["sweep"].at = "idle"
    /\ boot = "up" => ~Plain("sweep")

\* A thread that has compared nothing yet has nothing in hand; one that has compared
\* is to remove the copy.
InHand(a) ==
    /\ actor[a].at \in {"idle", "ask", "sidecar", "read", "diff"} =>
          actor[a].set = NoSet /\ ~actor[a].clean
    /\ actor[a].at \in {"write", "manifest", "removeSet", "remove", "removeRest"} => actor[a].clean
    /\ Carries(a) => actor[a].clean
Hands == \A a \in Actor : InHand(a)

\* What has not happened yet.
Before ==
    /\ run \in {"none", "marked"} =>
          /\ \A a \in Actor : actor[a].at = "idle"
          /\ copy = NoCopy /\ entry.is # "whole" /\ events = {}
    /\ run \in {"none", "marked", "unpacked"} => ~log /\ ~stored /\ made = Baseline
    /\ run = "over" => ~stored

\* A sweep leaves the copy of an active task alone.
Spared ==
    /\ Works("sweep") /\ ~Plain("sweep") => Over \/ Redo
    /\ "unpack" \in events => copy = NoCopy /\ actor["sweep"].at # "ask"
    /\ run \in {"marked", "unpacked", "Pending", "Running", "WaitingRemote"} /\ ~mark =>
          Redo \/ "unpack" \in events
    /\ run = "stored" /\ boot # "exec" => Redo \/ "unpack" \in events
    /\ Active /\ run # "marked" => Full \/ "unpack" \in events \/ Redo

Control == TypeOK /\ Threads /\ Hands /\ Before /\ Spared

\* A thread that has seen the copy still has it, and the copy of a task that is over is
\* what the task has left, unless it is being removed.
Seen ==
    /\ \A a \in Actor : Holds(a) => copy.sidecar \/ "overlap" \in events
    /\ Over /\ copy.sidecar =>
          Full \/ Untrue \/ \E a \in Actor : actor[a].at = "removeRest"

\* A change-set is what the task has done, wherever it is.
Good(p) == p = NoSet \/ (Covers(p) /\ Over) \/ Untrue
Fine(p) == Good(p) /\ \A f \in Debug : p.does[f] = "keep"

Sets ==
    /\ \A a \in Actor : Fine(actor[a].set)
    /\ Fine(cs.holds) /\ Fine(entry.holds)
    /\ \A p \in sent : Fine(p)

Truth == Control /\ Seen /\ Sets

\* The work is with the master, or queued for it.
SentCov == \E p \in sent : Covers(p)
Cov     == SentCov \/ (entry.is = "whole" /\ Covers(entry.holds))

\* While a task is active, nothing is queued for it.
Early ==
    ~Over /\ ~Lost => entry.is # "whole" /\ actor["pull"].at = "idle" /\ ~Works("sweep")

AtStake == Over /\ Changed /\ ~Lost

\* As long as the copy is there, what is queued is the work, and no thread queues the
\* record alone.
Waits == copy.sidecar => (entry.is = "whole" => Cov) /\ \A a \in Actor : ~Plain(a)

\* What a thread carries to the outbox is the work, and it removes nothing before that
\* has arrived.
Careful(a) ==
    /\ actor[a].at \in {"clear", "copy", "entry"} /\ Plain(a) => SentCov
    /\ actor[a].at \in {"clear", "copy", "entry"} /\ ~Plain(a) => entry.is # "whole"
    /\ Carries(a) => Covers(actor[a].set) \/ Cov
    /\ actor[a].clean /\ ~Carries(a) => Cov
    /\ Carries(a) /\ actor[a].at \in {"enqueue", "clear", "copy"} =>
          cs.is = "whole" /\ cs.holds = actor[a].set
    /\ Carries(a) /\ actor[a].at = "entry" => entry.holds = actor[a].set
    /\ actor[a].at \in {"removeSet", "remove", "removeRest"} => Cov

Safe == (Full \/ Cov) /\ Waits /\ \A a \in Actor : Careful(a)

Kept == Truth /\ Early /\ (AtStake => Safe)

-------------------------------------------------------------------------------
(* The threads.                                                            *)

\* The types that a step of a thread can disturb, and what it leaves alone.
ActorType == actor \in [Actor -> Thread]
Others(a) == \A b \in Actor \ {a} : actor'[b] = actor[b]

\* A step of At changes where one thread is, and nothing else of it.
LEMMA AtLemma ==
    ASSUME ActorType, NEW a \in Actor, NEW x \in Stage, At(a, x)
    PROVE  /\ ActorType' /\ Others(a)
           /\ actor'[a].at = x /\ actor'[a].set = actor[a].set /\ actor'[a].clean = actor[a].clean
<1> DEFINE r == [actor[a] EXCEPT !.at = x]
<1>1. r \in Thread /\ r.at = x /\ r.set = actor[a].set /\ r.clean = actor[a].clean
  BY DEF ActorType, Thread
<1>2. actor' = [actor EXCEPT ![a] = r]
  BY DEF At
<1> HIDE DEF r
<1>. QED
  BY <1>1, <1>2 DEF ActorType, Others

\* The empty change-set and the fresh directories have their types.
LEMMA NoSetLemma == NoSet \in Changeset /\ NewDir \in Dir /\ NoDir \in Dir
  BY DEF NoSet, Changeset, NewDir, NoDir, Dir

\* The record of a thread that does nothing.
LEMMA IdleLemma ==
    Idle \in Thread /\ Idle.at = "idle" /\ Idle.set = NoSet /\ Idle.clean = FALSE
  BY NoSetLemma DEF Idle, Thread, Stage

\* Return puts a thread's record back.
LEMMA ReturnLemma ==
    ASSUME ActorType, NEW a \in Actor, Return(a)
    PROVE  /\ ActorType' /\ Others(a)
           /\ actor'[a].at = "idle" /\ actor'[a].set = NoSet /\ actor'[a].clean = FALSE
  BY IdleLemma DEF ActorType, Others, Return

\* A thread gets a record as a whole, at the end of the comparison.
LEMMA GetLemma ==
    ASSUME ActorType, NEW a \in Actor, NEW x \in Stage, NEW set \in Changeset,
           actor' = [actor EXCEPT ![a] = [at |-> x, set |-> set, clean |-> TRUE]]
    PROVE  /\ ActorType' /\ Others(a)
           /\ actor'[a].at = x /\ actor'[a].set = set /\ actor'[a].clean = TRUE
<1> DEFINE r == [at |-> x, set |-> set, clean |-> TRUE]
<1>1. r \in Thread /\ r.at = x /\ r.set = set /\ r.clean = TRUE
  BY DEF Thread
<1>2. actor' = [actor EXCEPT ![a] = r]
  OBVIOUS
<1> HIDE DEF r
<1>. QED
  BY <1>1, <1>2 DEF ActorType, Others

\* The parts of the type invariant, and of the work copy.
LEMMA TypeLemma ==
    ASSUME TypeOK
    PROVE  /\ ActorType /\ base \subseteq File /\ made \in Tree
           /\ copy \in Copy /\ copy.sidecar \in BOOLEAN /\ copy.tree \in Tree
           /\ cs \in Dir /\ cs.holds \in Changeset
           /\ entry \in Dir /\ entry.holds \in Changeset
           /\ sent \subseteq Changeset
           /\ stored \in BOOLEAN /\ mark \in BOOLEAN /\ log \in BOOLEAN
           /\ \A a \in Actor : /\ actor[a].at \in Stage /\ actor[a].set \in Changeset
                               /\ actor[a].clean \in BOOLEAN
  BY DEF TypeOK, ActorType, Thread, Copy, Dir

\* A work copy is one only with its sidecar.
LEMMA CopyLemma ==
    /\ NoCopy \in Copy /\ NoCopy.sidecar = FALSE
    /\ \A t \in Tree : LET c == [sidecar |-> TRUE, tree |-> t]
                       IN  c \in Copy /\ c.sidecar = TRUE /\ c.tree = t
  BY DEF NoCopy, Copy, Tree

\* The baseline is a tree of files.
LEMMA BaselineLemma == base \subseteq File => Baseline \in Tree
  BY DEF Baseline, Tree

-------------------------------------------------------------------------------
(* diff_tree.                                                              *)

\* diff_tree makes a change-set, and declares what it could not read.
LEMMA DiffType ==
    ASSUME base \subseteq File, NEW tree \in Tree, NEW locked \in SUBSET File,
           NEW late \in SUBSET File
    PROVE  /\ DiffTree(tree, locked, late) \in Changeset
           /\ DiffTree(tree, locked, late).skipped = locked \cup late
<1>1. \A f \in File : Baseline[f] \in {"none", "old"} /\ tree[f] \in {"none", "old", "new"}
  BY DEF Baseline, Tree
<1>. QED
  BY <1>1 DEF DiffTree, Changeset

\* What becomes of a file: it is left alone below _debug/, and elsewhere, unless it is
\* declared as skipped, merging the change-set gives the file that was compared.
LEMMA DiffLemma ==
    ASSUME base \subseteq File, NEW tree \in Tree,
           NEW locked \in SUBSET {f \in File \ Debug : tree[f] # "none"},
           NEW late \in SUBSET {f \in File \ (Debug \cup locked) : tree[f] \notin {"none", Baseline[f]}},
           NEW f \in File
    PROVE  LET p == DiffTree(tree, locked, late) IN
           /\ f \in Debug => p.does[f] = "keep"
           /\ f \notin Debug \cup p.skipped => Applied(p, f) = tree[f]
<1> DEFINE p == DiffTree(tree, locked, late)
<1>1. p.skipped = locked \cup late
  BY DEF DiffTree
<1>2. p.does[f] = IF f \notin Debug \cup locked /\ tree[f] # "none"
                  THEN IF tree[f] = Baseline[f] \/ f \in late THEN "keep" ELSE tree[f]
                  ELSE IF f \in base \ Debug THEN "delete" ELSE "keep"
  BY DEF DiffTree
<1>3. Baseline[f] = IF f \in base THEN "old" ELSE "none"
  BY DEF Baseline
<1>4. tree[f] \in {"none", "old", "new"}
  BY DEF Tree
<1> HIDE DEF p
<1>5. f \in Debug => p.does[f] = "keep"
  BY <1>2
<1>6. ASSUME f \notin Debug \cup p.skipped
      PROVE  Applied(p, f) = tree[f]
  BY <1>1, <1>2, <1>3, <1>4, <1>6 DEF Applied
<1>7. QED
  BY <1>5, <1>6 DEF p

\* A comparison without any difference, nothing being skipped, means that the tree is
\* the baseline, below _debug/ aside.
LEMMA NoDiffLemma ==
    ASSUME base \subseteq File, made \in Tree,
           DiffTree(made, {}, {}).does = NoSet.does
    PROVE  ~Changed
<1>1. SUFFICES ASSUME NEW f \in File \ Debug PROVE made[f] = Baseline[f]
  BY DEF Changed
<1> DEFINE p == DiffTree(made, {}, {})
<1>2. p.does[f] = "keep" /\ p.skipped = {}
  BY DEF NoSet, DiffTree
<1>3. Applied(p, f) = made[f]
  BY <1>2, DiffLemma
<1>. QED
  BY <1>2, <1>3 DEF Applied

-------------------------------------------------------------------------------
(* Control.                                                                *)

\* What a step of thread a does to the rest, as far as Control is concerned.
Moves(a) ==
    /\ UNCHANGED <<base, run, stored, mark, log, made, boot>>
    /\ ActorType' /\ Others(a)
    /\ Works(a) /\ actor'[a].at # "ask"
    /\ InHand(a)'
    /\ actor'[a].at = "idle" \/ (Plain(a) => Plain(a)')
    /\ a # "hook" /\ Plain(a)' => Plain(a)
    /\ \A e : e \in events' <=> (e \in events \/ (e \in {"skipped", "residue"} /\ e \in events'))
    /\ copy' \in Copy
    /\ copy' = copy \/ (a # "pull" /\ ~Plain(a) /\ (copy = NoCopy => copy' = NoCopy))
    /\ cs' \in Dir /\ entry' \in Dir /\ sent' \subseteq Changeset

\* The types after a step of a thread ...
LEMMA MovesTypes ==
    ASSUME TypeOK, NEW a \in Actor, Moves(a)
    PROVE  TypeOK'
  BY DEF TypeOK, Moves, ActorType

\* ... where the threads are ...
LEMMA MovesThreads ==
    ASSUME TypeOK, Threads, Before, NEW a \in Actor, Moves(a)
    PROVE  Threads'
<1>1. /\ UNCHANGED <<run, boot>> /\ Works(a) /\ actor'[a].at # "ask"
      /\ actor'[a].at = "idle" \/ (Plain(a) => Plain(a)')
      /\ a # "hook" /\ Plain(a)' => Plain(a)
      /\ "overlap" \in events => "overlap" \in events'
  BY DEF Moves
<1>2. \A b \in Actor \ {a} : /\ actor'[b].at = actor[b].at
                             /\ Plain(b)' <=> Plain(b)
                             /\ Works(b)' <=> Works(b)
  BY DEF Moves, Others, Plain, Works
<1>3. a \in {"hook", "sweep", "pull"} /\ {"hook", "sweep", "pull"} \subseteq Actor
  BY DEF Actor
<1>. QED
  BY <1>1, <1>2, <1>3 DEF Threads, Works, Plain

\* ... what they have in hand, and that an active task has its copy.
LEMMA MovesRest ==
    ASSUME TypeOK, Threads, Hands, Before, Spared, NEW a \in Actor, Moves(a)
    PROVE  Hands' /\ Before' /\ Spared'
<1>1. /\ UNCHANGED <<base, run, stored, mark, log, made, boot>> /\ Works(a)
      /\ actor'[a].at # "ask"
      /\ actor'[a].at = "idle" \/ (Plain(a) => Plain(a)')
      /\ "startup" \in events' <=> "startup" \in events
      /\ "again" \in events' <=> "again" \in events
      /\ "unpack" \in events' <=> "unpack" \in events
      /\ copy' = copy \/ (a # "pull" /\ ~Plain(a) /\ (copy = NoCopy => copy' = NoCopy))
  BY DEF Moves
<1>2. \A b \in Actor \ {a} : actor'[b] = actor[b]
  BY DEF Moves, Others
<1>3. a \in {"hook", "sweep", "pull"} /\ {"hook", "sweep", "pull"} \subseteq Actor
  BY DEF Actor
<1>4. Hands'
  BY <1>2 DEF Moves, Hands, InHand, Carries
<1>5. run \notin {"none", "marked"}
  BY <1>1 DEF Before, Works
<1>6. Before'
  BY <1>1, <1>5 DEF Before, Baseline
<1>7. (Redo' <=> Redo) /\ (Over' <=> Over) /\ (Active' <=> Active)
  BY <1>1 DEF Redo, Over, Active
<1>8. Works("sweep")' /\ ~Plain("sweep")' => Works("sweep") /\ ~Plain("sweep")
  <2>1. CASE a = "sweep"
    BY <1>1, <2>1 DEF Works
  <2>2. CASE a # "sweep"
    BY <1>2, <1>3, <2>2 DEF Works, Plain
  <2>. QED
    BY <2>1, <2>2
<1>9. actor'["sweep"].at = "ask" => actor["sweep"].at = "ask"
  BY <1>1, <1>2, <1>3
<1>10. copy' # copy => Over \/ Redo
  <2>1. CASE a = "hook"
    BY <1>1, <2>1 DEF Threads, Works, Over
  <2>2. CASE a = "sweep"
    BY <1>1, <2>2 DEF Spared
  <2>. QED
    BY <1>1, <1>3, <2>1, <2>2
<1>11. Over => ~Active
  BY DEF Over, Active
<1>12. copy' = copy => (Full' <=> Full)
  BY <1>1 DEF Full
<1>13. Spared'
  BY <1>1, <1>7, <1>8, <1>9, <1>10, <1>11, <1>12 DEF Spared
<1>. QED
  BY <1>4, <1>6, <1>13

\* A thread that moves keeps Control.
LEMMA MovesControl ==
    ASSUME Control, NEW a \in Actor, Moves(a)
    PROVE  Control'
  BY MovesTypes, MovesThreads, MovesRest DEF Control

\* Every step of a thread moves it.
LEMMA GoesOn ==
    ASSUME Control, NEW a \in Actor, NEW x \in Stage, At(a, x),
           x \notin {"idle", "ask"},
           x \in {"sidecar", "read", "diff"} => actor[a].at \in {"sidecar", "read", "diff"},
           x \notin {"sidecar", "read", "diff", "enqueue", "clear", "copy", "entry"} => actor[a].clean,
           Plain(a) => x \in {"enqueue", "clear", "copy", "entry"},
           a # "hook" /\ x \in {"enqueue", "clear", "copy", "entry"} => actor[a].clean \/ Plain(a)
    PROVE  /\ ActorType' /\ Others(a) /\ actor'[a].at # "ask"
           /\ InHand(a)' /\ (Plain(a) => Plain(a)') /\ (a # "hook" /\ Plain(a)' => Plain(a))
<1>1. /\ ActorType' /\ Others(a)
      /\ actor'[a].at = x /\ actor'[a].set = actor[a].set /\ actor'[a].clean = actor[a].clean
  BY AtLemma, TypeLemma DEF Control
<1>2. InHand(a)
  BY DEF Control, Hands
<1>. QED
  BY <1>1, <1>2 DEF InHand, Carries, Plain, Stage

\* A thread that returns has nothing in hand.
LEMMA GoesBack ==
    ASSUME Control, NEW a \in Actor, Return(a)
    PROVE  /\ ActorType' /\ Others(a) /\ actor'[a].at = "idle" /\ InHand(a)' /\ ~Plain(a)'
<1>1. /\ ActorType' /\ Others(a)
      /\ actor'[a].at = "idle" /\ actor'[a].set = NoSet /\ actor'[a].clean = FALSE
  BY ReturnLemma, TypeLemma DEF Control
<1>. QED
  BY <1>1 DEF InHand, Carries, Plain

\* One case per step of finish_task_exec and enqueue_with_changeset, and their failure.
LEMMA StepMoves ==
    ASSUME Control, NEW a \in Actor, Step(a) \/ Fail(a)
    PROVE  Moves(a)
<1> USE DEF Works
<1>0. /\ TypeOK /\ ActorType /\ copy \in Copy /\ cs \in Dir /\ entry \in Dir
      /\ sent \subseteq Changeset
      /\ cs.holds \in Changeset /\ entry.holds \in Changeset /\ actor[a].set \in Changeset
      /\ actor[a].clean \in BOOLEAN /\ actor[a].at \in Stage
  BY TypeLemma DEF Control
<1>p. a = "pull" => actor[a].at = "idle" \/ Plain(a)
  BY DEF Control, Threads
<1>b. InHand(a)
  BY DEF Control, Hands
<1>1. CASE FindSidecar(a)
  <2>1. /\ actor[a].at = "sidecar"
        /\ UNCHANGED <<base, run, stored, mark, log, made, boot, copy, cs, entry, sent, events>>
    BY <1>1 DEF FindSidecar, task, disk
  <2>2. CASE At(a, "read")
    BY <1>0, <1>b, <2>1, <2>2, GoesOn DEF Moves, Plain, InHand, Carries, Stage
  <2>3. CASE a = "hook" /\ At(a, "enqueue")
    BY <1>0, <1>b, <2>1, <2>3, GoesOn DEF Moves, Plain, InHand, Carries, Stage
  <2>4. CASE Return(a)
    BY <1>0, <2>1, <2>4, GoesBack DEF Moves
  <2>. QED
    BY <1>1, <2>2, <2>3, <2>4 DEF FindSidecar
<1>2. CASE ReadSidecar(a)
  <2>1. /\ actor[a].at = "read"
        /\ UNCHANGED <<base, run, stored, mark, log, made, boot, copy, cs, entry, sent, events>>
    BY <1>2 DEF ReadSidecar, task, disk
  <2>2. CASE At(a, "diff")
    BY <1>0, <1>b, <2>1, <2>2, GoesOn DEF Moves, Plain, InHand, Carries, Stage
  <2>4. CASE Return(a)
    BY <1>0, <2>1, <2>4, GoesBack DEF Moves
  <2>. QED
    BY <1>2, <2>2, <2>4 DEF ReadSidecar
<1>3. CASE Diff(a)
  <2>1. /\ actor[a].at = "diff"
        /\ UNCHANGED <<base, run, stored, mark, log, made, boot, copy, cs, entry, sent>>
    BY <1>3 DEF Diff, task, disk
  <2>2a. PICK locked \in SUBSET {f \in File \ Debug : copy.tree[f] # "none"} :
          \E late \in SUBSET {f \in File \ (Debug \cup locked) : copy.tree[f] \notin {"none", Baseline[f]}} :
          LET set == DiffTree(copy.tree, locked, late) IN
          IF set.does = NoSet.does
          THEN /\ actor' = [actor EXCEPT ![a] = [at |-> "enqueue", set |-> NoSet, clean |-> TRUE]]
               /\ events' = IF set.skipped = {} THEN events ELSE events \cup {"skipped"}
          ELSE /\ actor' = [actor EXCEPT ![a] = [at |-> "write", set |-> set, clean |-> TRUE]]
               /\ UNCHANGED events
    BY <1>3 DEF Diff
  <2>2. PICK late \in SUBSET {f \in File \ (Debug \cup locked) : copy.tree[f] \notin {"none", Baseline[f]}} :
          LET set == DiffTree(copy.tree, locked, late) IN
          IF set.does = NoSet.does
          THEN /\ actor' = [actor EXCEPT ![a] = [at |-> "enqueue", set |-> NoSet, clean |-> TRUE]]
               /\ events' = IF set.skipped = {} THEN events ELSE events \cup {"skipped"}
          ELSE /\ actor' = [actor EXCEPT ![a] = [at |-> "write", set |-> set, clean |-> TRUE]]
               /\ UNCHANGED events
    BY <2>2a
  <2> DEFINE set == DiffTree(copy.tree, locked, late)
  <2>3. set \in Changeset
    BY <1>0, DiffType, TypeLemma
  <2>4. ActorType' /\ Others(a) /\ actor'[a].at \in {"enqueue", "write"} /\ actor'[a].clean = TRUE
    <3>1. CASE set.does = NoSet.does
      BY <1>0, <2>2, <3>1, NoSetLemma, GetLemma DEF Stage
    <3>2. CASE set.does # NoSet.does
      <4> HIDE DEF set
      <4>1. actor' = [actor EXCEPT ![a] = [at |-> "write", set |-> set, clean |-> TRUE]]
        BY <2>2, <3>2 DEF set
      <4>. QED
        BY <1>0, <2>3, <4>1, GetLemma DEF Stage
    <3>. QED
      BY <3>1, <3>2
  <2>5. events' = events \/ events' = events \cup {"skipped"}
    BY <2>2
  <2>6. InHand(a)' /\ ~Plain(a)' /\ ~Plain(a)
    BY <2>1, <2>4 DEF InHand, Carries, Plain
  <2>. QED
    BY <1>0, <2>1, <2>4, <2>5, <2>6 DEF Moves
<1>4. CASE WriteFiles(a)
  <2>1. /\ actor[a].at = "write" /\ At(a, "manifest") /\ cs' = NewDir
        /\ UNCHANGED <<base, run, stored, mark, log, made, boot, copy, entry, sent, events>>
    BY <1>4 DEF WriteFiles, task
  <2>. QED
    BY <1>0, <1>b, <2>1, GoesOn, NoSetLemma DEF Moves, Plain, InHand, Carries, Stage
<1>5. CASE WriteManifest(a)
  <2>1. /\ actor[a].at = "manifest" /\ At(a, "enqueue") /\ cs' = [is |-> "whole", holds |-> actor[a].set]
        /\ UNCHANGED <<base, run, stored, mark, log, made, boot, copy, entry, sent, events>>
    BY <1>5 DEF WriteManifest, task
  <2>2. cs' \in Dir
    BY <1>0, <2>1 DEF Dir
  <2>. QED
    BY <1>0, <1>b, <2>1, <2>2, GoesOn DEF Moves, Plain, InHand, Carries, Stage
<1>6. CASE CheckEntry(a)
  <2>1. /\ actor[a].at = "enqueue"
        /\ UNCHANGED <<base, run, stored, mark, log, made, boot, copy, cs, entry, sent, events>>
    BY <1>6 DEF CheckEntry, task, disk
  <2>2. CASE Return(a)
    BY <1>0, <2>1, <2>2, GoesBack DEF Moves
  <2>3. CASE At(a, "clear")
    BY <1>0, <1>b, <2>1, <2>3, GoesOn DEF Moves, Plain, InHand, Carries, Stage
  <2>4. CASE AfterEnqueue(a)
    <3>1. CASE Return(a)
      BY <1>0, <2>1, <3>1, GoesBack DEF Moves
    <3>2. CASE Carries(a) /\ At(a, "removeSet")
      BY <1>0, <1>b, <2>1, <3>2, GoesOn DEF Moves, Plain, InHand, Carries, Stage
    <3>3. CASE actor[a].clean /\ At(a, "remove")
      BY <1>0, <1>b, <2>1, <3>3, GoesOn DEF Moves, Plain, InHand, Carries, Stage
    <3>. QED
      BY <2>4, <3>1, <3>2, <3>3 DEF AfterEnqueue
  <2>. QED
    BY <1>6, <2>2, <2>3, <2>4 DEF CheckEntry
<1>7. CASE ClearEntry(a)
  <2>1. /\ actor[a].at = "clear" /\ At(a, "copy") /\ entry' = NewDir
        /\ UNCHANGED <<base, run, stored, mark, log, made, boot, copy, cs, sent, events>>
    BY <1>7 DEF ClearEntry, task
  <2>. QED
    BY <1>0, <1>b, <2>1, GoesOn, NoSetLemma DEF Moves, Plain, InHand, Carries, Stage
<1>8. CASE CopyPayload(a)
  <2>1. /\ actor[a].at = "copy"
        /\ UNCHANGED <<base, run, stored, mark, log, made, boot, copy, cs, sent, events>>
    BY <1>8 DEF CopyPayload, task
  <2>2. CASE Return(a) /\ UNCHANGED entry
    BY <1>0, <2>1, <2>2, GoesBack DEF Moves
  <2>3. CASE At(a, "entry") /\ entry' = [NewDir EXCEPT !.holds = IF Carries(a) THEN cs.holds ELSE @]
    <3>1. entry' \in Dir
      BY <1>0, <2>3, NoSetLemma DEF NewDir, Dir
    <3>. QED
      BY <1>0, <1>b, <2>1, <2>3, <3>1, GoesOn DEF Moves, Plain, InHand, Carries, Stage
  <2>. QED
    BY <1>8, <2>2, <2>3 DEF CopyPayload
<1>9. CASE WriteEntry(a)
  <2>1. /\ actor[a].at = "entry" /\ AfterEnqueue(a) /\ entry' = [entry EXCEPT !.is = "whole"]
        /\ UNCHANGED <<base, run, stored, mark, log, made, boot, copy, cs, sent, events>>
    BY <1>9 DEF WriteEntry, task
  <2>2. entry' \in Dir
    BY <1>0, <2>1 DEF Dir
  <2>3. CASE Return(a)
    BY <1>0, <2>1, <2>2, <2>3, GoesBack DEF Moves
  <2>4. CASE Carries(a) /\ At(a, "removeSet")
    BY <1>0, <1>b, <2>1, <2>2, <2>4, GoesOn DEF Moves, Plain, InHand, Carries, Stage
  <2>5. CASE actor[a].clean /\ At(a, "remove")
    BY <1>0, <1>b, <2>1, <2>2, <2>5, GoesOn DEF Moves, Plain, InHand, Carries, Stage
  <2>. QED
    BY <2>1, <2>3, <2>4, <2>5 DEF AfterEnqueue
<1>10. CASE RemoveSet(a)
  <2>1. /\ actor[a].at = "removeSet" /\ At(a, "remove") /\ cs' = NoDir
        /\ UNCHANGED <<base, run, stored, mark, log, made, boot, copy, entry, sent, events>>
    BY <1>10 DEF RemoveSet, task
  <2>. QED
    BY <1>0, <1>b, <2>1, GoesOn, NoSetLemma DEF Moves, Plain, InHand, Carries, Stage
<1>11. CASE RemoveCopy(a)
  <2>1. /\ actor[a].at = "remove"
        /\ UNCHANGED <<base, run, stored, mark, log, made, boot, cs, entry, sent, events>>
    BY <1>11 DEF RemoveCopy, task
  <2>2. ~Plain(a) /\ a # "pull"
    BY <1>p, <2>1 DEF Plain
  <2>3. CASE copy' = NoCopy /\ Return(a)
    BY <1>0, <2>1, <2>2, <2>3, GoesBack, CopyLemma DEF Moves
  <2>4. CASE /\ copy.sidecar /\ At(a, "removeRest")
             /\ \E gone : copy' = [copy EXCEPT !.tree = [f \in File |-> IF f \in gone THEN "none" ELSE @[f]]]
    <3>1. PICK gone : copy' = [copy EXCEPT !.tree = [f \in File |-> IF f \in gone THEN "none" ELSE @[f]]]
      BY <2>4
    <3>2. copy' \in Copy /\ copy # NoCopy
      BY <1>0, <2>4, <3>1, CopyLemma DEF Copy, Tree
    <3>. QED
      BY <1>0, <1>b, <2>1, <2>2, <2>4, <3>2, GoesOn DEF Moves, Plain, InHand, Carries, Stage
  <2>. QED
    BY <1>11, <2>3, <2>4 DEF RemoveCopy
<1>12. CASE RemoveRest(a)
  <2>1. /\ actor[a].at = "removeRest" /\ Return(a)
        /\ UNCHANGED <<base, run, stored, mark, log, made, boot, cs, entry, sent>>
        /\ \/ copy' = NoCopy /\ UNCHANGED events
           \/ UNCHANGED copy /\ events' = events \cup {"residue"}
    BY <1>12 DEF RemoveRest, task
  <2>2. ~Plain(a) /\ a # "pull"
    BY <1>p, <2>1 DEF Plain
  <2>. QED
    BY <1>0, <2>1, <2>2, GoesBack, CopyLemma DEF Moves
<1>13. CASE Fail(a)
  <2>1. /\ actor[a].at \notin {"idle", "ask"} /\ Return(a)
        /\ UNCHANGED <<base, run, stored, mark, log, made, boot, copy, cs, entry, sent, events>>
    BY <1>13 DEF Fail, task, disk
  <2>. QED
    BY <1>0, <2>1, GoesBack DEF Moves
<1>. QED
  BY <1>1, <1>2, <1>3, <1>4, <1>5, <1>6, <1>7, <1>8, <1>9, <1>10, <1>11, <1>12, <1>13 DEF Step

-------------------------------------------------------------------------------
(* Control and the other steps.                                            *)

\* Threads, copy and history are left alone: what is to be shown is about the task.
LEMMA QuietControl ==
    ASSUME Control, TypeOK',
           UNCHANGED <<base, actor, copy, events, made>>,
           Before', boot' = "exec" => boot = "exec",
           actor["hook"].at # "idle" => run' = "reporting" /\ boot' = "up",
           actor["sweep"].at = "ask" => boot' = "up",
           boot' = "up" => ~Plain("sweep"),
           Over => Over',
           run' \in {"marked", "unpacked", "Pending", "Running", "WaitingRemote"} /\ ~mark' =>
              Redo \/ "unpack" \in events,
           run' = "stored" /\ boot' # "exec" => Redo \/ "unpack" \in events,
           Active' /\ run' # "marked" => Active /\ run # "marked"
    PROVE  Control'
<1>1. \A a \in Actor : (Works(a)' <=> Works(a)) /\ (Plain(a)' <=> Plain(a))
  BY DEF Works, Plain
<1>2. (Redo' <=> Redo) /\ (Full' <=> Full)
  BY DEF Redo, Full
<1>3. {"hook", "sweep", "pull"} \subseteq Actor
  BY DEF Actor
<1>4. Threads'
  BY <1>1, <1>3 DEF Control, Threads
<1>5. Hands'
  BY DEF Control, Hands, InHand, Carries
<1>6. Spared'
  BY <1>1, <1>2, <1>3 DEF Control, Spared
<1>. QED
  BY <1>4, <1>5, <1>6 DEF Control

\* The steps of the task that touch no directory.
LEMMA TaskControl ==
    ASSUME Control,
           Handle \/ Submit \/ Start \/ Suspend \/ Resume \/ WriteIndex \/ Complete \/ FirstStart
    PROVE  Control'
<1>0. TypeOK /\ Threads /\ Before /\ Spared
  BY DEF Control
<1>s. {"hook", "sweep", "pull"} \subseteq Actor
  BY DEF Actor
<1>1. CASE Handle
  <2>1. /\ run = "none" /\ run' = "marked" /\ mark' = TRUE
        /\ UNCHANGED <<base, actor, copy, events, made, stored, log, cs, entry, boot, sent>>
    BY <1>1 DEF Handle, disk, bounds
  <2>2. TypeOK'
    BY <1>0, <2>1 DEF TypeOK
  <2>3. Before'
    BY <1>0, <2>1 DEF Before, Baseline
  <2>4. /\ boot' = "exec" => boot = "exec"
        /\ actor["hook"].at # "idle" => run' = "reporting" /\ boot' = "up"
        /\ actor["sweep"].at = "ask" => boot' = "up"
        /\ boot' = "up" => ~Plain("sweep")
    BY <1>0, <1>s, <2>1 DEF Threads, Before, Plain
  <2>5. /\ run' \in {"marked", "unpacked", "Pending", "Running", "WaitingRemote"} /\ ~mark' =>
              Redo \/ "unpack" \in events
        /\ run' = "stored" /\ boot' # "exec" => Redo \/ "unpack" \in events
    BY <1>0, <2>1 DEF Spared
  <2>6. (Over => Over') /\ (Active' /\ run' # "marked" => Active /\ run # "marked")
    BY <1>0, <2>1 DEF Over, Active, Before
  <2>. QED
    BY <2>1, <2>2, <2>3, <2>4, <2>5, <2>6, QuietControl
<1>2. CASE Submit
  <2>1. /\ run = "unpacked" /\ ((run' = "Pending" /\ mark' = mark) \/ (run' = "over" /\ mark' = FALSE))
        /\ UNCHANGED <<base, actor, copy, events, made, stored, log, cs, entry, boot, sent>>
    BY <1>2 DEF Submit, disk, bounds
  <2>2. TypeOK'
    BY <1>0, <2>1 DEF TypeOK
  <2>3. Before'
    BY <1>0, <2>1 DEF Before, Baseline
  <2>4. /\ boot' = "exec" => boot = "exec"
        /\ actor["hook"].at # "idle" => run' = "reporting" /\ boot' = "up"
        /\ actor["sweep"].at = "ask" => boot' = "up"
        /\ boot' = "up" => ~Plain("sweep")
    BY <1>0, <1>s, <2>1 DEF Threads, Before, Plain
  <2>5. /\ run' \in {"marked", "unpacked", "Pending", "Running", "WaitingRemote"} /\ ~mark' =>
              Redo \/ "unpack" \in events
        /\ run' = "stored" /\ boot' # "exec" => Redo \/ "unpack" \in events
    BY <1>0, <2>1 DEF Spared
  <2>6. (Over => Over') /\ (Active' /\ run' # "marked" => Active /\ run # "marked")
    BY <1>0, <2>1 DEF Over, Active, Before
  <2>. QED
    BY <2>1, <2>2, <2>3, <2>4, <2>5, <2>6, QuietControl
<1>3. CASE Start
  <2>1. /\ run = "Pending" /\ boot = "up" /\ run' = "Running" /\ log' = TRUE
        /\ UNCHANGED <<base, actor, copy, events, made, stored, mark, cs, entry, boot, sent>>
    BY <1>3 DEF Start, disk, bounds
  <2>2. TypeOK'
    BY <1>0, <2>1 DEF TypeOK
  <2>3. Before'
    BY <1>0, <2>1 DEF Before, Baseline
  <2>4. /\ boot' = "exec" => boot = "exec"
        /\ actor["hook"].at # "idle" => run' = "reporting" /\ boot' = "up"
        /\ actor["sweep"].at = "ask" => boot' = "up"
        /\ boot' = "up" => ~Plain("sweep")
    BY <1>0, <1>s, <2>1 DEF Threads, Before, Plain
  <2>5. /\ run' \in {"marked", "unpacked", "Pending", "Running", "WaitingRemote"} /\ ~mark' =>
              Redo \/ "unpack" \in events
        /\ run' = "stored" /\ boot' # "exec" => Redo \/ "unpack" \in events
    BY <1>0, <2>1 DEF Spared
  <2>6. (Over => Over') /\ (Active' /\ run' # "marked" => Active /\ run # "marked")
    BY <1>0, <2>1 DEF Over, Active, Before
  <2>. QED
    BY <2>1, <2>2, <2>3, <2>4, <2>5, <2>6, QuietControl
<1>4. CASE Suspend
  <2>1. /\ run = "Running" /\ run' = "WaitingRemote" /\ stored' = TRUE
        /\ UNCHANGED <<base, actor, copy, events, made, mark, log, cs, entry, boot, sent>>
    BY <1>4 DEF Suspend, disk, bounds
  <2>2. TypeOK'
    BY <1>0, <2>1 DEF TypeOK
  <2>3. Before'
    BY <1>0, <2>1 DEF Before, Baseline
  <2>4. /\ boot' = "exec" => boot = "exec"
        /\ actor["hook"].at # "idle" => run' = "reporting" /\ boot' = "up"
        /\ actor["sweep"].at = "ask" => boot' = "up"
        /\ boot' = "up" => ~Plain("sweep")
    BY <1>0, <1>s, <2>1 DEF Threads, Before, Plain
  <2>5. /\ run' \in {"marked", "unpacked", "Pending", "Running", "WaitingRemote"} /\ ~mark' =>
              Redo \/ "unpack" \in events
        /\ run' = "stored" /\ boot' # "exec" => Redo \/ "unpack" \in events
    BY <1>0, <2>1 DEF Spared
  <2>6. (Over => Over') /\ (Active' /\ run' # "marked" => Active /\ run # "marked")
    BY <1>0, <2>1 DEF Over, Active, Before
  <2>. QED
    BY <2>1, <2>2, <2>3, <2>4, <2>5, <2>6, QuietControl
<1>5. CASE Resume
  <2>1. /\ run = "WaitingRemote" /\ run' = "Pending"
        /\ UNCHANGED <<base, actor, copy, events, made, stored, mark, log, cs, entry, boot, sent>>
    BY <1>5 DEF Resume, disk, bounds
  <2>2. TypeOK'
    BY <1>0, <2>1 DEF TypeOK
  <2>3. Before'
    BY <1>0, <2>1 DEF Before, Baseline
  <2>4. /\ boot' = "exec" => boot = "exec"
        /\ actor["hook"].at # "idle" => run' = "reporting" /\ boot' = "up"
        /\ actor["sweep"].at = "ask" => boot' = "up"
        /\ boot' = "up" => ~Plain("sweep")
    BY <1>0, <1>s, <2>1 DEF Threads, Before, Plain
  <2>5. /\ run' \in {"marked", "unpacked", "Pending", "Running", "WaitingRemote"} /\ ~mark' =>
              Redo \/ "unpack" \in events
        /\ run' = "stored" /\ boot' # "exec" => Redo \/ "unpack" \in events
    BY <1>0, <2>1 DEF Spared
  <2>6. (Over => Over') /\ (Active' /\ run' # "marked" => Active /\ run # "marked")
    BY <1>0, <2>1 DEF Over, Active, Before
  <2>. QED
    BY <2>1, <2>2, <2>3, <2>4, <2>5, <2>6, QuietControl
<1>6. CASE WriteIndex
  <2>1. /\ run \in {"Pending", "Running", "WaitingRemote", "reporting"} /\ stored' \in BOOLEAN
        /\ UNCHANGED <<base, actor, copy, events, made, run, mark, log, cs, entry, boot, sent>>
    BY <1>6 DEF WriteIndex, disk, bounds
  <2>2. TypeOK'
    BY <1>0, <2>1 DEF TypeOK
  <2>3. Before'
    BY <1>0, <2>1 DEF Before, Baseline
  <2>4. /\ boot' = "exec" => boot = "exec"
        /\ actor["hook"].at # "idle" => run' = "reporting" /\ boot' = "up"
        /\ actor["sweep"].at = "ask" => boot' = "up"
        /\ boot' = "up" => ~Plain("sweep")
    BY <1>0, <1>s, <2>1 DEF Threads, Before, Plain
  <2>5. /\ run' \in {"marked", "unpacked", "Pending", "Running", "WaitingRemote"} /\ ~mark' =>
              Redo \/ "unpack" \in events
        /\ run' = "stored" /\ boot' # "exec" => Redo \/ "unpack" \in events
    BY <1>0, <2>1 DEF Spared
  <2>6. (Over => Over') /\ (Active' /\ run' # "marked" => Active /\ run # "marked")
    BY <1>0, <2>1 DEF Over, Active, Before
  <2>. QED
    BY <2>1, <2>2, <2>3, <2>4, <2>5, <2>6, QuietControl
<1>7. CASE Complete
  <2>1. /\ run = "reporting" /\ actor["hook"].at = "idle" /\ run' = "over" /\ stored' = FALSE
        /\ UNCHANGED <<base, actor, copy, events, made, mark, log, cs, entry, boot, sent>>
    BY <1>7 DEF Complete, disk, bounds
  <2>2. TypeOK'
    BY <1>0, <2>1 DEF TypeOK
  <2>3. Before'
    BY <1>0, <2>1 DEF Before, Baseline
  <2>4. /\ boot' = "exec" => boot = "exec"
        /\ actor["hook"].at # "idle" => run' = "reporting" /\ boot' = "up"
        /\ actor["sweep"].at = "ask" => boot' = "up"
        /\ boot' = "up" => ~Plain("sweep")
    BY <1>0, <1>s, <2>1 DEF Threads, Before, Plain
  <2>5. /\ run' \in {"marked", "unpacked", "Pending", "Running", "WaitingRemote"} /\ ~mark' =>
              Redo \/ "unpack" \in events
        /\ run' = "stored" /\ boot' # "exec" => Redo \/ "unpack" \in events
    BY <1>0, <2>1 DEF Spared
  <2>6. (Over => Over') /\ (Active' /\ run' # "marked" => Active /\ run # "marked")
    BY <1>0, <2>1 DEF Over, Active, Before
  <2>. QED
    BY <2>1, <2>2, <2>3, <2>4, <2>5, <2>6, QuietControl
<1>8. CASE FirstStart
  <2>1. /\ boot = "tasks" /\ boot' = "up" /\ actor["sweep"].at = "idle"
        /\ run' = (IF run = "stored" THEN "Pending" ELSE run)
        /\ UNCHANGED <<base, actor, copy, events, made, stored, mark, log, cs, entry, sent>>
    BY <1>8 DEF FirstStart, disk, bounds
  <2>2. TypeOK'
    BY <1>0, <2>1 DEF TypeOK
  <2>3. Before'
    BY <1>0, <2>1 DEF Before, Baseline
  <2>4. /\ boot' = "exec" => boot = "exec"
        /\ actor["hook"].at # "idle" => run' = "reporting" /\ boot' = "up"
        /\ actor["sweep"].at = "ask" => boot' = "up"
        /\ boot' = "up" => ~Plain("sweep")
    BY <1>0, <1>s, <2>1 DEF Threads, Before, Plain
  <2>5. /\ run' \in {"marked", "unpacked", "Pending", "Running", "WaitingRemote"} /\ ~mark' =>
              Redo \/ "unpack" \in events
        /\ run' = "stored" /\ boot' # "exec" => Redo \/ "unpack" \in events
    BY <1>0, <2>1 DEF Spared
  <2>6. (Over => Over') /\ (Active' /\ run' # "marked" => Active /\ run # "marked")
    BY <1>0, <2>1 DEF Over, Active, Before
  <2>. QED
    BY <2>1, <2>2, <2>3, <2>4, <2>5, <2>6, QuietControl
<1>. QED
  BY <1>1, <1>2, <1>3, <1>4, <1>5, <1>6, <1>7, <1>8

\* A task that is forgotten is over, and no thread was at work on it.
LEMMA ForgetControl ==
    ASSUME Control, Forget
    PROVE  /\ Control' /\ ~Over /\ Over' /\ Active /\ run \notin {"none", "marked"}
           /\ \A e \in events : e \in events'
           /\ UNCHANGED <<base, actor, copy, cs, entry, made, sent>>
<1>0. TypeOK /\ Threads /\ Hands /\ Before /\ Spared
  BY DEF Control
<1>1. /\ run \in {"Pending", "Running", "WaitingRemote"} /\ run' = "over" /\ stored' = FALSE
      /\ events' = (IF mark THEN events \cup {"forgotten"} ELSE events)
      /\ UNCHANGED <<base, mark, log, actor, boot, made, sent, copy, cs, entry>>
  BY DEF Forget, disk
<1>2. /\ \A e \in events : e \in events'
      /\ \A e \in {"startup", "again", "overlap", "unpack"} : e \in events' <=> e \in events
  BY <1>1
<1>3. ~Over /\ Over' /\ Active /\ ~Active' /\ run \notin {"none", "marked"}
  BY <1>1 DEF Over, Active
<1>4. {"hook", "sweep", "pull"} \subseteq Actor
  BY DEF Actor
<1>5. \A a \in Actor : (Works(a)' <=> Works(a)) /\ (Plain(a)' <=> Plain(a))
  BY <1>1 DEF Works, Plain
<1>6. Redo' <=> Redo
  BY <1>2 DEF Redo
<1>7. TypeOK'
  BY <1>0, <1>1 DEF TypeOK
<1>8. Threads'
  BY <1>0, <1>1, <1>2, <1>4, <1>5 DEF Threads
<1>9. Hands'
  BY <1>0, <1>1 DEF Hands, InHand, Carries
<1>10. Before'
  BY <1>1 DEF Before
<1>11. Spared'
  BY <1>0, <1>1, <1>2, <1>3, <1>4, <1>5, <1>6 DEF Spared
<1>. QED
  BY <1>1, <1>2, <1>3, <1>7, <1>8, <1>9, <1>10, <1>11 DEF Control

\* The push loop changes the outbox alone.
LEMMA PushControl ==
    ASSUME Control, Push
    PROVE  Control'
<1>1. UNCHANGED <<base, actor, copy, events, made, run, stored, mark, log, cs, boot>>
  BY DEF Push, task
<1>2. entry' = NoDir /\ sent' = sent \cup {entry.holds}
  BY DEF Push
<1>3. entry' \in Dir /\ sent' \subseteq Changeset
  BY <1>2, NoSetLemma, TypeLemma DEF Control
<1>4. TypeOK'
  BY <1>1, <1>3 DEF Control, TypeOK
<1>5. Before'
  BY <1>1, <1>2 DEF Control, Before, NoDir, Baseline
<1>6. (Over => Over') /\ (Active' => Active)
  BY <1>1 DEF Over, Active
<1>7. /\ boot' = "exec" => boot = "exec"
      /\ actor["hook"].at # "idle" => run' = "reporting" /\ boot' = "up"
      /\ actor["sweep"].at = "ask" => boot' = "up"
      /\ boot' = "up" => ~Plain("sweep")
  BY <1>1 DEF Control, Threads
<1>8. /\ run' \in {"marked", "unpacked", "Pending", "Running", "WaitingRemote"} /\ ~mark' =>
            Redo \/ "unpack" \in events
      /\ run' = "stored" /\ boot' # "exec" => Redo \/ "unpack" \in events
  BY <1>1 DEF Control, Spared
<1>. QED
  BY <1>1, <1>4, <1>5, <1>6, <1>7, <1>8, QuietControl

\* unpack_baseline finds no thread at work on the task.
LEMMA UnpackControl ==
    ASSUME Control, Unpack
    PROVE  Control'
<1>1. /\ run = "marked" /\ run' = "unpacked"
      /\ UNCHANGED <<base, stored, mark, log, cs, entry, actor, boot, made, sent>>
      /\ \/ copy' = [sidecar |-> TRUE, tree |-> Baseline] /\ UNCHANGED events
         \/ copy' = NoCopy /\ events' = events \cup {"unpack"}
  BY DEF Unpack
<1>2. TypeOK /\ Threads /\ Hands /\ Before /\ Spared
  BY DEF Control
<1>3. /\ \A a \in Actor : actor[a].at = "idle"
      /\ events = {} /\ copy = NoCopy /\ made = Baseline /\ ~log /\ ~stored
  BY <1>1, <1>2 DEF Before
<1>s. {"hook", "sweep", "pull"} \subseteq Actor
  BY DEF Actor
<1>4. copy' \in Copy
  BY <1>1, <1>2, CopyLemma, BaselineLemma, TypeLemma
<1>5. TypeOK'
  BY <1>1, <1>2, <1>4 DEF TypeOK
<1>6. Threads'
  BY <1>1, <1>2, <1>3, <1>s DEF Threads, Works, Plain
<1>7. Hands'
  BY <1>1, <1>2 DEF Hands, InHand, Carries
<1>8. Before'
  BY <1>1, <1>3 DEF Before, Baseline
<1>9. Spared'
  <2>1. mark \/ Redo \/ "unpack" \in events
    BY <1>1, <1>2 DEF Spared
  <2>2. mark
    BY <1>3, <2>1 DEF Redo
  <2>3. Full' \/ "unpack" \in events'
    BY <1>1, <1>3 DEF Full
  <2>4. "unpack" \in events' => copy' = NoCopy
    BY <1>1, <1>3
  <2>. QED
    BY <1>1, <1>3, <1>s, <2>2, <2>3, <2>4 DEF Spared, Works, Redo
<1>. QED
  BY <1>5, <1>6, <1>7, <1>8, <1>9 DEF Control

\* A tool writes to the copy as long as there is one.
LEMMA EditControl ==
    ASSUME Control, Edit
    PROVE  Control'
<1>1. /\ run = "Running"
      /\ UNCHANGED <<base, run, stored, mark, log, cs, entry, actor, boot, sent, events>>
  BY DEF Edit
<1>2. PICK f \in File, v \in {"none", "new"} :
         /\ made' = [made EXCEPT ![f] = v]
         /\ copy' = IF copy.sidecar THEN [sidecar |-> TRUE, tree |-> [copy.tree EXCEPT ![f] = v]] ELSE copy
  BY DEF Edit
<1>3. TypeOK /\ Threads /\ Hands /\ Before /\ Spared
  BY DEF Control
<1>s. {"hook", "sweep", "pull"} \subseteq Actor
  BY DEF Actor
<1>4. made' \in Tree
  BY <1>2, <1>3, TypeLemma DEF Tree
<1>5. copy' \in Copy /\ (Full => Full') /\ (copy = NoCopy => copy' = NoCopy)
  <2>1. CASE copy.sidecar
    <3> DEFINE t == [copy.tree EXCEPT ![f] = v]
    <3>1. copy \in Copy /\ copy.tree \in Tree
      BY <1>3, TypeLemma
    <3>2. t \in Tree
      BY <3>1 DEF Tree
    <3>3. copy' = [sidecar |-> TRUE, tree |-> t]
      BY <1>2, <2>1
    <3>4. Full => t = made'
      BY <1>2 DEF Full
    <3> HIDE DEF t
    <3>5. copy' \in Copy
      BY <3>1, <3>2, <3>3 DEF Copy
    <3>6. Full => Full'
      BY <3>3, <3>4 DEF Full
    <3>7. copy # NoCopy
      BY <2>1, CopyLemma
    <3>. QED
      BY <3>5, <3>6, <3>7
  <2>2. CASE ~copy.sidecar
    BY <1>2, <1>3, <2>2, TypeLemma DEF Full
  <2>. QED
    BY <2>1, <2>2
<1>6. TypeOK'
  BY <1>1, <1>3, <1>4, <1>5 DEF TypeOK
<1>7. Threads'
  BY <1>1, <1>3 DEF Threads, Works, Plain
<1>8. Hands'
  BY <1>1, <1>3 DEF Hands, InHand, Carries
<1>9. Before'
  BY <1>1, <1>3 DEF Before
<1>10. Spared'
  BY <1>1, <1>3, <1>5 DEF Spared, Works, Plain, Redo, Over, Active
<1>. QED
  BY <1>6, <1>7, <1>8, <1>9, <1>10 DEF Control

\* A thread is at x, with nothing in hand.
Gets(a, x) ==
    ActorType' /\ Others(a) /\ actor'[a].at = x /\ actor'[a].set = NoSet /\ ~actor'[a].clean

\* How a thread gets there.
LEMMA GetsLemma ==
    ASSUME Control, NEW a \in Actor, actor[a].at \in {"idle", "ask"}
    PROVE  /\ \A x \in Stage : At(a, x) => Gets(a, x)
           /\ Return(a) => Gets(a, "idle")
<1>1. TypeOK /\ ActorType /\ actor[a].set = NoSet /\ ~actor[a].clean
  BY TypeLemma DEF Control, Hands, InHand
<1>2. ASSUME NEW x \in Stage, At(a, x) PROVE Gets(a, x)
  BY <1>1, <1>2, AtLemma DEF Gets
<1>3. ASSUME Return(a) PROVE Gets(a, "idle")
  BY <1>1, <1>3, ReturnLemma DEF Gets
<1>. QED
  BY <1>2, <1>3

\* One thread, which was idle or has only asked, goes to x with empty hands; the copy and
\* the outbox are left alone.
LEMMA StartControl ==
    ASSUME Control, NEW a \in Actor, NEW x \in {"idle", "ask", "sidecar", "enqueue"},
           Gets(a, x), actor[a].at \in {"idle", "ask"},
           UNCHANGED <<base, stored, log, copy, cs, entry, made, sent>>,
           run' = run \/ (run' = "reporting" /\ run \in {"Running", "Pending"}),
           mark' = mark \/ (run' = "reporting" /\ mark' = FALSE),
           run \notin {"none", "marked"}, \A e \in events : e \in events',
           "unpack" \in events' => "unpack" \in events /\ (a = "sweep" => x # "ask"),
           boot' = boot \/ (boot = "exec" /\ boot' = "records") \/ (boot = "records" /\ boot' = "tasks"),
           a = "sweep" => boot' # "exec",
           run = "stored" /\ boot' # "exec" => Redo' \/ "unpack" \in events',
           a = "hook" => x = "sidecar" /\ run' = "reporting" /\ boot' = "up",
           a = "pull" => x = "enqueue",
           a = "hook" /\ Works("sweep") => "overlap" \in events',
           a = "sweep" /\ x \notin {"idle", "ask"} /\ actor["hook"].at # "idle" => "overlap" \in events',
           a = "sweep" /\ x = "ask" => boot' = "up",
           actor["hook"].at # "idle" => boot' = "up",
           actor["sweep"].at = "ask" => boot' = "up",
           boot' = "up" => boot = "up",
           a = "sweep" /\ x = "enqueue" => boot' # "up",
           a = "sweep" /\ x = "sidecar" => Over' \/ Redo'
    PROVE  Control'
<1>1. TypeOK /\ Threads /\ Hands /\ Before /\ Spared
  BY DEF Control
<1>2. /\ ActorType' /\ Others(a)
      /\ actor'[a].at = x /\ actor'[a].set = NoSet /\ ~actor'[a].clean
  BY DEF Gets
<1>3. \A b \in Actor \ {a} : actor'[b] = actor[b]
  BY <1>2 DEF Others
<1>s. a \in {"hook", "sweep", "pull"} /\ {"hook", "sweep", "pull"} \subseteq Actor
  BY DEF Actor
<1>4. TypeOK'
  BY <1>1, <1>2 DEF TypeOK, ActorType
<1>5. Plain(a)' <=> x = "enqueue"
  BY <1>2 DEF Plain
<1>6. \A b \in Actor \ {a} : (Plain(b)' <=> Plain(b)) /\ (Works(b)' <=> Works(b))
  BY <1>3 DEF Plain, Works
<1>7. Works(a)' <=> x \notin {"idle", "ask"}
  BY <1>2 DEF Works
<1>8. Threads'
  <2>1. CASE a = "hook"
    BY <1>1, <1>2, <1>3, <1>5, <1>6, <1>7, <1>s, <2>1 DEF Threads
  <2>2. CASE a = "sweep"
    BY <1>1, <1>2, <1>3, <1>5, <1>6, <1>7, <1>s, <2>2 DEF Threads
  <2>3. CASE a = "pull"
    BY <1>1, <1>2, <1>3, <1>5, <1>6, <1>7, <1>s, <2>3 DEF Threads
  <2>. QED
    BY <1>s, <2>1, <2>2, <2>3
<1>9. Hands'
  BY <1>1, <1>2, <1>3 DEF Hands, InHand, Carries
<1>10. Before'
  BY <1>1 DEF Before, Baseline
<1>11. (Redo => Redo') /\ (Over => Over') /\ (Full' <=> Full) /\ (Active' => Active)
  BY DEF Redo, Over, Full, Active
<1>12. Spared'
  <2>1. Works("sweep")' /\ ~Plain("sweep")' => Over' \/ Redo'
    BY <1>1, <1>2, <1>5, <1>6, <1>7, <1>11, <1>s DEF Spared
  <2>2. "unpack" \in events' => copy' = NoCopy /\ actor'["sweep"].at # "ask"
    BY <1>1, <1>2, <1>3, <1>s DEF Spared
  <2>3. run' \in {"marked", "unpacked", "Pending", "Running", "WaitingRemote"} /\ ~mark' =>
          Redo' \/ "unpack" \in events'
    BY <1>1, <1>11 DEF Spared
  <2>4. Active' /\ run' # "marked" => Full' \/ "unpack" \in events' \/ Redo'
    BY <1>1, <1>11 DEF Spared
  <2>5. run' = "stored" /\ boot' # "exec" => Redo' \/ "unpack" \in events'
    OBVIOUS
  <2>. QED
    BY <2>1, <2>2, <2>3, <2>4, <2>5 DEF Spared
<1>. QED
  BY <1>4, <1>8, <1>9, <1>10, <1>12 DEF Control

\* A meeting of the two finishers is recorded.
LEMMA MeetsLemma ==
    ASSUME NEW b, Meets(b)
    PROVE  /\ \A e \in events : e \in events'
           /\ actor[b].at # "idle" => "overlap" \in events'
           /\ \A e \in {"unpack", "startup", "again", "record", "skipped", "residue"} :
                 e \in events' => e \in events
  BY DEF Meets

\* The hook starts when the task is reported, and there is one.
LEMMA ReportControl ==
    ASSUME Control, Report
    PROVE  Control'
<1>1. /\ run \in {"Running", "Pending"} /\ boot = "up" /\ run' = "reporting" /\ mark' = FALSE
      /\ At("hook", "sidecar") /\ Meets("sweep")
      /\ UNCHANGED <<base, stored, log, copy, cs, entry, boot, made, sent>>
  BY DEF Report, disk
<1>2. actor["hook"].at = "idle" /\ "hook" \in Actor /\ "sidecar" \in Stage
  BY <1>1 DEF Control, Threads, Actor, Stage
<1>3. Gets("hook", "sidecar")
  BY <1>1, <1>2, GetsLemma
<1>4. /\ \A e \in events : e \in events'
      /\ Works("sweep") => "overlap" \in events'
      /\ "unpack" \in events' => "unpack" \in events
  BY <1>1, MeetsLemma DEF Works
<1>. QED
  BY <1>1, <1>2, <1>3, <1>4, StartControl

\* The periodic sweep asks only for a copy that is there.
LEMMA PeriodicSweepControl ==
    ASSUME Control, PeriodicSweep
    PROVE  Control'
<1>1. /\ boot = "up" /\ actor["sweep"].at = "idle" /\ copy.sidecar /\ At("sweep", "ask")
      /\ UNCHANGED <<base, run, stored, mark, log, copy, cs, entry, boot, made, sent, events>>
  BY DEF PeriodicSweep, disk, task
<1>2. "sweep" \in Actor /\ "ask" \in Stage
  BY DEF Actor, Stage
<1>3. Gets("sweep", "ask")
  BY <1>1, <1>2, GetsLemma
<1>4. copy # NoCopy
  BY <1>1, CopyLemma
<1>5. run \notin {"none", "marked"} /\ "unpack" \notin events
  BY <1>4 DEF Control, Before, Spared
<1>6. run = "stored" /\ boot' # "exec" => Redo' \/ "unpack" \in events'
  BY <1>1 DEF Control, Spared, Redo
<1>. QED
  BY <1>1, <1>2, <1>3, <1>5, <1>6, StartControl

\* The placeholder is there as long as the task is active, so the sweep passes it over.
LEMMA SkipRunningControl ==
    ASSUME Control, SkipRunning
    PROVE  Control'
<1>1. /\ actor["sweep"].at = "ask"
      /\ UNCHANGED <<base, run, stored, mark, log, copy, cs, entry, boot, made, sent>>
  BY DEF SkipRunning, disk, task
<1>2. "sweep" \in Actor /\ "sidecar" \in Stage
  BY DEF Actor, Stage
<1>3. boot = "up" /\ run \notin {"none", "marked"} /\ "unpack" \notin events
  BY <1>1, <1>2 DEF Control, Threads, Before, Spared
<1>4. run = "stored" => Redo
  BY <1>3 DEF Control, Spared
<1>5. CASE Return("sweep") /\ UNCHANGED events
  <2>1. Gets("sweep", "idle")
    BY <1>1, <1>2, <1>5, GetsLemma
  <2>2. Redo' <=> Redo
    BY <1>5 DEF Redo
  <2>. QED
    BY <1>1, <1>2, <1>3, <1>4, <1>5, <2>1, <2>2, StartControl
<1>6. CASE ~mark /\ At("sweep", "sidecar") /\ Meets("hook")
  <2>1. Gets("sweep", "sidecar")
    BY <1>1, <1>2, <1>6, GetsLemma
  <2>2. /\ \A e \in events : e \in events'
        /\ actor["hook"].at # "idle" => "overlap" \in events'
        /\ "unpack" \in events' => "unpack" \in events
    BY <1>6, MeetsLemma
  <2>3. Redo => Redo'
    BY <2>2 DEF Redo
  <2>4. Over \/ Redo
    BY <1>3, <1>4, <1>6 DEF Control, TypeOK, Spared, Over
  <2>5. Over' <=> Over
    BY <1>1 DEF Over
  <2>. QED
    BY <1>1, <1>2, <1>3, <1>4, <2>1, <2>2, <2>3, <2>4, <2>5, StartControl
<1>. QED
  BY <1>5, <1>6 DEF SkipRunning

\* A record that is queued while the copy waits is recorded.
LEMMA RecordLemma ==
    ASSUME events' = RecordAlone
    PROVE  /\ \A e \in events : e \in events'
           /\ \A e \in {"unpack", "startup", "again", "overlap", "skipped", "residue"} :
                 e \in events' => e \in events
           /\ copy.sidecar => "record" \in events'
  BY DEF RecordAlone

\* A pull comes with nothing in hand.
LEMMA PullControl ==
    ASSUME Control, Pull
    PROVE  Control'
<1>1. /\ actor["pull"].at = "idle" /\ log /\ At("pull", "enqueue") /\ events' = RecordAlone
      /\ UNCHANGED <<base, run, stored, mark, log, copy, cs, entry, boot, made, sent>>
  BY DEF Pull, disk, task
<1>2. "pull" \in Actor /\ "enqueue" \in Stage /\ "pull" # "sweep" /\ "pull" # "hook"
  BY DEF Actor, Stage
<1>3. Gets("pull", "enqueue")
  BY <1>1, <1>2, GetsLemma
<1>4. run \notin {"none", "marked"}
  BY <1>1 DEF Control, Before
<1>5. /\ \A e \in events : e \in events'
      /\ "unpack" \in events' => "unpack" \in events
  BY <1>1, RecordLemma
<1>6. run = "stored" /\ boot' # "exec" => Redo' \/ "unpack" \in events'
  BY <1>1, <1>5 DEF Control, Spared, Redo
<1>7. /\ actor["hook"].at # "idle" => boot' = "up"
      /\ actor["sweep"].at = "ask" => boot' = "up"
  BY <1>1 DEF Control, Threads
<1>. QED
  BY <1>1, <1>2, <1>3, <1>4, <1>5, <1>6, <1>7, StartControl

\* The sweep at startup asks nobody, which is recorded if the task is active.
LEMMA StartupSweepControl ==
    ASSUME Control, StartupSweep
    PROVE  Control'
<1>1. /\ boot = "exec" /\ boot' = "records"
      /\ UNCHANGED <<base, run, stored, mark, log, copy, cs, entry, made, sent>>
  BY DEF StartupSweep, disk, task
<1>2. TypeOK /\ Threads /\ Before /\ Spared
  BY DEF Control
<1>3. actor["sweep"].at = "idle" /\ actor["hook"].at = "idle"
  BY <1>1, <1>2 DEF Threads
<1>4. CASE copy.sidecar
  <2>1. At("sweep", "sidecar") /\ events' = IF Active THEN events \cup {"startup"} ELSE events
    BY <1>4 DEF StartupSweep
  <2>2. "sweep" \in Actor /\ "sidecar" \in Stage
    BY DEF Actor, Stage
  <2>3. Gets("sweep", "sidecar")
    BY <1>3, <2>1, <2>2, GetsLemma
  <2>4. copy # NoCopy
    BY <1>4, CopyLemma
  <2>5. run \notin {"none", "marked"} /\ "unpack" \notin events
    BY <1>2, <2>4 DEF Before, Spared
  <2>6. Active \/ Over
    BY <1>2, <2>5 DEF TypeOK, Active, Over
  <2>7. Over' \/ Redo'
    BY <1>1, <2>1, <2>6 DEF Over, Redo
  <2>8. run = "stored" => Redo'
    BY <2>1 DEF Active, Redo
  <2>9. /\ \A e \in events : e \in events'
        /\ "unpack" \in events' => "unpack" \in events
    BY <2>1
  <2>. QED
    BY <1>1, <1>3, <2>2, <2>3, <2>5, <2>7, <2>8, <2>9, StartControl
<1>5. CASE ~copy.sidecar
  <2>1. UNCHANGED <<actor, events>>
    BY <1>5 DEF StartupSweep
  <2>2. TypeOK'
    BY <1>1, <1>2, <2>1 DEF TypeOK
  <2>3. Before'
    BY <1>1, <1>2, <2>1 DEF Before, Baseline
  <2>4. ~Full
    BY <1>5 DEF Full
  <2>5. run = "stored" => Redo \/ "unpack" \in events
    BY <1>2, <2>4 DEF Spared, Active
  <2>6. run' \in {"marked", "unpacked", "Pending", "Running", "WaitingRemote"} /\ ~mark' =>
           Redo \/ "unpack" \in events
    BY <1>1, <1>2 DEF Spared
  <2>7. (Over => Over') /\ (Active' => Active)
    BY <1>1 DEF Over, Active
  <2>. QED
    BY <1>1, <1>3, <2>1, <2>2, <2>3, <2>5, <2>6, <2>7, QuietControl
<1>. QED
  BY <1>2, <1>4, <1>5, TypeLemma

\* sweep_startup comes when the sweep of work copies has returned.
LEMMA StartupRecordsControl ==
    ASSUME Control, StartupRecords
    PROVE  Control'
<1>1. /\ boot = "records" /\ boot' = "tasks" /\ actor["sweep"].at = "idle"
      /\ UNCHANGED <<base, run, stored, mark, log, copy, cs, entry, made, sent>>
  BY DEF StartupRecords, disk, task
<1>2. TypeOK /\ Threads /\ Before /\ Spared
  BY DEF Control
<1>3. actor["hook"].at = "idle"
  BY <1>1, <1>2 DEF Threads
<1>4. run' = "stored" => Redo \/ "unpack" \in events
  BY <1>1, <1>2 DEF Spared
<1>5. CASE log /\ At("sweep", "enqueue") /\ events' = RecordAlone
  <2>1. /\ \A e \in events : e \in events'
        /\ "unpack" \in events' => "unpack" \in events
    BY <1>5, RecordLemma
  <2>2. "sweep" \in Actor /\ "enqueue" \in Stage
    BY DEF Actor, Stage
  <2>3. Gets("sweep", "enqueue")
    BY <1>1, <1>5, <2>2, GetsLemma
  <2>4. run \notin {"none", "marked"}
    BY <1>2, <1>5 DEF Before
  <2>5. Redo => Redo'
    BY <2>1 DEF Redo
  <2>. QED
    BY <1>1, <1>3, <1>4, <2>1, <2>2, <2>3, <2>4, <2>5, StartControl
<1>6. CASE UNCHANGED <<actor, events>>
  <2>1. TypeOK'
    BY <1>1, <1>2, <1>6 DEF TypeOK
  <2>2. Before'
    BY <1>1, <1>2, <1>6 DEF Before, Baseline
  <2>3. run' \in {"marked", "unpacked", "Pending", "Running", "WaitingRemote"} /\ ~mark' =>
           Redo \/ "unpack" \in events
    BY <1>1, <1>2 DEF Spared
  <2>4. (Over => Over') /\ (Active' => Active)
    BY <1>1 DEF Over, Active
  <2>. QED
    BY <1>1, <1>3, <1>4, <1>6, <2>1, <2>2, <2>3, <2>4, QuietControl
<1>. QED
  BY <1>5, <1>6 DEF StartupRecords

\* A crash forgets the threads; what it leaves on disk is not touched before the start.
LEMMA CrashLemma ==
    ASSUME Crash
    PROVE  /\ UNCHANGED <<base, stored, log, copy, cs, entry, made, sent>>
           /\ mark' = FALSE /\ boot' = "exec"
           /\ run' = IF run = "none" THEN run ELSE IF stored THEN "stored" ELSE "over"
           /\ ActorType'
           /\ \A a \in Actor : actor'[a].at = "idle" /\ actor'[a].set = NoSet /\ ~actor'[a].clean
           /\ \A e \in events : e \in events'
           /\ \A e \in {"unpack", "startup", "record", "overlap", "skipped"} : e \in events' => e \in events
           /\ (\E a \in Actor : actor[a].at = "removeRest") => "residue" \in events'
           /\ "again" \in events' <=> "again" \in events \/ (run = "reporting" /\ stored)
           /\ "residue" \in events' => "residue" \in events \/ \E a \in Actor : actor[a].at = "removeRest"
<1>1. actor' = [a \in Actor |-> Idle]
  BY DEF Crash
<1>2. ActorType' /\ \A a \in Actor : actor'[a].at = "idle" /\ actor'[a].set = NoSet /\ ~actor'[a].clean
  BY <1>1, IdleLemma DEF ActorType
<1>. QED
  BY <1>2 DEF Crash, disk

\* The placeholder is gone, but so are the threads.
LEMMA CrashControl ==
    ASSUME Control, Crash
    PROVE  Control'
<1>1. /\ UNCHANGED <<base, stored, log, copy, cs, entry, made, sent>>
      /\ mark' = FALSE /\ boot' = "exec"
      /\ run' = IF run = "none" THEN run ELSE IF stored THEN "stored" ELSE "over"
  BY CrashLemma
<1>2. ActorType' /\ \A a \in Actor : actor'[a].at = "idle" /\ actor'[a].set = NoSet /\ ~actor'[a].clean
  BY CrashLemma
<1>3. /\ "unpack" \in events' => "unpack" \in events
      /\ \A e \in events : e \in events'
      /\ run = "reporting" /\ stored => "again" \in events'
  BY CrashLemma
<1>4. TypeOK /\ Threads /\ Before /\ Spared
  BY DEF Control
<1>s. {"hook", "sweep", "pull"} \subseteq Actor
  BY DEF Actor
<1>5. TypeOK'
  BY <1>1, <1>2, <1>4 DEF TypeOK, ActorType
<1>6. Threads'
  BY <1>1, <1>2, <1>s DEF Threads, Works, Plain
<1>7. Hands'
  BY <1>2 DEF Hands, InHand, Carries
<1>8. Before'
  <2>1. CASE run = "none"
    <3>1. /\ copy = NoCopy /\ entry.is # "whole" /\ events = {} /\ ~log /\ ~stored /\ made = Baseline
          /\ \A a \in Actor : actor[a].at = "idle"
      BY <1>4, <2>1 DEF Before
    <3>2. events' = {}
      BY <2>1, <3>1 DEF Crash
    <3>. QED
      BY <1>1, <1>2, <2>1, <3>1, <3>2 DEF Before, Baseline
  <2>2. CASE run # "none"
    BY <1>1, <1>4, <2>2 DEF Before, TypeOK
  <2>. QED
    BY <2>1, <2>2
<1>9. Spared'
  <2>1. Active' => run' = "stored" /\ stored /\ run # "none"
    BY <1>1 DEF Active
  <2>2. Active' => (Active /\ run # "marked") \/ run = "reporting"
    BY <1>4, <2>1 DEF TypeOK, Active, Before
  <2>3. Redo => Redo'
    BY <1>3 DEF Redo
  <2>4. Active' => Full' \/ "unpack" \in events' \/ Redo'
    BY <1>1, <1>3, <1>4, <2>1, <2>2, <2>3 DEF Spared, Full, Redo
  <2>5. run' \notin {"marked", "unpacked", "Pending", "Running", "WaitingRemote"}
    BY <1>1
  <2>. QED
    BY <1>1, <1>2, <1>3, <1>4, <1>s, <2>4, <2>5 DEF Spared, Works
<1>. QED
  BY <1>5, <1>6, <1>7, <1>8, <1>9 DEF Control

\* Nothing has happened.
LEMMA InitControl ==
    ASSUME Init
    PROVE  Control
<1>1. /\ run = "none" /\ ~stored /\ ~mark /\ ~log /\ copy = NoCopy /\ cs = NoDir /\ entry = NoDir
      /\ actor = [a \in Actor |-> Idle] /\ boot = "exec" /\ made = Baseline /\ sent = {} /\ events = {}
      /\ base \subseteq File
  BY DEF Init
<1>2. ActorType /\ \A a \in Actor : actor[a].at = "idle" /\ actor[a].set = NoSet /\ ~actor[a].clean
  BY <1>1, IdleLemma DEF ActorType
<1>s. {"hook", "sweep", "pull"} \subseteq Actor
  BY DEF Actor
<1>3. made \in Tree /\ copy \in Copy /\ cs \in Dir /\ entry \in Dir
  BY <1>1, BaselineLemma, CopyLemma, NoSetLemma
<1>4. TypeOK
  BY <1>1, <1>2, <1>3 DEF TypeOK, ActorType, Init
<1>5. Threads /\ Hands
  BY <1>1, <1>2, <1>s DEF Threads, Works, Plain, Hands, InHand, Carries
<1>6. Before
  BY <1>1, <1>2 DEF Before, NoDir
<1>7. Spared
  BY <1>1, <1>2, <1>s DEF Spared, Works, Active
<1>. QED
  BY <1>4, <1>5, <1>6, <1>7 DEF Control

\* A stuttering step keeps Control.
LEMMA StutterControl ==
    ASSUME Control, UNCHANGED vars
    PROVE  Control'
<1>1. UNCHANGED <<base, actor, copy, events, made, run, stored, mark, log, cs, entry, boot, sent>>
  BY DEF vars
<1>2. TypeOK' /\ Before'
  BY <1>1 DEF Control, TypeOK, Before, Baseline
<1>3. (Over => Over') /\ (Active' => Active)
  BY <1>1 DEF Over, Active
<1>4. /\ actor["hook"].at # "idle" => run' = "reporting" /\ boot' = "up"
      /\ actor["sweep"].at = "ask" => boot' = "up"
      /\ boot' = "up" => ~Plain("sweep")
  BY <1>1 DEF Control, Threads
<1>5. /\ run' \in {"marked", "unpacked", "Pending", "Running", "WaitingRemote"} /\ ~mark' =>
            Redo \/ "unpack" \in events
      /\ run' = "stored" /\ boot' # "exec" => Redo \/ "unpack" \in events
  BY <1>1 DEF Control, Spared
<1>. QED
  BY <1>1, <1>2, <1>3, <1>4, <1>5, QuietControl

\* Where the threads are, for any files and bounds: the hook runs only while the task is
\* reported, a pull never has a change-set, the two finishers meet only as recorded, and a
\* sweep is at work on the copy of an active task only after it was redone.
THEOREM ThreadsInPlace == Spec => []Control
<1>1. Init => Control
  BY InitControl
<1>2. Control /\ [Next]_vars => Control'
  <2> SUFFICES ASSUME Control, [Next]_vars PROVE Control'
    OBVIOUS
  <2>1. CASE UNCHANGED vars
    BY <2>1, StutterControl
  <2>2. CASE TaskStep
    BY <2>2, TaskControl, UnpackControl, EditControl, ReportControl, ForgetControl DEF TaskStep
  <2>3. ASSUME NEW a \in Actor, Step(a) \/ Fail(a) PROVE Control'
    BY <2>3, StepMoves, MovesControl
  <2>4. CASE PeriodicSweep \/ SkipRunning \/ Pull \/ Push
    BY <2>4, PeriodicSweepControl, SkipRunningControl, PullControl, PushControl
  <2>5. CASE Crash \/ StartStep
    BY <2>5, CrashControl, StartupSweepControl, StartupRecordsControl, TaskControl DEF StartStep
  <2>. QED
    BY <2>1, <2>2, <2>3, <2>4, <2>5 DEF Next
<1>. QED
  BY <1>1, <1>2, PTL DEF Spec

\* sweep_residual_exec_dirs and the periodic sweep leave the work copy of a task that is
\* queued, running or waiting alone, the sweep at startup aside: the agent finds there
\* what it has left there.
THEOREM ActiveTasksKeepTheirCopy == Spec => []ActiveKeepsCopy
<1>1. Control => ActiveKeepsCopy
  BY DEF Control, Spared, ActiveKeepsCopy, Full, Redo
<1>. QED
  BY <1>1, ThreadsInPlace, PTL

\* Type correctness of the worker's directories and threads.
THEOREM TypesHold == Spec => []TypeOK
<1>1. Control => TypeOK
  BY DEF Control
<1>. QED
  BY <1>1, ThreadsInPlace, PTL

-------------------------------------------------------------------------------
(* What a change-set says.                                                 *)

\* The record alone says nothing.
LEMMA FineNoSet == Fine(NoSet) /\ Fine(NoSet)'
<1>1. \A f \in Debug : NoSet.does[f] = "keep"
  BY DebugAssumption DEF NoSet
<1>. QED
  BY <1>1 DEF Fine, Good

\* What was fine stays fine, as long as the work is not changed or there was none.
LEMMA FineKept ==
    ASSUME base' = base, Untrue => Untrue',
           ~Over \/ (made' = made /\ (Over' \/ Untrue')),
           NEW p, Fine(p)
    PROVE  Fine(p)'
<1>1. made' = made => (Covers(p)' <=> Covers(p))
  BY DEF Covers, Applied, Baseline
<1>. QED
  BY <1>1 DEF Fine, Good

\* All change-sets are old ones, or empty.
Known == {actor[a].set : a \in Actor} \cup {cs.holds, entry.holds, NoSet} \cup sent

\* A step that makes no change-set keeps all of them fine.
LEMMA SetsKept ==
    ASSUME Sets, base' = base, Untrue => Untrue',
           ~Over \/ (made' = made /\ (Over' \/ Untrue')),
           \A a \in Actor : actor'[a].set \in Known,
           cs'.holds \in Known, entry'.holds \in Known, sent' \subseteq Known
    PROVE  Sets'
<1>1. \A p \in Known : Fine(p)
  BY FineNoSet DEF Known, Sets
<1>2. \A p \in Known : Fine(p)'
  BY <1>1, FineKept
<1>3. \A a \in Actor : Fine(actor[a].set)'
  <2>1. SUFFICES ASSUME NEW a \in Actor PROVE Fine(actor[a].set)'
    OBVIOUS
  <2>2. PICK q : q = actor'[a].set
    OBVIOUS
  <2>3. Fine(q)'
    BY <1>2, <2>2
  <2>. QED
    BY <2>2, <2>3 DEF Fine, Good, Covers, Applied
<1>4. Fine(cs.holds)'
  <2>1. PICK q : q = cs'.holds
    OBVIOUS
  <2>2. Fine(q)'
    BY <1>2, <2>1
  <2>. QED
    BY <2>1, <2>2 DEF Fine, Good, Covers, Applied
<1>5. Fine(entry.holds)'
  <2>1. PICK q : q = entry'.holds
    OBVIOUS
  <2>2. Fine(q)'
    BY <1>2, <2>1
  <2>. QED
    BY <2>1, <2>2 DEF Fine, Good, Covers, Applied
<1>6. \A p \in sent' : Fine(p)'
  BY <1>2
<1>. QED
  BY <1>3, <1>4, <1>5, <1>6 DEF Sets

\* What a step of thread a does to the copy it has seen, and to the change-sets.
Sees(a) ==
    /\ Holds(a)' => (Holds(a) \/ copy.sidecar) /\ copy'.sidecar = copy.sidecar
    /\ actor[a].at = "removeRest" => ~copy'.sidecar \/ "residue" \in events'
    /\ copy' # copy => ~copy'.sidecar \/ actor'[a].at = "removeRest"
    /\ cs'.holds \in Known /\ entry'.holds \in Known /\ sent' = sent

\* Where the known change-sets are.
LEMMA KnownLemma ==
    /\ cs.holds \in Known /\ entry.holds \in Known /\ NoSet \in Known
    /\ \A a \in Actor : actor[a].set \in Known
    /\ \A p \in sent : p \in Known
  BY DEF Known

\* One case per step: only diff_tree makes a change-set, and only a removal changes the copy.
LEMMA StepSees ==
    ASSUME Control, NEW a \in Actor, Step(a) \/ Fail(a)
    PROVE  Sees(a) /\ (Diff(a) \/ actor'[a].set \in Known)
<1>0. /\ ActorType /\ entry \in Dir
  BY TypeLemma DEF Control
<1>1. /\ cs.holds \in Known /\ entry.holds \in Known /\ NoSet \in Known
      /\ actor[a].set \in Known
  BY KnownLemma
<1>a. \A x \in Stage : At(a, x) =>
         actor'[a].at = x /\ actor'[a].set = actor[a].set /\ actor'[a].clean = actor[a].clean
  BY <1>0, AtLemma
<1>r. Return(a) => actor'[a].at = "idle" /\ actor'[a].set = NoSet /\ actor'[a].clean = FALSE
  BY <1>0, ReturnLemma
<1>h. InHand(a)
  BY DEF Control, Hands
<1>2. CASE FindSidecar(a)
  <2>1. actor[a].at = "sidecar" /\ UNCHANGED <<copy, cs, entry, sent, events>>
    BY <1>2 DEF FindSidecar, task, disk
  <2>2. CASE copy.sidecar /\ At(a, "read")
    BY <1>1, <1>a, <1>r, <1>h, <2>1, <2>2 DEF Sees, Holds, Plain, InHand, Stage, Carries
  <2>3. CASE At(a, "enqueue")
    BY <1>1, <1>a, <1>r, <1>h, <2>1, <2>3 DEF Sees, Holds, Plain, InHand, Stage, Carries
  <2>4. CASE Return(a)
    BY <1>1, <1>a, <1>r, <1>h, <2>1, <2>4 DEF Sees, Holds, Plain, InHand, Stage, Carries
  <2>. QED
    BY <1>2, <2>1, <2>2, <2>3, <2>4 DEF FindSidecar, AfterEnqueue
<1>3. CASE ReadSidecar(a)
  <2>1. actor[a].at = "read" /\ UNCHANGED <<copy, cs, entry, sent, events>>
    BY <1>3 DEF ReadSidecar, task, disk
  <2>2. CASE copy.sidecar /\ At(a, "diff")
    BY <1>1, <1>a, <1>r, <1>h, <2>1, <2>2 DEF Sees, Holds, Plain, InHand, Stage, Carries
  <2>3. CASE Return(a)
    BY <1>1, <1>a, <1>r, <1>h, <2>1, <2>3 DEF Sees, Holds, Plain, InHand, Stage, Carries
  <2>. QED
    BY <1>3, <2>1, <2>2, <2>3 DEF ReadSidecar, AfterEnqueue
<1>4. CASE Diff(a)
  <2>1. actor[a].at = "diff" /\ UNCHANGED <<copy, cs, entry, sent>>
    BY <1>4 DEF Diff, disk
  <2>. QED
    BY <1>1, <1>4, <2>1 DEF Sees, Holds, Plain
<1>5. CASE WriteFiles(a)
  <2>1. actor[a].at = "write" /\ At(a, "manifest") /\ cs' = NewDir /\ UNCHANGED <<copy, entry, sent, events>>
    BY <1>5 DEF WriteFiles, task
  <2>. QED
    BY <1>1, <1>a, <1>r, <1>h, <2>1 DEF Sees, Holds, Plain, InHand, Stage, Carries, NewDir
<1>6. CASE WriteManifest(a)
  <2>1. /\ actor[a].at = "manifest" /\ At(a, "enqueue")
        /\ cs' = [is |-> "whole", holds |-> actor[a].set] /\ UNCHANGED <<copy, entry, sent, events>>
    BY <1>6 DEF WriteManifest, task
  <2>. QED
    BY <1>1, <1>a, <1>r, <1>h, <2>1 DEF Sees, Holds, Plain, InHand, Stage, Carries
<1>7. CASE CheckEntry(a)
  <2>1. actor[a].at = "enqueue" /\ UNCHANGED <<copy, cs, entry, sent, events>>
    BY <1>7 DEF CheckEntry, task, disk
  <2>2. CASE Return(a)
    BY <1>1, <1>a, <1>r, <1>h, <2>1, <2>2 DEF Sees, Holds, Plain, InHand, Stage, Carries
  <2>3. CASE At(a, "clear")
    BY <1>1, <1>a, <1>r, <1>h, <2>1, <2>3 DEF Sees, Holds, Plain, InHand, Stage, Carries
  <2>4. CASE Carries(a) /\ At(a, "removeSet")
    BY <1>1, <1>a, <1>r, <1>h, <2>1, <2>4 DEF Sees, Holds, Plain, InHand, Stage, Carries
  <2>5. CASE actor[a].clean /\ At(a, "remove")
    BY <1>1, <1>a, <1>r, <1>h, <2>1, <2>5 DEF Sees, Holds, Plain, InHand, Stage, Carries
  <2>. QED
    BY <1>7, <2>1, <2>2, <2>3, <2>4, <2>5 DEF CheckEntry, AfterEnqueue
<1>8. CASE ClearEntry(a)
  <2>1. actor[a].at = "clear" /\ At(a, "copy") /\ entry' = NewDir /\ UNCHANGED <<copy, cs, sent, events>>
    BY <1>8 DEF ClearEntry, task
  <2>. QED
    BY <1>1, <1>a, <1>r, <1>h, <2>1 DEF Sees, Holds, Plain, InHand, Stage, Carries, NewDir
<1>9. CASE CopyPayload(a)
  <2>1. actor[a].at = "copy" /\ UNCHANGED <<copy, cs, sent, events>>
    BY <1>9 DEF CopyPayload, task, disk
  <2>2. CASE Return(a) /\ UNCHANGED entry
    BY <1>1, <1>a, <1>r, <1>h, <2>1, <2>2 DEF Sees, Holds, Plain, InHand, Stage, Carries
  <2>3. CASE /\ At(a, "entry")
             /\ entry' = [NewDir EXCEPT !.holds = IF Carries(a) THEN cs.holds ELSE @]
    BY <1>1, <1>a, <1>r, <1>h, <2>1, <2>3 DEF NewDir, Sees, Holds, Plain, InHand, Stage, Carries
  <2>. QED
    BY <1>9, <2>1, <2>2, <2>3 DEF CopyPayload, AfterEnqueue
<1>10. CASE WriteEntry(a)
  <2>1. /\ actor[a].at = "entry" /\ UNCHANGED <<copy, cs, sent, events>>
        /\ entry'.holds = entry.holds
    BY <1>0, <1>10 DEF WriteEntry, task, Dir
  <2>2. CASE Return(a)
    BY <1>1, <1>a, <1>r, <1>h, <2>1, <2>2 DEF Sees, Holds, Plain, InHand, Stage, Carries
  <2>3. CASE Carries(a) /\ At(a, "removeSet")
    BY <1>1, <1>a, <1>r, <1>h, <2>1, <2>3 DEF Sees, Holds, Plain, InHand, Stage, Carries
  <2>4. CASE actor[a].clean /\ At(a, "remove")
    BY <1>1, <1>a, <1>r, <1>h, <2>1, <2>4 DEF Sees, Holds, Plain, InHand, Stage, Carries
  <2>. QED
    BY <1>10, <2>1, <2>2, <2>3, <2>4 DEF WriteEntry, AfterEnqueue
<1>11. CASE RemoveSet(a)
  <2>1. actor[a].at = "removeSet" /\ At(a, "remove") /\ cs' = NoDir /\ UNCHANGED <<copy, entry, sent, events>>
    BY <1>11 DEF RemoveSet, task
  <2>. QED
    BY <1>1, <1>a, <1>r, <1>h, <2>1 DEF Sees, Holds, Plain, InHand, Stage, Carries, NoDir
<1>12. CASE RemoveCopy(a)
  <2>1. actor[a].at = "remove" /\ UNCHANGED <<cs, entry, sent, events>>
    BY <1>12 DEF RemoveCopy
  <2>2. CASE copy' = NoCopy /\ Return(a)
    BY <1>1, <1>r, <2>1, <2>2, CopyLemma DEF Sees, Holds
  <2>3. CASE copy'.sidecar = copy.sidecar /\ At(a, "removeRest")
    BY <1>1, <1>a, <1>h, <2>1, <2>3 DEF Sees, Holds, Plain, Stage
  <2>4. copy \in Copy
    BY TypeLemma DEF Control
  <2>. QED
    BY <1>12, <2>2, <2>3, <2>4 DEF RemoveCopy, Copy
<1>13. CASE RemoveRest(a)
  <2>1. /\ actor[a].at = "removeRest" /\ Return(a) /\ UNCHANGED <<cs, entry, sent>>
        /\ copy' = NoCopy \/ (UNCHANGED copy /\ "residue" \in events')
    BY <1>13 DEF RemoveRest
  <2>. QED
    BY <1>1, <1>r, <2>1, CopyLemma DEF Sees, Holds
<1>14. CASE Fail(a)
  <2>1. /\ actor[a].at # "removeRest" /\ Return(a) /\ UNCHANGED <<copy, cs, entry, sent>>
    BY <1>14 DEF Fail, disk
  <2>. QED
    BY <1>1, <1>r, <2>1 DEF Sees, Holds
<1>. QED
  BY <1>2, <1>3, <1>4, <1>5, <1>6, <1>7, <1>8, <1>9, <1>10, <1>11, <1>12, <1>13, <1>14 DEF Step

\* A thread keeps the copy it has seen from being taken by the other finisher.
LEMMA SeesKept ==
    ASSUME Control, Seen, NEW a \in Actor, Moves(a), Sees(a)
    PROVE  Seen'
<1>1. /\ UNCHANGED <<run, made>> /\ Works(a)
      /\ \A e \in events : e \in events'
      /\ copy' = copy \/ (a # "pull" /\ ~Plain(a))
  BY DEF Moves
<1>2. \A b \in Actor \ {a} : actor'[b] = actor[b] /\ (Holds(b)' <=> Holds(b))
  BY DEF Moves, Others, Holds, Plain
<1>3. (Over' <=> Over) /\ (Untrue => Untrue')
  BY <1>1 DEF Over, Untrue, Redo
<1>s. a \in {"hook", "sweep", "pull"} /\ Actor = {"hook", "sweep", "pull"}
  BY DEF Actor
<1>4. ASSUME NEW b \in Actor, Holds(b)'
      PROVE  copy'.sidecar \/ "overlap" \in events'
  <2>1. CASE b = a
    BY <1>1, <1>4, <2>1 DEF Sees, Seen
  <2>2. CASE b # a /\ copy' # copy
    <3>1. Holds(b) /\ Works(b) /\ b # "pull"
      BY <1>2, <1>4, <2>2 DEF Holds, Works, Control, Threads
    <3>. QED
      BY <1>1, <1>s, <2>2, <3>1 DEF Control, Threads, Works
  <2>3. CASE b # a /\ copy' = copy
    BY <1>1, <1>2, <1>4, <2>3 DEF Seen
  <2>. QED
    BY <2>1, <2>2, <2>3
<1>5. ASSUME Over', copy'.sidecar
      PROVE  Full' \/ Untrue' \/ \E b \in Actor : actor'[b].at = "removeRest"
  <2>1. CASE copy' # copy
    BY <1>5, <2>1 DEF Sees
  <2>2. CASE copy' = copy
    <3>1. Full \/ Untrue \/ \E b \in Actor : actor[b].at = "removeRest"
      BY <1>3, <1>5, <2>2 DEF Seen
    <3>2. Full => Full'
      BY <1>1, <2>2 DEF Full
    <3>3. actor[a].at = "removeRest" => Untrue'
      BY <1>5 DEF Sees, Untrue
    <3>. QED
      BY <1>2, <1>3, <3>1, <3>2, <3>3
  <2>. QED
    BY <2>1, <2>2
<1>. QED
  BY <1>4, <1>5 DEF Seen

\* A task whose copy a thread compares is over, and the copy is what it has left, unless
\* it is recorded why not.
LEMMA DiffFine ==
    ASSUME Truth, NEW a \in Actor, Diff(a)
    PROVE  Fine(actor[a].set)'
<1>0. Control /\ Seen /\ Sets /\ TypeOK /\ Threads /\ Spared
  BY DEF Truth, Control
<1>1. actor[a].at = "diff" /\ UNCHANGED <<base, run, made>>
  BY DEF Diff, task
<1>2. base \subseteq File /\ copy.tree \in Tree /\ ActorType
  BY <1>0, TypeLemma
<1>3. PICK locked \in SUBSET {f \in File \ Debug : copy.tree[f] # "none"} :
         \E late \in SUBSET {f \in File \ (Debug \cup locked) : copy.tree[f] \notin {"none", Baseline[f]}} :
            LET set == DiffTree(copy.tree, locked, late) IN
            \/ actor' = [actor EXCEPT ![a] = [at |-> "enqueue", set |-> NoSet, clean |-> TRUE]]
            \/ actor' = [actor EXCEPT ![a] = [at |-> "write", set |-> set, clean |-> TRUE]]
  BY DEF Diff
<1>4. PICK late \in SUBSET {f \in File \ (Debug \cup locked) : copy.tree[f] \notin {"none", Baseline[f]}} :
         LET set == DiffTree(copy.tree, locked, late) IN
         \/ actor' = [actor EXCEPT ![a] = [at |-> "enqueue", set |-> NoSet, clean |-> TRUE]]
         \/ actor' = [actor EXCEPT ![a] = [at |-> "write", set |-> set, clean |-> TRUE]]
  BY <1>3
<1>5. PICK p : p = DiffTree(copy.tree, locked, late)
  OBVIOUS
<1>6. p \in Changeset
  BY <1>2, <1>5, DiffType
<1>7. actor'[a].set = NoSet \/ actor'[a].set = p
  <2>1. CASE actor' = [actor EXCEPT ![a] = [at |-> "enqueue", set |-> NoSet, clean |-> TRUE]]
    BY <1>2, <2>1, NoSetLemma, GetLemma DEF Stage
  <2>2. CASE actor' = [actor EXCEPT ![a] = [at |-> "write", set |-> p, clean |-> TRUE]]
    BY <1>2, <1>6, <2>2, GetLemma DEF Stage
  <2>. QED
    BY <1>4, <1>5, <2>1, <2>2
<1>8. Fine(p)
  <2>1. \A f \in Debug : p.does[f] = "keep"
    BY <1>2, <1>5, DiffLemma, DebugAssumption
  <2>2. \A f \in File : f \notin Debug \cup p.skipped => Applied(p, f) = copy.tree[f]
    BY <1>2, <1>5, DiffLemma
  <2>3. Full => Covers(p)
    BY <2>2 DEF Full, Covers
  <2>4. Holds(a) /\ Works(a) /\ ~Plain(a)
    BY <1>1 DEF Holds, Plain, Works
  <2>s. a \in {"hook", "sweep", "pull"} /\ Actor = {"hook", "sweep", "pull"}
    BY DEF Actor
  <2>5. Over \/ Redo
    BY <1>0, <1>1, <2>4, <2>s DEF Threads, Spared, Over
  <2>6. copy.sidecar \/ Untrue
    BY <1>0, <2>4 DEF Seen, Untrue
  <2>7. ASSUME NEW b \in Actor, actor[b].at = "removeRest" PROVE Untrue
    BY <1>0, <1>1, <2>4, <2>7, <2>s DEF Threads, Works, Plain, Untrue
  <2>8. (Over /\ Full) \/ Untrue
    BY <1>0, <2>5, <2>6, <2>7 DEF Seen, Untrue
  <2>. QED
    BY <2>1, <2>3, <2>8 DEF Fine, Good
<1>9. \A e \in events : e \in events'
  BY DEF Diff
<1>10. (Untrue => Untrue') /\ (Over' <=> Over)
  BY <1>1, <1>9 DEF Untrue, Redo, Over
<1>11. Fine(p)' /\ Fine(NoSet)'
  BY <1>1, <1>8, <1>10, FineKept, FineNoSet
<1>12. PICK q : q = actor'[a].set
  OBVIOUS
<1>13. Fine(q)'
  BY <1>7, <1>11, <1>12
<1>. QED
  BY <1>12, <1>13 DEF Fine, Good, Covers, Applied

\* A step of a thread keeps Truth.
LEMMA StepTruth ==
    ASSUME Truth, NEW a \in Actor, Step(a) \/ Fail(a)
    PROVE  Truth'
<1>1. Control /\ Seen /\ Sets
  BY DEF Truth
<1>2. Moves(a) /\ Sees(a) /\ (Diff(a) \/ actor'[a].set \in Known)
  BY <1>1, StepMoves, StepSees
<1>3. Control' /\ Seen'
  BY <1>1, <1>2, MovesControl, SeesKept
<1>4. /\ UNCHANGED <<base, run, made>> /\ \A e \in events : e \in events'
      /\ \A b \in Actor \ {a} : actor'[b] = actor[b]
  BY <1>2 DEF Moves, Others
<1>5. (Untrue => Untrue') /\ (Over' <=> Over)
  BY <1>4 DEF Untrue, Redo, Over
<1>6. \A b \in Actor \ {a} : actor'[b].set \in Known
  BY <1>4, KnownLemma
<1>7. cs'.holds \in Known /\ entry'.holds \in Known /\ sent' \subseteq Known
  BY <1>2, KnownLemma DEF Sees
<1>8. Sets'
  <2>1. CASE actor'[a].set \in Known
    BY <1>1, <1>4, <1>5, <1>6, <1>7, <2>1, SetsKept
  <2>2. CASE Diff(a)
    <3>1. \A p \in Known : Fine(p)
      BY <1>1, FineNoSet DEF Known, Sets
    <3>2. \A p \in Known : Fine(p)'
      BY <1>4, <1>5, <3>1, FineKept
    <3>3. \A b \in Actor : Fine(actor[b].set)'
      <4>1. SUFFICES ASSUME NEW b \in Actor, b # a PROVE Fine(actor[b].set)'
        BY <2>2, DiffFine
      <4>2. PICK q : q = actor'[b].set
        OBVIOUS
      <4>3. Fine(q)'
        BY <1>6, <3>2, <4>1, <4>2
      <4>. QED
        BY <4>2, <4>3 DEF Fine, Good, Covers, Applied
    <3>4. UNCHANGED <<cs, entry, sent>>
      BY <2>2 DEF Diff, disk
    <3>5. PICK p, q : p = cs.holds /\ q = entry.holds
      OBVIOUS
    <3>6. Fine(p)' /\ Fine(q)'
      BY <3>2, <3>5, KnownLemma
    <3>7. Fine(cs.holds)' /\ Fine(entry.holds)'
      BY <3>4, <3>5, <3>6 DEF Fine, Good, Covers, Applied
    <3>8. \A s \in sent' : Fine(s)'
      BY <3>2, <3>4, KnownLemma
    <3>. QED
      BY <3>3, <3>7, <3>8 DEF Sets
  <2>. QED
    BY <1>2, <2>1, <2>2
<1>. QED
  BY <1>3, <1>8 DEF Truth

\* Copy and work are left alone, and no thread sees a copy that it has not seen before.
LEMMA CalmTruth ==
    ASSUME Truth, Control', UNCHANGED <<base, copy, cs, made>>,
           \A e \in events : e \in events',
           \A b \in Actor : \/ actor'[b] = actor[b]
                            \/ /\ actor'[b].set = NoSet /\ ~Holds(b)'
                               /\ actor[b].at = "removeRest" => "residue" \in events',
           entry'.holds \in Known, sent' \subseteq Known,
           Over => Over' \/ Untrue',
           Over' => Over \/ (Active /\ run # "marked") \/ copy = NoCopy
    PROVE  Truth'
<1>1. Control /\ Seen /\ Sets /\ Spared
  BY DEF Truth, Control
<1>2. (Untrue => Untrue') /\ (Redo => Untrue) /\ (Full' <=> Full)
  BY DEF Untrue, Redo, Full
<1>3. \A b \in Actor : actor'[b].set \in Known
  BY KnownLemma
<1>4. cs'.holds \in Known
  BY KnownLemma
<1>5. Sets'
  BY <1>1, <1>2, <1>3, <1>4, SetsKept
<1>6. \A b \in Actor : Holds(b)' => Holds(b)
  BY DEF Holds, Plain
<1>7. \A b \in Actor : Holds(b)' => copy'.sidecar \/ "overlap" \in events'
  BY <1>1, <1>6 DEF Seen
<1>8. ASSUME Over', copy'.sidecar
      PROVE  Full' \/ Untrue' \/ \E b \in Actor : actor'[b].at = "removeRest"
  <2>1. copy # NoCopy
    BY <1>8, CopyLemma
  <2>2. CASE Over
    <3>1. Full \/ Untrue \/ \E b \in Actor : actor[b].at = "removeRest"
      BY <1>1, <1>8, <2>2 DEF Seen
    <3>2. \A b \in Actor : actor[b].at = "removeRest" => actor'[b].at = "removeRest" \/ Untrue'
      BY DEF Untrue
    <3>. QED
      BY <1>2, <3>1, <3>2
  <2>3. CASE Active /\ run # "marked"
    BY <1>1, <1>2, <2>1, <2>3 DEF Spared
  <2>. QED
    BY <1>8, <2>1, <2>2, <2>3
<1>9. Seen'
  BY <1>7, <1>8 DEF Seen
<1>. QED
  BY <1>5, <1>9 DEF Truth

\* The steps of the task that touch no directory.
LEMMA TaskTruth ==
    ASSUME Truth,
           Handle \/ Submit \/ Start \/ Suspend \/ Resume \/ WriteIndex \/ Complete \/ FirstStart
    PROVE  Truth'
<1>1. UNCHANGED <<base, actor, copy, events, made, cs, entry, sent>>
  BY DEF Handle, Submit, Start, Suspend, Resume, WriteIndex, Complete, FirstStart, disk
<1>2. Control'
  BY TaskControl DEF Truth
<1>3. /\ Over => Over'
      /\ Over' => Over \/ (Active /\ run # "marked")
  BY DEF Handle, Submit, Start, Suspend, Resume, WriteIndex, Complete, FirstStart, Over, Active
<1>4. entry'.holds \in Known /\ sent' \subseteq Known
  BY <1>1, KnownLemma
<1>. QED
  BY <1>1, <1>2, <1>3, <1>4, CalmTruth

\* A task that is forgotten.
LEMMA ForgetTruth ==
    ASSUME Truth, Forget
    PROVE  Truth'
<1>1. Control
  BY DEF Truth
<1>2. entry'.holds \in Known /\ sent' \subseteq Known
  BY <1>1, ForgetControl, KnownLemma
<1>. QED
  BY <1>1, <1>2, ForgetControl, CalmTruth

\* What is delivered was queued.
LEMMA PushTruth ==
    ASSUME Truth, Push
    PROVE  Truth'
<1>1. UNCHANGED <<base, actor, copy, events, made, cs, run>>
  BY DEF Push, task
<1>2. Control'
  BY PushControl DEF Truth
<1>3. Over' <=> Over
  BY <1>1 DEF Over
<1>4. entry'.holds \in Known /\ sent' \subseteq Known
  BY KnownLemma DEF Push, NoDir
<1>. QED
  BY <1>1, <1>2, <1>3, <1>4, CalmTruth

\* A thread that starts has not seen the copy.
LEMMA GetsHolds ==
    ASSUME NEW a \in Actor, NEW x \in {"idle", "ask", "sidecar", "enqueue"}, Gets(a, x),
           actor[a].at \in {"idle", "ask"}
    PROVE  \A b \in Actor : \/ actor'[b] = actor[b]
                            \/ /\ actor'[b].set = NoSet /\ ~Holds(b)'
                               /\ actor[b].at = "removeRest" => "residue" \in events'
  BY DEF Gets, Others, Holds, Plain

\* The thread that starts, if any.
LEMMA StartTruth ==
    ASSUME Truth,
           Report \/ PeriodicSweep \/ SkipRunning \/ Pull \/ StartupSweep \/ StartupRecords
    PROVE  Truth'
<1>1. Control
  BY DEF Truth
<1>2. Control'
  BY <1>1, ReportControl, PeriodicSweepControl, SkipRunningControl, PullControl,
     StartupSweepControl, StartupRecordsControl
<1>3. UNCHANGED <<base, copy, made, cs, entry, sent>>
  BY DEF Report, PeriodicSweep, SkipRunning, Pull, StartupSweep, StartupRecords, disk, task
<1>4. \A e \in events : e \in events'
  BY MeetsLemma, RecordLemma DEF Report, PeriodicSweep, SkipRunning, Pull, StartupSweep,
     StartupRecords
<1>5. (Over => Over') /\ (Over' => Over \/ (Active /\ run # "marked"))
  BY DEF Report, PeriodicSweep, SkipRunning, Pull, StartupSweep, StartupRecords, task, Over, Active
<1>6. \/ UNCHANGED actor
      \/ \E a \in Actor, x \in {"idle", "ask", "sidecar", "enqueue"} :
            Gets(a, x) /\ actor[a].at \in {"idle", "ask"}
  <2>1. {"idle", "ask", "sidecar", "enqueue"} \subseteq Stage /\ {"hook", "sweep", "pull"} \subseteq Actor
    BY DEF Stage, Actor
  <2>2. CASE Report
    <3>1. At("hook", "sidecar") /\ actor["hook"].at = "idle"
      BY <1>1, <2>2 DEF Report, Control, Threads
    <3>. QED
      BY <1>1, <2>1, <3>1, GetsLemma
  <2>3. CASE PeriodicSweep
    <3>1. At("sweep", "ask") /\ actor["sweep"].at = "idle"
      BY <2>3 DEF PeriodicSweep
    <3>. QED
      BY <1>1, <2>1, <3>1, GetsLemma
  <2>4. CASE SkipRunning
    <3>1. (At("sweep", "sidecar") \/ Return("sweep")) /\ actor["sweep"].at = "ask"
      BY <2>4 DEF SkipRunning
    <3>. QED
      BY <1>1, <2>1, <3>1, GetsLemma
  <2>5. CASE Pull
    <3>1. At("pull", "enqueue") /\ actor["pull"].at = "idle"
      BY <2>5 DEF Pull
    <3>. QED
      BY <1>1, <2>1, <3>1, GetsLemma
  <2>6. CASE StartupSweep
    <3>1. (At("sweep", "sidecar") \/ UNCHANGED actor) /\ actor["sweep"].at = "idle"
      BY <1>1, <2>6 DEF StartupSweep, Control, Threads
    <3>. QED
      BY <1>1, <2>1, <3>1, GetsLemma
  <2>7. CASE StartupRecords
    <3>1. (At("sweep", "enqueue") \/ UNCHANGED actor) /\ actor["sweep"].at = "idle"
      BY <2>7 DEF StartupRecords
    <3>. QED
      BY <1>1, <2>1, <3>1, GetsLemma
  <2>. QED
    BY <2>2, <2>3, <2>4, <2>5, <2>6, <2>7
<1>7. \A b \in Actor : \/ actor'[b] = actor[b]
                       \/ /\ actor'[b].set = NoSet /\ ~Holds(b)'
                          /\ actor[b].at = "removeRest" => "residue" \in events'
  BY <1>6, GetsHolds
<1>8. entry'.holds \in Known /\ sent' \subseteq Known
  BY <1>3, KnownLemma
<1>. QED
  BY <1>2, <1>3, <1>4, <1>5, <1>7, <1>8, CalmTruth

\* A removal that a crash has cut short is recorded, and so is a task that is executed again.
LEMMA CrashTruth ==
    ASSUME Truth, Crash
    PROVE  Truth'
<1>1. Control /\ TypeOK /\ Before
  BY DEF Truth, Control
<1>2. Control'
  BY <1>1, CrashControl
<1>3. /\ UNCHANGED <<base, copy, made, cs, entry, sent>>
      /\ run' = IF run = "none" THEN run ELSE IF stored THEN "stored" ELSE "over"
      /\ \A e \in events : e \in events'
      /\ run = "reporting" /\ stored => "again" \in events'
  BY CrashLemma
<1>4. \A b \in Actor : /\ actor'[b].set = NoSet /\ ~Holds(b)'
                       /\ actor[b].at = "removeRest" => "residue" \in events'
  BY CrashLemma DEF Holds
<1>5. Over => Over' \/ Untrue'
  BY <1>1, <1>3 DEF Before, Over, Untrue, Redo
<1>6. Over' => Over \/ (Active /\ run # "marked") \/ copy = NoCopy
  BY <1>1, <1>3 DEF TypeOK, Before, Over, Active
<1>7. entry'.holds \in Known /\ sent' \subseteq Known
  BY <1>3, KnownLemma
<1>. QED
  BY <1>2, <1>3, <1>4, <1>5, <1>6, <1>7, CalmTruth

\* Before the end of the task nothing is said about the copy.
LEMMA WorkTruth ==
    ASSUME Truth, Unpack \/ Edit
    PROVE  Truth'
<1>1. Control /\ Seen /\ Sets
  BY DEF Truth
<1>2. Control'
  BY <1>1, UnpackControl, EditControl
<1>3. /\ UNCHANGED <<base, actor, cs, entry, sent>> /\ \A e \in events : e \in events'
      /\ run \in {"marked", "Running"} /\ run' \in {"unpacked", "Running"}
  BY DEF Unpack, Edit
<1>4. (Untrue => Untrue') /\ ~Over /\ ~Over'
  BY <1>3 DEF Untrue, Redo, Over
<1>5. Sets'
  BY <1>1, <1>3, <1>4, SetsKept, KnownLemma
<1>6. \A b \in Actor : Holds(b)' <=> Holds(b)
  BY <1>3 DEF Holds, Plain
<1>7. \A b \in Actor : Holds(b)' => copy'.sidecar \/ "overlap" \in events'
  <2>1. CASE Unpack
    BY <1>1, <1>6, <2>1 DEF Unpack, Control, Before, Holds
  <2>2. CASE Edit
    BY <1>1, <1>3, <1>6, <2>2 DEF Edit, Seen
  <2>. QED
    BY <2>1, <2>2
<1>. QED
  BY <1>2, <1>4, <1>5, <1>7 DEF Truth, Seen

\* What the threads have seen, and what they say of it, for any files and bounds.
THEOREM ChangesetsAreRight == Spec => []Truth
<1>1. Init => Truth
  <2> SUFFICES ASSUME Init PROVE Truth
    OBVIOUS
  <2>1. Control
    BY InitControl
  <2>2. run = "none" /\ cs = NoDir /\ entry = NoDir /\ sent = {} /\ actor = [a \in Actor |-> Idle]
    BY DEF Init
  <2>3. \A a \in Actor : actor[a].set = NoSet /\ actor[a].at = "idle"
    BY <2>2, IdleLemma
  <2>4. Sets
    BY <2>2, <2>3, FineNoSet DEF Sets, NoDir
  <2>5. Seen
    BY <2>2, <2>3 DEF Seen, Holds, Over
  <2>. QED
    BY <2>1, <2>4, <2>5 DEF Truth
<1>2. Truth /\ [Next]_vars => Truth'
  <2> SUFFICES ASSUME Truth, [Next]_vars PROVE Truth'
    OBVIOUS
  <2>1. CASE UNCHANGED vars
    <3>1. UNCHANGED <<base, actor, copy, events, made, cs, entry, sent, run>>
      BY <2>1 DEF vars
    <3>2. Control' /\ (Over' <=> Over)
      BY <2>1, <3>1, StutterControl DEF Truth, Over
    <3>3. entry'.holds \in Known /\ sent' \subseteq Known
      BY <3>1, KnownLemma
    <3>. QED
      BY <3>1, <3>2, <3>3, CalmTruth
  <2>2. CASE TaskStep
    BY <2>2, TaskTruth, WorkTruth, StartTruth, ForgetTruth DEF TaskStep
  <2>3. ASSUME NEW a \in Actor, Step(a) \/ Fail(a) PROVE Truth'
    BY <2>3, StepTruth
  <2>4. CASE PeriodicSweep \/ SkipRunning \/ Pull \/ Push
    BY <2>4, StartTruth, PushTruth
  <2>5. CASE Crash \/ StartStep
    BY <2>5, CrashTruth, StartTruth, TaskTruth DEF StartStep
  <2>. QED
    BY <2>1, <2>2, <2>3, <2>4, <2>5 DEF Next
<1>. QED
  BY <1>1, <1>2, PTL DEF Spec

\* diff_tree, write_changeset and the outbox hand on what the task has done and nothing
\* below _debug/: merged into the baseline, a queued or delivered change-set gives the
\* files of the task's end, unless the copy was read while or after it was taken apart,
\* or before it was executed again.
THEOREM WhatIsSentIsTrue == Spec => []SentIsTrue
<1>1. Truth => SentIsTrue
  <2> SUFFICES ASSUME Truth, NEW p \in sent \cup Queued
               PROVE  /\ \A f \in Debug : p.does[f] = "keep"
                      /\ p # NoSet => Covers(p) \/ events \cap {"overlap", "residue", "startup", "again"} # {}
    BY DEF SentIsTrue
  <2>1. Fine(p)
    BY DEF Truth, Sets, Queued
  <2>2. Untrue => events \cap {"overlap", "residue", "startup", "again"} # {}
    BY DEF Untrue, Redo
  <2>. QED
    BY <2>1, <2>2 DEF Fine, Good
<1>. QED
  BY <1>1, ChangesetsAreRight, PTL

-------------------------------------------------------------------------------
(* Where the work is.                                                      *)

\* Baseline and work being as before, what covers the work is the same.
LEMMA CoversLemma ==
    ASSUME base' = base, made' = made
    PROVE  /\ Changed' <=> Changed
           /\ \A p : Covers(p)' <=> Covers(p)
           /\ SentCov' <=> \E p \in sent' : Covers(p)
           /\ Cov' <=> SentCov' \/ (entry'.is = "whole" /\ Covers(entry'.holds))
           /\ \A a \in Actor : Covers(actor[a].set)' <=> Covers(actor'[a].set)
<1>1. Changed' <=> Changed
  BY DEF Changed, Baseline
<1>2. \A p : Covers(p)' <=> Covers(p)
  BY DEF Covers, Applied, Baseline
<1>3. SentCov' <=> \E p \in sent' : Covers(p)
  BY <1>2 DEF SentCov
<1>4. Covers(entry.holds)' <=> Covers(entry'.holds)
  BY DEF Covers, Applied, Baseline
<1>5. \A a \in Actor : Covers(actor[a].set)' <=> Covers(actor'[a].set)
  BY DEF Covers, Applied, Baseline
<1>. QED
  BY <1>1, <1>2, <1>3, <1>4, <1>5 DEF Cov

\* While a thread is at work, no other one has seen the copy, unless they have met.
LEMMA Alone ==
    ASSUME Truth, Waits, ~Lost, NEW a \in Actor, Works(a), NEW b \in Actor, b # a
    PROVE  ~Holds(b)
<1>1. Threads /\ Seen /\ "overlap" \notin events
  BY DEF Truth, Control, Lost
<1>s. a \in {"hook", "sweep", "pull"} /\ b \in {"hook", "sweep", "pull"}
  BY DEF Actor
<1>2. SUFFICES ASSUME Holds(b) PROVE FALSE
  OBVIOUS
<1>3. copy.sidecar /\ ~Plain(a)
  BY <1>1, <1>2 DEF Seen, Waits
<1>4. Works(b) /\ ~Plain(b)
  BY <1>2 DEF Holds, Works
<1>. QED
  BY <1>1, <1>3, <1>4, <1>s DEF Threads, Works

\* A thread that has not seen the copy can only queue the record alone.
LEMMA Bystander ==
    ASSUME Control, NEW b \in Actor, ~Holds(b), UNCHANGED actor[b],
           Plain(b) /\ actor[b].at \in {"clear", "copy", "entry"} => SentCov'
    PROVE  Careful(b)'
<1>1. InHand(b)
  BY DEF Control, Hands
<1>2. ~Carries(b) /\ ~actor[b].clean /\ actor[b].at \notin {"removeSet", "remove", "removeRest"}
  BY <1>1 DEF InHand, Holds, Plain, Carries
<1>3. ~Carries(b)' /\ (Plain(b)' <=> Plain(b)) /\ (Holds(b)' <=> Holds(b))
  BY <1>2 DEF Carries, Plain, Holds
<1>. QED
  BY <1>2, <1>3 DEF Careful, Holds

\* What is to be shown of a step of thread a.
Steady(a) ==
    /\ Full' \/ Cov'
    /\ copy'.sidecar => copy.sidecar /\ (entry'.is = "whole" => Cov') /\ ~Plain(a)'
    /\ Careful(a)'

\* It is enough to look at the thread that takes the step.
LEMMA SteadyLemma ==
    ASSUME Truth, Safe, ~Lost, NEW a \in Actor, Moves(a), Sees(a), Steady(a)
    PROVE  Safe'
<1>1. /\ UNCHANGED <<base, made>> /\ sent' = sent /\ Works(a)
      /\ \A b \in Actor \ {a} : actor'[b] = actor[b]
  BY DEF Moves, Others, Sees
<1>2. Control /\ Waits /\ \A b \in Actor : Careful(b)
  BY DEF Truth, Safe
<1>3. SentCov => SentCov'
  BY <1>1, CoversLemma DEF SentCov
<1>4. ASSUME NEW b \in Actor, b # a PROVE Careful(b)' /\ (Plain(b)' <=> Plain(b))
  <2>1. ~Holds(b)
    BY <1>1, <1>2, <1>4, Alone
  <2>2. Plain(b) /\ actor[b].at \in {"clear", "copy", "entry"} => SentCov
    BY <1>2, <1>4 DEF Careful
  <2>3. actor'[b] = actor[b]
    BY <1>1, <1>4
  <2>4. Careful(b)'
    BY <1>2, <1>3, <1>4, <2>1, <2>2, <2>3, Bystander
  <2>. QED
    BY <2>3, <2>4 DEF Plain
<1>5. Waits'
  BY <1>2, <1>4 DEF Steady, Waits
<1>. QED
  BY <1>4, <1>5 DEF Steady, Safe

\* One case per step: the work is handed on before it is removed.
LEMMA StepSteady ==
    ASSUME Truth, Safe, ~Lost, Changed, Over, NEW a \in Actor, Step(a) \/ Fail(a), ~Lost'
    PROVE  Steady(a)
<1>0. Control /\ Threads /\ Seen /\ ActorType /\ entry \in Dir /\ copy \in Copy /\ InHand(a)
  BY TypeLemma DEF Truth, Control, Hands
<1>1. UNCHANGED <<base, made, sent>> /\ Works(a)
  BY <1>0, StepMoves, StepSees DEF Moves, Sees
<1>2. (Full \/ Cov) /\ Waits /\ Careful(a)
  BY DEF Safe
<1>3. /\ SentCov' <=> SentCov
      /\ Cov' <=> SentCov \/ (entry'.is = "whole" /\ Covers(entry'.holds))
      /\ Covers(actor[a].set)' <=> Covers(actor'[a].set)
  BY <1>1, CoversLemma DEF SentCov
<1>4. UNCHANGED entry => (Cov' <=> Cov)
  BY <1>3 DEF Cov
<1>5. UNCHANGED copy => (Full' <=> Full)
  BY <1>1 DEF Full
<1>6. Holds(a) => copy.sidecar
  BY <1>0 DEF Seen, Lost
<1>7. ~copy.sidecar => Cov
  BY <1>2 DEF Full
<1>a. \A x \in Stage : At(a, x) =>
         actor'[a].at = x /\ actor'[a].set = actor[a].set /\ actor'[a].clean = actor[a].clean
  BY <1>0, AtLemma
<1>r. Return(a) => actor'[a].at = "idle" /\ actor'[a].set = NoSet /\ actor'[a].clean = FALSE
  BY <1>0, ReturnLemma
<1>b. ASSUME Return(a), UNCHANGED entry, copy' = copy \/ (copy' = NoCopy /\ Cov)
      PROVE  Steady(a)
  <2>1. actor'[a].at = "idle" /\ ~Carries(a)' /\ ~Plain(a)' /\ ~actor'[a].clean
    BY <1>b, <1>r DEF Carries, Plain
  <2>2. Careful(a)'
    BY <2>1 DEF Careful
  <2>. QED
    BY <1>2, <1>4, <1>5, <1>b, <2>1, <2>2, CopyLemma DEF Steady, Waits
<1>11. CASE FindSidecar(a)
  <2>1. actor[a].at = "sidecar" /\ UNCHANGED <<copy, cs, entry, sent>>
    BY <1>11 DEF FindSidecar, task, disk
  <2>2. CASE copy.sidecar /\ At(a, "read")
    BY <1>0, <1>2, <1>3, <1>4, <1>5, <1>6, <1>7, <1>a, <2>1, <2>2 DEF Steady, Careful, Carries,
       Plain, Waits, Holds, InHand, Stage
  <2>3. CASE ~copy.sidecar /\ At(a, "enqueue")
    BY <1>0, <1>2, <1>3, <1>4, <1>5, <1>6, <1>7, <1>a, <2>1, <2>3 DEF Steady, Careful, Carries,
       Plain, Waits, Holds, InHand, Stage
  <2>4. CASE Return(a)
    BY <1>b, <2>1, <2>4
  <2>. QED
    BY <1>11, <2>1, <2>2, <2>3, <2>4 DEF FindSidecar, AfterEnqueue
<1>12. CASE ReadSidecar(a)
  <2>1. actor[a].at = "read" /\ UNCHANGED <<copy, cs, entry, sent>>
    BY <1>12 DEF ReadSidecar, task, disk
  <2>2. CASE copy.sidecar /\ At(a, "diff")
    BY <1>0, <1>2, <1>3, <1>4, <1>5, <1>6, <1>7, <1>a, <2>1, <2>2 DEF Steady, Careful, Carries,
       Plain, Waits, Holds, InHand, Stage
  <2>3. CASE Return(a)
    BY <1>b, <2>1, <2>3
  <2>. QED
    BY <1>12, <2>1, <2>2, <2>3 DEF ReadSidecar, AfterEnqueue
<1>13. CASE Diff(a)
  <2>1. actor[a].at = "diff" /\ UNCHANGED <<copy, cs, entry>>
    BY <1>13 DEF Diff, disk
  <2>2. PICK locked \in SUBSET {f \in File \ Debug : copy.tree[f] # "none"} :
          \E late \in SUBSET {f \in File \ (Debug \cup locked) : copy.tree[f] \notin {"none", Baseline[f]}} :
          LET set == DiffTree(copy.tree, locked, late) IN
          IF set.does = NoSet.does
          THEN /\ actor' = [actor EXCEPT ![a] = [at |-> "enqueue", set |-> NoSet, clean |-> TRUE]]
               /\ events' = IF set.skipped = {} THEN events ELSE events \cup {"skipped"}
          ELSE actor' = [actor EXCEPT ![a] = [at |-> "write", set |-> set, clean |-> TRUE]]
    BY <1>13 DEF Diff
  <2>3. PICK late \in SUBSET {f \in File \ (Debug \cup locked) : copy.tree[f] \notin {"none", Baseline[f]}} :
          LET set == DiffTree(copy.tree, locked, late) IN
          IF set.does = NoSet.does
          THEN /\ actor' = [actor EXCEPT ![a] = [at |-> "enqueue", set |-> NoSet, clean |-> TRUE]]
               /\ events' = IF set.skipped = {} THEN events ELSE events \cup {"skipped"}
          ELSE actor' = [actor EXCEPT ![a] = [at |-> "write", set |-> set, clean |-> TRUE]]
    BY <2>2
  <2>4. PICK p : p = DiffTree(copy.tree, locked, late)
    OBVIOUS
  <2>5. base \subseteq File /\ copy.tree \in Tree /\ made \in Tree
    BY TypeLemma DEF Truth, Control
  <2>6. p \in Changeset /\ p.skipped = locked \cup late
    <3>1. locked \in SUBSET File /\ late \in SUBSET File
      OBVIOUS
    <3> QED BY <2>4, <2>5, <3>1, DiffType
  <2>7. Full => Covers(p)
    BY <2>4, <2>5, DiffLemma DEF Full, Covers
  <2>8. ~Plain(a)'
    <3>1. CASE p.does = NoSet.does
      BY <1>0, <2>3, <2>4, <3>1, NoSetLemma, GetLemma DEF Stage, Plain
    <3>2. CASE p.does # NoSet.does
      <4>1. actor' = [actor EXCEPT ![a] = [at |-> "write", set |-> p, clean |-> TRUE]]
        BY <2>3, <2>4, <3>2
      <4>. QED
        BY <1>0, <2>6, <4>1, GetLemma DEF Stage, Plain
    <3>. QED
      BY <3>1, <3>2
  <2>9. Careful(a)'
    <3>1. CASE p.does = NoSet.does
      <4>1. actor'[a].at = "enqueue" /\ actor'[a].set = NoSet /\ actor'[a].clean = TRUE
        BY <1>0, <2>3, <2>4, <3>1, NoSetLemma, GetLemma DEF Stage
      <4>2. p.skipped = {}
        BY <2>3, <2>4, <3>1 DEF Lost
      <4>3. locked = {} /\ late = {}
        BY <2>6, <4>2
      <4>4. ~Full
        BY <2>4, <2>5, <3>1, <4>3, NoDiffLemma DEF Full
      <4>. QED
        BY <1>2, <1>4, <2>1, <4>1, <4>4 DEF Careful, Carries, Plain
    <3>2. CASE p.does # NoSet.does
      <4>1. actor' = [actor EXCEPT ![a] = [at |-> "write", set |-> p, clean |-> TRUE]]
        BY <2>3, <2>4, <3>2
      <4>2. actor'[a].at = "write" /\ actor'[a].set = p /\ actor'[a].clean = TRUE
        BY <1>0, <2>6, <4>1, GetLemma DEF Stage
      <4>3. p # NoSet
        BY <3>2
      <4>. QED
        BY <1>2, <1>3, <1>4, <2>1, <2>7, <4>2, <4>3 DEF Careful, Carries, Plain
    <3>. QED
      BY <3>1, <3>2
  <2>. QED
    BY <1>2, <1>4, <1>5, <2>1, <2>8, <2>9 DEF Steady, Waits
<1>14. CASE WriteFiles(a)
  <2>1. actor[a].at = "write" /\ At(a, "manifest") /\ UNCHANGED <<copy, entry>>
    BY <1>14 DEF WriteFiles, task
  <2>. QED
    BY <1>0, <1>2, <1>3, <1>4, <1>5, <1>6, <1>7, <1>a, <2>1 DEF Steady, Careful, Carries, Plain,
       Waits, Holds, InHand, Stage
<1>15. CASE WriteManifest(a)
  <2>1. /\ actor[a].at = "manifest" /\ At(a, "enqueue")
        /\ cs' = [is |-> "whole", holds |-> actor[a].set] /\ UNCHANGED <<copy, entry>>
    BY <1>15 DEF WriteManifest, task
  <2>. QED
    BY <1>0, <1>2, <1>3, <1>4, <1>5, <1>6, <1>7, <1>a, <2>1 DEF Steady, Careful, Carries, Plain,
       Waits, Holds, InHand, Stage
<1>16. CASE CheckEntry(a)
  <2>1. actor[a].at = "enqueue" /\ UNCHANGED <<copy, cs, entry, sent>>
    BY <1>16 DEF CheckEntry, task, disk
  <2>2. CASE Return(a)
    BY <1>b, <2>1, <2>2
  <2>3. CASE entry.is # "whole" /\ At(a, "clear")
    BY <1>0, <1>2, <1>3, <1>4, <1>5, <1>6, <1>7, <1>a, <2>1, <2>3 DEF Steady, Careful, Carries,
       Plain, Waits, Holds, InHand, Stage, Cov
  <2>4. CASE entry.is = "whole" /\ Carries(a) /\ At(a, "removeSet")
    BY <1>0, <1>2, <1>3, <1>4, <1>5, <1>6, <1>7, <1>a, <2>1, <2>4 DEF Steady, Careful, Carries,
       Plain, Waits, Holds, InHand, Stage
  <2>5. CASE ~Carries(a) /\ actor[a].clean /\ At(a, "remove")
    BY <1>0, <1>2, <1>3, <1>4, <1>5, <1>6, <1>7, <1>a, <2>1, <2>5 DEF Steady, Careful, Carries,
       Plain, Waits, Holds, InHand, Stage
  <2>. QED
    BY <1>16, <2>1, <2>2, <2>3, <2>4, <2>5 DEF CheckEntry, AfterEnqueue
<1>17. CASE ClearEntry(a)
  <2>1. actor[a].at = "clear" /\ At(a, "copy") /\ entry' = NewDir /\ UNCHANGED <<copy, cs>>
    BY <1>17 DEF ClearEntry, task
  <2>. QED
    BY <1>0, <1>2, <1>3, <1>4, <1>5, <1>6, <1>7, <1>a, <2>1 DEF Steady, Careful, Carries, Plain,
       Waits, Holds, InHand, Stage, NewDir, Cov
<1>18. CASE CopyPayload(a)
  <2>1. actor[a].at = "copy" /\ UNCHANGED <<copy, cs>>
    BY <1>18 DEF CopyPayload, task, disk
  <2>2. CASE Return(a) /\ UNCHANGED entry
    BY <1>b, <2>1, <2>2
  <2>3. CASE /\ At(a, "entry") /\ entry'.is = "partial"
             /\ entry'.holds = IF Carries(a) THEN cs.holds ELSE NoSet
    BY <1>0, <1>2, <1>3, <1>4, <1>5, <1>6, <1>7, <1>a, <2>1, <2>3 DEF Steady, Careful, Carries,
       Plain, Waits, Holds, InHand, Stage, Cov
  <2>. QED
    BY <1>18, <2>1, <2>2, <2>3 DEF CopyPayload, NewDir
<1>19. CASE WriteEntry(a)
  <2>1. /\ actor[a].at = "entry" /\ UNCHANGED <<copy, cs>> /\ entry'.is = "whole"
        /\ entry'.holds = entry.holds
    BY <1>0, <1>19 DEF WriteEntry, task, Dir
  <2>2. CASE Plain(a) /\ Return(a)
    BY <1>0, <1>2, <1>3, <1>4, <1>5, <1>6, <1>7, <1>r, <2>1, <2>2 DEF Steady, Careful, Carries,
       Plain, Waits, Holds, InHand, Stage, Cov
  <2>3. CASE Carries(a) /\ At(a, "removeSet")
    BY <1>0, <1>2, <1>3, <1>4, <1>5, <1>6, <1>7, <1>a, <2>1, <2>3 DEF Steady, Careful, Carries,
       Plain, Waits, Holds, InHand, Stage, Cov
  <2>4. CASE ~Carries(a) /\ actor[a].clean /\ At(a, "remove")
    BY <1>0, <1>2, <1>3, <1>4, <1>5, <1>6, <1>7, <1>a, <2>1, <2>4 DEF Steady, Careful, Carries,
       Plain, Waits, Holds, InHand, Stage, Cov
  <2>. QED
    BY <1>19, <2>1, <2>2, <2>3, <2>4 DEF WriteEntry, AfterEnqueue, Plain, Carries
<1>20. CASE RemoveSet(a)
  <2>1. actor[a].at = "removeSet" /\ At(a, "remove") /\ UNCHANGED <<copy, entry>>
    BY <1>20 DEF RemoveSet, task
  <2>. QED
    BY <1>0, <1>2, <1>3, <1>4, <1>5, <1>6, <1>7, <1>a, <2>1 DEF Steady, Careful, Carries, Plain,
       Waits, Holds, InHand, Stage
<1>21. CASE RemoveCopy(a)
  <2>1. actor[a].at = "remove" /\ UNCHANGED entry
    BY <1>21 DEF RemoveCopy
  <2>2. Cov
    BY <1>2, <2>1 DEF Careful
  <2>3. CASE copy' = NoCopy /\ Return(a)
    BY <1>b, <2>1, <2>2, <2>3
  <2>4. CASE copy'.sidecar = copy.sidecar /\ At(a, "removeRest")
    BY <1>0, <1>2, <1>3, <1>4, <1>a, <2>1, <2>2, <2>4 DEF Steady, Careful, Carries, Plain, Waits,
       InHand, Stage
  <2>. QED
    BY <1>0, <1>21, <2>3, <2>4 DEF RemoveCopy, Copy
<1>22. CASE RemoveRest(a)
  <2>1. /\ actor[a].at = "removeRest" /\ Return(a) /\ UNCHANGED entry
        /\ copy' = NoCopy \/ UNCHANGED copy
    BY <1>22 DEF RemoveRest
  <2>2. Cov
    BY <1>2, <2>1 DEF Careful
  <2>. QED
    BY <1>b, <2>1, <2>2
<1>23. CASE Fail(a)
  <2>1. Return(a) /\ UNCHANGED <<copy, entry>>
    BY <1>23 DEF Fail, disk
  <2>. QED
    BY <1>b, <2>1
<1>. QED
  BY <1>11, <1>12, <1>13, <1>14, <1>15, <1>16, <1>17, <1>18, <1>19, <1>20, <1>21, <1>22, <1>23
     DEF Step

\* A step of a thread keeps the work.
LEMMA StepKept ==
    ASSUME Kept, NEW a \in Actor, Step(a) \/ Fail(a)
    PROVE  Kept'
<1>1. Truth /\ Control /\ Threads /\ Early
  BY DEF Kept, Truth, Control
<1>2. Moves(a) /\ Sees(a) /\ Truth'
  BY <1>1, StepMoves, StepSees, StepTruth
<1>3. /\ UNCHANGED <<base, run, made>> /\ Works(a) /\ \A e \in events : e \in events'
  BY <1>2 DEF Moves
<1>4. (Lost => Lost') /\ (Over' <=> Over) /\ (Changed' <=> Changed)
  BY <1>3, CoversLemma DEF Lost, Redo, Over
<1>s. a \in {"hook", "sweep", "pull"}
  BY DEF Actor
<1>5. Over \/ Lost
  BY <1>1, <1>3, <1>s DEF Early, Works, Threads, Over
<1>6. Early'
  BY <1>4, <1>5 DEF Early
<1>7. ASSUME AtStake' PROVE Safe'
  <2>1. Over /\ Changed /\ ~Lost /\ ~Lost'
    BY <1>4, <1>7 DEF AtStake
  <2>2. Safe
    BY <2>1 DEF Kept, AtStake
  <2>3. Steady(a)
    BY <1>1, <2>1, <2>2, StepSteady
  <2>. QED
    BY <1>1, <1>2, <2>1, <2>2, <2>3, SteadyLemma
<1>. QED
  BY <1>2, <1>6, <1>7 DEF Kept

\* Before the end of the task its work is in the copy, and nothing is queued for it.
LEMMA EarlyFull ==
    ASSUME Kept, ~Over, ~Lost, run \notin {"none", "marked"}
    PROVE  /\ Full /\ entry.is # "whole"
           /\ \A a \in Actor : actor[a].at \in {"idle", "ask"}
<1>1. TypeOK /\ Threads /\ Spared /\ Early
  BY DEF Kept, Truth, Control
<1>2. Active
  BY <1>1 DEF TypeOK, Over, Active
<1>3. Full
  BY <1>1, <1>2 DEF Spared, Lost
<1>. QED
  BY <1>1, <1>3 DEF Early, Threads, Works, Over, Actor

\* A thread with nothing in hand, before it has seen the copy.
LEMMA NewcomerNext ==
    ASSUME NEW a \in Actor, actor'[a].set = NoSet, ~actor'[a].clean,
           actor'[a].at \in {"idle", "ask", "sidecar", "read", "diff", "enqueue"}
    PROVE  Careful(a)'
  BY DEF Careful, Carries

\* The end of the task, or of the process: from here on its work is at stake.
LEMMA EndKept ==
    ASSUME Kept, Truth', ~Over, Over', UNCHANGED <<base, copy, entry, made>>,
           \A e \in events : e \in events',
           run \notin {"none", "marked"},
           \A a \in Actor : \/ actor'[a] = actor[a]
                            \/ /\ actor'[a].at \in {"idle", "sidecar"}
                               /\ actor'[a].set = NoSet /\ ~actor'[a].clean
    PROVE  Kept'
<1>1. Lost => Lost'
  BY DEF Lost, Redo
<1>2. Early'
  BY DEF Early
<1>3. ASSUME AtStake' PROVE Safe'
  <2>1. /\ Full /\ entry.is # "whole"
        /\ \A a \in Actor : actor[a].at \in {"idle", "ask"}
    BY <1>1, <1>3, EarlyFull DEF AtStake
  <2>2. \A a \in Actor : actor[a].set = NoSet /\ ~actor[a].clean
    BY <2>1 DEF Kept, Truth, Control, Hands, InHand
  <2>3. \A a \in Actor : /\ actor'[a].set = NoSet /\ ~actor'[a].clean
                         /\ actor'[a].at \in {"idle", "ask", "sidecar"}
    BY <2>1, <2>2
  <2>4. \A a \in Actor : Careful(a)' /\ ~Plain(a)'
    BY <2>3, NewcomerNext DEF Plain
  <2>5. Full'
    BY <2>1 DEF Full
  <2>6. Waits'
    BY <2>1, <2>4 DEF Waits
  <2>. QED
    BY <2>4, <2>5, <2>6 DEF Safe
<1>. QED
  BY <1>2, <1>3 DEF Kept

\* Directories and threads are left alone, and the task is over before and after or
\* neither before nor after.
LEMMA QuietKept ==
    ASSUME Kept, Truth', UNCHANGED <<base, actor, copy, entry, cs, made, sent>>,
           \A e \in events : e \in events', Over' <=> Over
    PROVE  Kept'
<1>1. (Lost => Lost') /\ (Full' <=> Full)
  BY DEF Lost, Redo, Full
<1>2. /\ Changed' <=> Changed
      /\ SentCov' <=> SentCov
      /\ Cov' <=> Cov
      /\ \A a \in Actor : Covers(actor[a].set)' <=> Covers(actor[a].set)
  BY CoversLemma DEF SentCov, Cov
<1>3. \A a \in Actor :
         /\ Plain(a)' <=> Plain(a)
         /\ Works(a)' <=> Works(a)
         /\ Carries(a)' <=> Carries(a)
  BY DEF Plain, Works, Carries
<1>4. Early'
  BY <1>1, <1>3 DEF Kept, Early, Works
<1>5. ASSUME AtStake' PROVE Safe'
  <2>1. (Full \/ Cov) /\ Waits /\ \A a \in Actor : Careful(a)
    BY <1>1, <1>2, <1>5 DEF Kept, AtStake, Safe
  <2>2. \A a \in Actor : Careful(a)'
    BY <1>2, <1>3, <2>1 DEF Careful
  <2>3. Waits'
    BY <1>2, <1>3, <2>1 DEF Waits
  <2>. QED
    BY <1>1, <1>2, <2>1, <2>2, <2>3 DEF Safe
<1>. QED
  BY <1>4, <1>5 DEF Kept

\* The steps of the task that touch no directory; a full lane ends it.
LEMMA TaskKept ==
    ASSUME Kept,
           Handle \/ Submit \/ Start \/ Suspend \/ Resume \/ WriteIndex \/ Complete \/ FirstStart
    PROVE  Kept'
<1>1. UNCHANGED <<base, actor, copy, events, made, cs, entry, sent>>
  BY DEF Handle, Submit, Start, Suspend, Resume, WriteIndex, Complete, FirstStart, disk
<1>2. Truth'
  BY TaskTruth DEF Kept
<1>3. (Over' <=> Over) \/ (~Over /\ Over' /\ run = "unpacked")
  BY DEF Handle, Submit, Start, Suspend, Resume, WriteIndex, Complete, FirstStart, Over
<1>. QED
  BY <1>1, <1>2, <1>3, QuietKept, EndKept

\* A task that is forgotten leaves its copy.
LEMMA ForgetKept ==
    ASSUME Kept, Forget
    PROVE  Kept'
<1>1. Control /\ Truth'
  BY ForgetTruth DEF Kept, Truth
<1>. QED
  BY <1>1, ForgetControl, EndKept

\* Before the end of the task nothing is at stake.
LEMMA WorkKept ==
    ASSUME Kept, Unpack \/ Edit
    PROVE  Kept'
<1>1. /\ UNCHANGED <<actor, entry>> /\ \A e \in events : e \in events'
      /\ run \in {"marked", "Running"} /\ run' \in {"unpacked", "Running"}
  BY DEF Unpack, Edit
<1>2. Truth'
  BY WorkTruth DEF Kept
<1>3. ~Over /\ ~Over' /\ (Lost => Lost')
  BY <1>1 DEF Over, Lost, Redo
<1>. QED
  BY <1>1, <1>2, <1>3 DEF Kept, Early, Works, AtStake

\* The end of the task: the copy is there, and nobody else is at it.
LEMMA ReportKept ==
    ASSUME Kept, Report
    PROVE  Kept'
<1>1. /\ run \in {"Running", "Pending"} /\ run' = "reporting" /\ At("hook", "sidecar") /\ Meets("sweep")
      /\ UNCHANGED <<base, copy, entry, made>> /\ boot = "up"
  BY DEF Report, disk
<1>2. Truth'
  BY StartTruth DEF Kept
<1>3. Control
  BY DEF Kept, Truth
<1>4. actor["hook"].at = "idle" /\ "hook" \in Actor /\ "sidecar" \in Stage
  BY <1>1, <1>3 DEF Control, Threads, Actor, Stage
<1>5. Gets("hook", "sidecar")
  BY <1>1, <1>3, <1>4, GetsLemma
<1>6. \A a \in Actor : \/ actor'[a] = actor[a]
                       \/ /\ actor'[a].at \in {"idle", "sidecar"}
                          /\ actor'[a].set = NoSet /\ ~actor'[a].clean
  BY <1>5 DEF Gets, Others
<1>7. \A e \in events : e \in events'
  BY <1>1, MeetsLemma
<1>8. ~Over /\ Over'
  BY <1>1 DEF Over
<1>. QED
  BY <1>1, <1>2, <1>6, <1>7, <1>8, EndKept

\* A crash ends the task or leaves it stored; the copy stays on disk.
LEMMA CrashKept ==
    ASSUME Kept, Crash
    PROVE  Kept'
<1>1. /\ UNCHANGED <<base, copy, entry, made, sent>>
      /\ run' = IF run = "none" THEN run ELSE IF stored THEN "stored" ELSE "over"
      /\ \A a \in Actor : actor'[a].at = "idle" /\ actor'[a].set = NoSet /\ ~actor'[a].clean
      /\ \A e \in events : e \in events'
      /\ run = "reporting" /\ stored => "again" \in events'
  BY CrashLemma
<1>2. Truth'
  BY CrashTruth DEF Kept
<1>3. TypeOK /\ Before /\ Early
  BY DEF Kept, Truth, Control
<1>s. {"hook", "sweep", "pull"} \subseteq Actor
  BY DEF Actor
<1>4. (Lost => Lost') /\ (Full' <=> Full)
  BY <1>1 DEF Lost, Redo, Full
<1>5. CASE run = "none"
  <2>1. ~Over /\ ~Over'
    BY <1>1, <1>5 DEF Over
  <2>. QED
    BY <1>1, <1>2, <1>3, <1>4, <1>s, <2>1 DEF Kept, Early, Works, AtStake
<1>6. CASE run = "marked"
  <2>1. made = Baseline /\ entry.is # "whole"
    BY <1>3, <1>6 DEF Before
  <2>2. ~Changed'
    BY <1>1, <2>1 DEF Changed, Baseline
  <2>. QED
    BY <1>1, <1>2, <1>s, <2>1, <2>2 DEF Kept, Early, Works, AtStake
<1>7. CASE run \notin {"none", "marked"} /\ ~Over
  <2>1. CASE Over'
    BY <1>1, <1>2, <1>7, <2>1, EndKept
  <2>2. CASE ~Over'
    BY <1>1, <1>2, <1>3, <1>4, <1>7, <1>s, <2>2 DEF Kept, Early, Works, AtStake
  <2>. QED
    BY <2>1, <2>2
<1>8. CASE Over
  <2>1. Over' \/ Lost'
    BY <1>1, <1>3, <1>8 DEF Over, Before, Lost, Redo
  <2>2. Early'
    BY <2>1 DEF Early
  <2>3. ASSUME AtStake' PROVE Safe'
    <3>1. (Changed' <=> Changed) /\ (Cov' <=> Cov)
      BY <1>1, CoversLemma DEF Cov, SentCov
    <3>2. (Full \/ Cov) /\ Waits
      BY <1>4, <1>8, <2>3, <3>1 DEF Kept, AtStake, Safe
    <3>3. \A a \in Actor : Careful(a)' /\ ~Plain(a)'
      BY <1>1, NewcomerNext DEF Plain
    <3>4. Waits'
      BY <1>1, <3>1, <3>2, <3>3 DEF Waits
    <3>. QED
      BY <1>4, <3>1, <3>2, <3>3, <3>4 DEF Safe
  <2>. QED
    BY <1>2, <2>2, <2>3 DEF Kept
<1>. QED
  BY <1>5, <1>6, <1>7, <1>8

\* The push takes what is queued to the master.
LEMMA PushKept ==
    ASSUME Kept, Push
    PROVE  Kept'
<1>1. /\ UNCHANGED <<base, actor, copy, cs, made, run, events>>
      /\ entry.is = "whole" /\ entry' = NoDir /\ sent' = sent \cup {entry.holds}
  BY DEF Push, task
<1>2. Truth'
  BY PushTruth DEF Kept
<1>3. (Lost' <=> Lost) /\ (Full' <=> Full) /\ (Over' <=> Over) /\ entry'.is = "absent"
  BY <1>1 DEF Lost, Redo, Full, Over, NoDir
<1>4. /\ Changed' <=> Changed
      /\ SentCov' <=> Cov
      /\ Cov' <=> Cov
      /\ \A a \in Actor : Covers(actor[a].set)' <=> Covers(actor[a].set)
  BY <1>1, <1>3, CoversLemma DEF SentCov, Cov
<1>5. \A a \in Actor :
         /\ Plain(a)' <=> Plain(a)
         /\ Works(a)' <=> Works(a)
         /\ Carries(a)' <=> Carries(a)
  BY <1>1 DEF Plain, Works, Carries
<1>6. Early'
  BY <1>1, <1>3, <1>5 DEF Kept, Early, Works
<1>7. ASSUME AtStake' PROVE Safe'
  <2>1. (Full \/ Cov) /\ Waits /\ \A a \in Actor : Careful(a)
    BY <1>3, <1>4, <1>7 DEF Kept, AtStake, Safe
  <2>2. \A a \in Actor : Careful(a)'
    <3> SUFFICES ASSUME NEW a \in Actor PROVE Careful(a)'
      OBVIOUS
    <3>1. actor[a].at \in {"clear", "copy", "entry"} => Plain(a) /\ SentCov
      BY <1>1, <2>1 DEF Careful
    <3>2. Plain(a) => ~Carries(a)
      BY DEF Plain, Carries
    <3>3. SentCov => Cov
      BY DEF Cov
    <3>. QED
      BY <1>1, <1>3, <1>4, <1>5, <2>1, <3>1, <3>2, <3>3 DEF Careful
  <2>3. Waits'
    BY <1>1, <1>3, <1>5, <2>1 DEF Waits
  <2>. QED
    BY <1>3, <1>4, <2>1, <2>2, <2>3 DEF Safe
<1>. QED
  BY <1>2, <1>6, <1>7 DEF Kept

\* A thread starts with nothing in hand; it queues the record alone only when there is no
\* copy, or it is recorded.
LEMMA NewKept ==
    ASSUME Kept, Truth', UNCHANGED <<base, run, copy, entry, cs, made, sent>>,
           \A e \in events : e \in events',
           NEW a \in Actor, NEW x \in {"idle", "ask", "sidecar", "enqueue"}, Gets(a, x),
           x = "enqueue" => ~copy.sidecar \/ Lost',
           ~Over /\ ~Lost' => a = "sweep" /\ x \in {"idle", "ask"}
    PROVE  Kept'
<1>1. (Lost => Lost') /\ (Full' <=> Full) /\ (Over' <=> Over)
  BY DEF Lost, Redo, Full, Over
<1>2. /\ \A b \in Actor \ {a} : actor'[b] = actor[b]
      /\ actor'[a].at = x /\ actor'[a].set = NoSet /\ ~actor'[a].clean
  BY DEF Gets, Others
<1>3. /\ Changed' <=> Changed
      /\ SentCov' <=> SentCov
      /\ Cov' <=> Cov
      /\ \A b \in Actor \ {a} : Covers(actor[b].set)' <=> Covers(actor[b].set)
  BY <1>2, CoversLemma DEF SentCov, Cov
<1>4. \A b \in Actor \ {a} :
         /\ Plain(b)' <=> Plain(b)
         /\ Works(b)' <=> Works(b)
         /\ Carries(b)' <=> Carries(b)
  BY <1>2 DEF Plain, Works, Carries
<1>5. Plain(a)' <=> x = "enqueue"
  BY <1>2 DEF Plain
<1>s. {"hook", "sweep", "pull"} \subseteq Actor
  BY DEF Actor
<1>6. Early'
  BY <1>1, <1>2, <1>4, <1>s DEF Kept, Early, Works
<1>7. ASSUME AtStake' PROVE Safe'
  <2>1. ~Lost' /\ (Full \/ Cov) /\ Waits /\ \A b \in Actor : Careful(b)
    BY <1>1, <1>3, <1>7 DEF Kept, AtStake, Safe
  <2>2. \A b \in Actor \ {a} : Careful(b)'
    BY <1>2, <1>3, <1>4, <2>1 DEF Careful
  <2>3. Careful(a)'
    BY <1>2, NewcomerNext
  <2>4. Waits'
    BY <1>3, <1>4, <1>5, <2>1 DEF Waits
  <2>. QED
    BY <1>1, <1>3, <2>1, <2>2, <2>3, <2>4 DEF Safe
<1>. QED
  BY <1>6, <1>7 DEF Kept

\* The sweeps and the pull.
LEMMA StartKept ==
    ASSUME Kept, PeriodicSweep \/ SkipRunning \/ Pull \/ StartupSweep \/ StartupRecords
    PROVE  Kept'
<1>0. Control /\ TypeOK /\ Threads /\ Before /\ Spared /\ Early
  BY DEF Kept, Truth, Control
<1>1. Truth'
  BY StartTruth DEF Kept
<1>2. UNCHANGED <<base, run, copy, made, cs, entry, sent>>
  BY DEF PeriodicSweep, SkipRunning, Pull, StartupSweep, StartupRecords, disk, task
<1>3. \A e \in events : e \in events'
  BY MeetsLemma, RecordLemma DEF PeriodicSweep, SkipRunning, Pull, StartupSweep, StartupRecords
<1>4. (Lost => Lost') /\ (Over' <=> Over)
  BY <1>2, <1>3 DEF Lost, Redo, Over
<1>5. {"idle", "ask", "sidecar", "enqueue"} \subseteq Stage /\ {"hook", "sweep", "pull"} \subseteq Actor
  BY DEF Stage, Actor
<1>6. ~Over /\ ~copy.sidecar => Lost \/ run \in {"none", "marked"}
  BY EarlyFull DEF Full
<1>7. CASE UNCHANGED actor
  BY <1>1, <1>2, <1>3, <1>4, <1>7, QuietKept
<1>8. CASE PeriodicSweep
  <2>1. Gets("sweep", "ask")
    BY <1>0, <1>5, <1>8, GetsLemma DEF PeriodicSweep
  <2>. QED
    BY <1>1, <1>2, <1>3, <1>5, <2>1, NewKept
<1>9. CASE SkipRunning /\ mark
  <2>1. Gets("sweep", "idle")
    BY <1>0, <1>5, <1>9, GetsLemma DEF SkipRunning
  <2>. QED
    BY <1>1, <1>2, <1>3, <1>5, <2>1, NewKept
<1>10. CASE SkipRunning /\ ~mark
  <2>1. Gets("sweep", "sidecar")
    BY <1>0, <1>5, <1>10, GetsLemma DEF SkipRunning
  <2>2. actor["sweep"].at = "ask"
    BY <1>10 DEF SkipRunning
  <2>3. boot = "up" /\ run \notin {"none", "marked"}
    BY <1>0, <1>5, <2>2 DEF Threads, Before
  <2>4. ~Over => Lost
    BY <1>0, <1>10, <2>3 DEF TypeOK, Spared, Over, Lost
  <2>. QED
    BY <1>1, <1>2, <1>3, <1>4, <1>5, <2>1, <2>4, NewKept
<1>11. CASE Pull
  <2>1. Gets("pull", "enqueue")
    BY <1>0, <1>5, <1>11, GetsLemma DEF Pull
  <2>2. log /\ events' = RecordAlone
    BY <1>11 DEF Pull
  <2>3. copy.sidecar => Lost'
    BY <2>2, RecordLemma DEF Lost
  <2>4. run \notin {"none", "marked"}
    BY <1>0, <2>2 DEF Before
  <2>5. ~Over => Lost'
    BY <1>4, <1>6, <2>3, <2>4
  <2>. QED
    BY <1>1, <1>2, <1>3, <1>5, <2>1, <2>3, <2>5, NewKept
<1>12. CASE StartupSweep /\ copy.sidecar
  <2>1. actor["sweep"].at = "idle" /\ At("sweep", "sidecar")
    BY <1>0, <1>12 DEF StartupSweep, Threads
  <2>2. Gets("sweep", "sidecar")
    BY <1>0, <1>5, <2>1, GetsLemma
  <2>3. copy # NoCopy
    BY <1>12, CopyLemma
  <2>4. ~Over => Active
    BY <1>0, <2>3 DEF TypeOK, Over, Active, Before
  <2>5. ~Over => Lost'
    BY <1>12, <2>4 DEF StartupSweep, Lost, Redo
  <2>. QED
    BY <1>1, <1>2, <1>3, <1>5, <2>2, <2>5, NewKept
<1>13. CASE StartupRecords /\ log /\ entry.is # "whole"
  <2>1. Gets("sweep", "enqueue")
    BY <1>0, <1>5, <1>13, GetsLemma DEF StartupRecords
  <2>2. events' = RecordAlone
    BY <1>13 DEF StartupRecords
  <2>3. copy.sidecar => Lost'
    BY <2>2, RecordLemma DEF Lost
  <2>4. run \notin {"none", "marked"}
    BY <1>0, <1>13 DEF Before
  <2>5. ~Over => Lost'
    BY <1>4, <1>6, <2>3, <2>4
  <2>. QED
    BY <1>1, <1>2, <1>3, <1>5, <2>1, <2>3, <2>5, NewKept
<1>. QED
  BY <1>7, <1>8, <1>9, <1>10, <1>11, <1>12, <1>13 DEF StartupSweep, StartupRecords

\* Where the work of a task is, for any files and bounds: in the copy until it is queued,
\* and then with the thread that queues it, in the outbox or with the master.
THEOREM WorkInPlace == Spec => []Kept
<1>1. Init => Kept
  <2> SUFFICES ASSUME Init PROVE Kept
    OBVIOUS
  <2>1. Control
    BY InitControl
  <2>2. run = "none" /\ cs = NoDir /\ entry = NoDir /\ sent = {} /\ actor = [a \in Actor |-> Idle]
    BY DEF Init
  <2>3. \A a \in Actor : actor[a].set = NoSet /\ actor[a].at = "idle"
    BY <2>2, IdleLemma
  <2>4. Sets
    BY <2>2, <2>3, FineNoSet DEF Sets, NoDir
  <2>5. Seen
    BY <2>2, <2>3 DEF Seen, Holds, Over
  <2>6. Early /\ ~Over
    BY <2>2, <2>3 DEF Early, Over, NoDir, Works, Actor
  <2>. QED
    BY <2>1, <2>4, <2>5, <2>6 DEF Kept, Truth, AtStake
<1>2. Kept /\ [Next]_vars => Kept'
  <2> SUFFICES ASSUME Kept, [Next]_vars PROVE Kept'
    OBVIOUS
  <2>1. CASE UNCHANGED vars
    <3>1. UNCHANGED <<base, actor, copy, events, made, cs, entry, sent, run>>
      BY <2>1 DEF vars
    <3>2. Control' /\ (Over' <=> Over)
      BY <2>1, <3>1, StutterControl DEF Kept, Truth, Over
    <3>3. entry'.holds \in Known /\ sent' \subseteq Known
      BY <3>1, KnownLemma
    <3>4. Truth'
      BY <3>1, <3>2, <3>3, CalmTruth DEF Kept
    <3>. QED
      BY <3>1, <3>2, <3>4, QuietKept
  <2>2. CASE TaskStep
    BY <2>2, TaskKept, WorkKept, ReportKept, ForgetKept DEF TaskStep
  <2>3. ASSUME NEW a \in Actor, Step(a) \/ Fail(a) PROVE Kept'
    BY <2>3, StepKept
  <2>4. CASE PeriodicSweep \/ SkipRunning \/ Pull \/ Push
    BY <2>4, StartKept, PushKept
  <2>5. CASE Crash \/ StartStep
    BY <2>5, CrashKept, StartKept, TaskKept DEF StartStep
  <2>. QED
    BY <2>1, <2>2, <2>3, <2>4, <2>5 DEF Next
<1>. QED
  BY <1>1, <1>2, PTL DEF Spec

\* finish_task_exec removes the work copy only when its change-set is queued: after any
\* failures, crashes and retries, the changes of a task that is over are in the copy, in
\* the outbox or with the master, the five recorded ways to lose them and a failed
\* unpacking aside.
THEOREM WorkOutlastsTheTask == Spec => []WorkIsKept
<1>1. Kept => WorkIsKept
  <2> SUFFICES ASSUME Kept, run \in {"reporting", "over"}, Changed,
                      events \cap {"unpack", "again", "record", "overlap", "startup", "skipped"} = {}
               PROVE  \/ copy = [sidecar |-> TRUE, tree |-> made]
                      \/ \E p \in sent \cup Queued : Covers(p)
    BY DEF WorkIsKept
  <2>1. ~Lost
    BY DEF Lost, Redo
  <2>2. Full \/ Cov
    BY <2>1 DEF Kept, AtStake, Over, Safe
  <2>. QED
    BY <2>2 DEF Full, Cov, SentCov, Queued
<1>. QED
  BY <1>1, WorkInPlace, PTL

===============================================================================
