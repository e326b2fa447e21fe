------------------------------ MODULE BoardProofs ------------------------------
(***************************************************************************)
(* Theorems about the three specifications of the board.                   *)
(*                                                                         *)
(* BoardTree, for every finite forest of issues with any dependencies: a   *)
(* cancellation reaches all that hangs on the issue (CancelReachesAll),    *)
(* and nothing starts before its dependencies are done.                    *)
(*                                                                         *)
(* BoardReview (Review), for every set of threads and every bound on rows, *)
(* retries, rounds and shocks: what IssueLedger states of an issue.        *)
(*                                                                         *)
(* BoardMerge (Merge), for every set of tasks, files and threads and all   *)
(* change-sets: what ProjectRepo states of a repository.                   *)
(*                                                                         *)
(* Each theorem is about one of the three; a variable or constant that two *)
(* of them name alike is declared once.                                    *)
(***************************************************************************)
EXTENDS BoardTree, IssueLedger, ProjectRepo, FiniteSetTheorems, WellFoundedInduction, TLAPS

CONSTANTS MaxRows, MaxSendRetries, MaxShocks, MaxRedispatch    \* of BoardReview

VARIABLES
    \* of BoardReview
    mark, attempts, parkable, estop, call, job, settle, stranded, parked, muted,
    \* of BoardMerge
    base, frozen, pending, inflight, noticed, wake, placed, merged, resolver, cut, stuck

Review == INSTANCE BoardReview
Merge == INSTANCE BoardMerge

-------------------------------------------------------------------------------
(* BoardTree: what a cascade reaches *)

\* A set of natural numbers has a least element: what follows is induction by the least
\* counterexample.
LEMMA LeastNat ==
    ASSUME NEW T, T \subseteq Nat, T # {}
    PROVE  \E n \in T : \A m \in T : n <= m
<1>1. IsWellFoundedOn(OpToRel(<, Nat), Nat)
  BY NatLessThanWellFounded
<1>2. PICK n \in T : \A m \in T : ~ (<<m, n>> \in OpToRel(<, Nat))
  BY <1>1, WFMin
<1>3. \A m \in T : ~(m < n)
  BY <1>2 DEF OpToRel
<1> QED
  BY <1>3

\* One more layer
Grow(S) == S \cup UNION {Downstream(k) : k \in S}
LayersTo(f, root, m) ==
    f = [n \in 0..m |-> IF n = 0 THEN {root} ELSE Grow(f[n - 1])]

\* The recursive function of Reach exists, for any number of layers.
LEMMA LayersExist ==
    ASSUME NEW root, NEW N \in Nat
    PROVE  \E f : LayersTo(f, root, N)
<1> DEFINE Short == {m \in Nat : ~ \E f : LayersTo(f, root, m)}
<1>1. SUFFICES ASSUME Short # {} PROVE FALSE
  OBVIOUS
<1>2. PICK m \in Short : \A k \in Short : m <= k
  BY <1>1, LeastNat
<1>3. CASE m = 0
  <2> DEFINE f == [n \in 0..0 |-> {root}]
  <2>1. LayersTo(f, root, 0)
    BY DEF LayersTo
  <2> QED
    BY <1>2, <1>3, <2>1
<1>4. CASE m # 0
  <2>1. m - 1 \in Nat /\ m - 1 \notin Short
    BY <1>2, <1>4
  <2>2. PICK g : LayersTo(g, root, m - 1)
    BY <2>1
  <2> DEFINE f == [n \in 0..m |-> IF n = m THEN Grow(g[m - 1]) ELSE g[n]]
  <2>3. \A n \in 0..(m - 1) : g[n] = IF n = 0 THEN {root} ELSE Grow(g[n - 1])
    BY <2>2 DEF LayersTo
  <2>4. \A n \in 0..m : f[n] = IF n = 0 THEN {root} ELSE Grow(f[n - 1])
    <3> SUFFICES ASSUME NEW n \in 0..m PROVE f[n] = IF n = 0 THEN {root} ELSE Grow(f[n - 1])
      OBVIOUS
    <3>1. CASE n = m
      <4>1. f[m] = Grow(g[m - 1]) /\ f[m - 1] = g[m - 1]
        BY <2>1, <1>2
      <4> QED
        BY <3>1, <4>1, <1>4
    <3>2. CASE n # m
      <4>1. n \in 0..(m - 1) /\ f[n] = g[n] /\ (n # 0 => f[n - 1] = g[n - 1])
        BY <3>2, <1>2
      <4> QED
        BY <4>1, <2>3
    <3> QED
      BY <3>1, <3>2
  <2>5. LayersTo(f, root, m)
    <3> HIDE DEF f
    <3>1. f = [n \in 0..m |-> f[n]]
      BY DEF f
    <3> QED
      BY <3>1, <2>4 DEF LayersTo
  <2> QED
    BY <2>5, <1>2
<1> QED
  BY <1>3, <1>4

\* Reach is that function.
LEMMA ReachIsLayers ==
    ASSUME NEW root, Cardinality(Issue) \in Nat
    PROVE  LayersTo(Reach(Downstream, root), root, Cardinality(Issue))
<1>1. PICK g : LayersTo(g, root, Cardinality(Issue))
  BY LayersExist
<1>2. LayersTo(CHOOSE f : LayersTo(f, root, Cardinality(Issue)), root, Cardinality(Issue))
  BY <1>1
<1>3. Reach(Downstream, root) = CHOOSE f : LayersTo(f, root, Cardinality(Issue))
  BY DEF Reach, LayersTo, Grow
<1> QED
  BY <1>2, <1>3
\* There are finitely many issues.
LEMMA FinitelyMany == Cardinality(Issue) \in Nat
BY TreeAssumption, FS_CardinalityType

\* Layer n has the root and otherwise issues of the store.
LEMMA LayersStay ==
    ASSUME NEW root \in Issue, exists \subseteq Issue, NEW n \in 0..Cardinality(Issue)
    PROVE  root \in Reach(Downstream, root)[n] /\ Reach(Downstream, root)[n] \subseteq exists \cup {root}
<1> DEFINE L == Reach(Downstream, root)
           N == Cardinality(Issue)
           Fails == {m \in 0..N : ~(root \in L[m] /\ L[m] \subseteq exists \cup {root})}
<1>1. LayersTo(L, root, N) /\ N \in Nat
  BY FinitelyMany, ReachIsLayers
<1> HIDE DEF L, N
<1>2. SUFFICES ASSUME Fails # {} PROVE FALSE
  BY DEF L, N
<1>3. PICK m \in Fails : \A k \in Fails : m <= k
  <2>1. Fails \subseteq Nat
    BY <1>1
  <2> HIDE DEF Fails
  <2> QED
    BY <1>2, <2>1, LeastNat
<1>4. \A k \in 0..N : L[k] = IF k = 0 THEN {root} ELSE Grow(L[k - 1])
  BY <1>1 DEF LayersTo
<1>5. m # 0
  BY <1>3, <1>4, <1>1
<1>6. m - 1 \in 0..N /\ m - 1 \notin Fails /\ L[m] = Grow(L[m - 1])
  BY <1>1, <1>3, <1>4, <1>5
<1>7. \A k : Downstream(k) \subseteq exists
  BY DEF Downstream, Children, Dependents
<1> QED
  BY <1>3, <1>6, <1>7 DEF Grow

\* Layer n is the last or has more than n issues.
LEMMA LayersGrow ==
    ASSUME NEW root \in Issue, exists \subseteq Issue, NEW n \in 0..Cardinality(Issue)
    PROVE  LET S == Reach(Downstream, root)[n] IN Grow(S) = S \/ Cardinality(S) > n
<1> DEFINE L == Reach(Downstream, root)
           N == Cardinality(Issue)
           Fails == {m \in 0..N : ~(Grow(L[m]) = L[m] \/ Cardinality(L[m]) > m)}
<1>1. LayersTo(L, root, N) /\ N \in Nat
  BY FinitelyMany, ReachIsLayers
<1>0. \A m \in 0..N : L[m] \subseteq Issue
  BY LayersStay
<1> HIDE DEF L, N
<1>2. SUFFICES ASSUME Fails # {} PROVE FALSE
  BY DEF L, N
<1>3. PICK m \in Fails : \A k \in Fails : m <= k
  <2>1. Fails \subseteq Nat
    BY <1>1
  <2> HIDE DEF Fails
  <2> QED
    BY <1>2, <2>1, LeastNat
<1>4. \A k \in 0..N : L[k] = IF k = 0 THEN {root} ELSE Grow(L[k - 1])
  BY <1>1 DEF LayersTo
<1>5. m # 0
  <2>1. Cardinality({root}) = 1
    BY FS_Singleton
  <2> QED
    BY <1>3, <1>4, <1>1, <2>1
<1>6. m - 1 \in 0..N /\ m - 1 \notin Fails /\ L[m] = Grow(L[m - 1]) /\ m \in Nat /\ m \in 0..N
  BY <1>1, <1>3, <1>4, <1>5
<1>7. Grow(L[m]) # L[m] /\ ~(Cardinality(L[m]) > m)
  BY <1>3
<1>8. Grow(L[m - 1]) # L[m - 1]
  BY <1>6, <1>7
<1>9. Cardinality(L[m - 1]) > m - 1
  BY <1>6, <1>8
<1>10. IsFiniteSet(L[m])
  BY <1>0, <1>6, FS_Subset, TreeAssumption
<1>11. L[m - 1] \subseteq L[m] /\ L[m - 1] # L[m]
  BY <1>6, <1>8 DEF Grow
<1>12. /\ IsFiniteSet(L[m - 1]) /\ Cardinality(L[m - 1]) <= Cardinality(L[m])
       /\ Cardinality(L[m - 1]) = Cardinality(L[m]) => L[m - 1] = L[m]
  BY <1>10, <1>11, FS_Subset
<1>13. Cardinality(L[m]) \in Nat /\ Cardinality(L[m - 1]) \in Nat
  BY <1>10, <1>12, FS_CardinalityType
<1> QED
  BY <1>6, <1>7, <1>9, <1>11, <1>12, <1>13

\* What hangs on the root or on an issue of its cascade is in the cascade; all of it is in the store.
LEMMA CascadeIsClosed ==
    ASSUME NEW root \in Issue, exists \subseteq Issue, NEW k \in Cascade(root) \cup {root}
    PROVE  Cascade(root) \subseteq exists /\ Downstream(k) \subseteq Cascade(root) \cup {root}
<1> DEFINE N == Cardinality(Issue)
           S == Reach(Downstream, root)[N]
<1>1. N \in Nat /\ N \in 0..N
  BY FinitelyMany
<1>2. root \in S /\ S \subseteq exists \cup {root}
  BY <1>1, LayersStay
<1>3. Grow(S) = S \/ Cardinality(S) > N
  BY <1>1, LayersGrow
<1>4. Cascade(root) = S \ {root}
  BY DEF Cascade
<1> HIDE DEF S
<1>5. ~(Cardinality(S) > N)
  <2>1. S \subseteq Issue
    BY <1>2
  <2>2. Cardinality(S) <= N /\ IsFiniteSet(S)
    BY <2>1, TreeAssumption, FS_Subset
  <2>3. Cardinality(S) \in Nat
    BY <2>2, FS_CardinalityType
  <2> QED
    BY <2>2, <2>3, <1>1
<1>6. Downstream(k) \subseteq S
  BY <1>2, <1>3, <1>4, <1>5 DEF Grow
<1> QED
  BY <1>2, <1>4, <1>6

-------------------------------------------------------------------------------
(* The state of a handler *)

Cancels == {"cancelled", "cascade"}
Syncs == {"sync", "raise", "enter"}
Held == [pc : {"idle", "settled", "cascade", "kill", "depend", "launch", "lift", "block", "reopen",
               "judge", "verdict", "escalate", "close"} \cup Syncs,
         task : {"none", "done", "sweep", "review", "rework"} \cup Cancels,
         issue : Issue \cup {NoIssue}, cur : Issue \cup {NoIssue},
         seen : Status \cup {"none"}, whole : BOOLEAN,
         left : SUBSET Issue, old : SUBSET Issue, stopped : SUBSET Issue, undone : BOOLEAN]

\* Where a handler can be with which task, and what it has in hand there
InHand(h) ==
    /\ h.pc \in {"idle", "reopen"} => h.task = "none"
    /\ h.pc \in Syncs => h.task \in Cancels \cup {"done"}
    /\ h.pc = "settled" => h.task \in {"cancelled", "done"}
    /\ h.pc \in {"cascade", "kill"} => h.task \in Cancels
    /\ h.pc \in {"depend", "launch", "lift", "block"} => h.task \in {"done", "sweep", "rework"}
    /\ h.pc \in {"judge", "verdict", "close"} => h.task = "review"
    /\ h.pc = "escalate" => h.task = "rework"
    /\ h.task \in Cancels \cup {"done", "review", "rework"} => h.issue \in Issue
    /\ h.pc \in Syncs \cup {"kill", "launch", "lift", "block", "reopen"} => h.cur \in Issue

\* The handler of a cancelled issue i that has not made its list yet
Awaits(h, i) == h.task = "cancelled" /\ h.issue = i /\ h.pc \in Syncs \cup {"settled"}

\* What a handler that has made its list is still going to cancel
Lists(h) == h.task = "cascade" \/ (h.task = "cancelled" /\ h.pc \in {"cascade", "kill"})
Todo(h) ==
    IF Lists(h) THEN (h.left \ h.old) \cup (IF h.pc = "kill" THEN {h.cur} ELSE {}) ELSE {}

\* The dependencies of what the handler is about to start are done, or were when it passed the gates.
Gated(h) == h.pc = "launch" => h.undone \/ \A j \in Deps[h.cur] : statusOf[j] = "done"

TreeKinds ==
    /\ exists \subseteq Issue /\ statusOf \in [Issue -> Status] /\ row \in [Issue -> BOOLEAN]
    /\ struck \in BOOLEAN
    /\ thr \in [Thread -> Held]
    /\ \A d \in Thread : InHand(thr[d]) /\ Gated(thr[d])

\* Nothing on a running list is behind an issue that could not be cancelled; what is waited for, or
\* on a list, is in the store.
Founded ==
    /\ \A i \in Issue \ exists : statusOf[i] # "cancelled"
    /\ \A d \in Thread : thr[d].task \in Cancels => thr[d].stopped = {}
    /\ \A d \in Thread : Todo(thr[d]) \subseteq exists
    /\ \A d \in Thread : \A i \in Issue : Awaits(thr[d], i) => i \in exists /\ statusOf[i] = "cancelled"

\* What hangs on a cancelled issue and is open will be on a list or is on one.
Covered ==
    \A i, j \in exists : statusOf[i] = "cancelled" /\ j \in Downstream(i) /\ statusOf[j] \notin Terminal =>
        \E d \in Thread : Awaits(thr[d], i) \/ j \in Todo(thr[d])

\* A list has what hangs on its members.
Downward ==
    \A d \in Thread : \A k \in Todo(thr[d]) : \A j \in Downstream(k) :
        statusOf[j] \notin Terminal => j \in Todo(thr[d])

Reaching == ~struck => Founded /\ Covered /\ Downward

TreeInv == TreeKinds /\ Reaching

-------------------------------------------------------------------------------
(* Steps that cancel nothing *)

\* Two states of a handler with the same cancellations ahead
SameRole(g, h) ==
    /\ Todo(h) = Todo(g)
    /\ \A i \in Issue : Awaits(h, i) <=> Awaits(g, i)
    /\ h.task \in Cancels => g.task \in Cancels /\ h.stopped = g.stopped

\* The step is one of thread d, which afterwards is in the state h.
Becomes(d, h) ==
    /\ thr' = [thr EXCEPT ![d] = h]
    /\ h \in Held /\ InHand(h)

\* Of the issues none is cancelled, reopened or made.
Harmless ==
    /\ exists' = exists /\ statusOf' \in [Issue -> Status] /\ row' \in [Issue -> BOOLEAN]
    /\ \A i \in Issue : statusOf'[i] = "cancelled" <=> statusOf[i] = "cancelled"
    /\ \A i \in Issue : statusOf[i] = "done" => statusOf'[i] = "done"
    /\ struck' \in BOOLEAN /\ (struck => struck')

\* By the state machine a status never leaves done, and leaves cancelled only for the backlog.
LEMMA MovesOfAStatus ==
    ASSUME NEW from \in Status, NEW to \in Status, CanTransition(from, to)
    PROVE  from # "done" /\ (from = "cancelled" => to = "backlog")
BY DEF CanTransition, Status

\* What TreeAssumption says of single issues
LEMMA ConstantKinds ==
    /\ NoIssue \notin Issue
    /\ \A i \in Issue : Parent[i] \in Issue \cup {NoIssue} /\ Deps[i] \subseteq Issue
    /\ Rework \subseteq Issue /\ \A i \in Rework : Deps[i] = {}
BY TreeAssumption

\* An idle thread
LEMMA IdleKind ==
    /\ Idle \in Held /\ Idle.pc = "idle" /\ Idle.task = "none" /\ InHand(Idle)
    /\ Idle.left = {} /\ Idle.old = {} /\ Idle.stopped = {}
BY DEF Idle, Held, Syncs, Cancels, InHand

\* A handler that cancels nothing has the role of any other that cancels nothing.
LEMMA NoRole ==
    ASSUME NEW g \in Held, NEW h \in Held, g.task \notin Cancels, h.task \notin Cancels
    PROVE  SameRole(g, h)
BY DEF SameRole, Todo, Lists, Awaits, Cancels

\* On its way up the ancestors a handler keeps its role, also when it is through.
LEMMA SyncRole ==
    ASSUME NEW g \in Held, NEW h \in Held, InHand(g), g.pc \in Syncs,
           h.task = g.task, h.issue = g.issue, h.left = g.left, h.old = g.old, h.stopped = g.stopped,
           h.pc \in Syncs \/ h.pc = (IF g.task = "cascade" THEN "cascade" ELSE "settled"),
           h.pc \in Syncs => h.cur \in Issue
    PROVE  SameRole(g, h) /\ InHand(h)
<1>1. InHand(h)
  BY DEF InHand, Syncs, Cancels
<1>2. h.task = "cancelled" => h.pc \in Syncs \cup {"settled"}
  BY DEF Syncs
<1>3. g.pc # "kill" /\ h.pc # "kill" /\ (Lists(g) <=> Lists(h))
  BY DEF Lists, Syncs
<1>4. Todo(h) = Todo(g)
  BY <1>3 DEF Todo
<1> QED
  BY <1>1, <1>2, <1>4 DEF SameRole, Awaits

\* The invariant survives a harmless step in which every handler keeps its role.
LEMMA RolesStay ==
    ASSUME TreeInv, Harmless, thr' \in [Thread -> Held],
           \A e \in Thread : InHand(thr'[e]) /\ SameRole(thr[e], thr'[e]) /\ Gated(thr'[e])
    PROVE  TreeInv'
<1> USE DEF TreeInv
<1>1. thr' \in [Thread -> Held]
  OBVIOUS
<1>2. \A e \in Thread : InHand(thr'[e]) /\ SameRole(thr[e], thr'[e])
  OBVIOUS
<1>3. \A e \in Thread : Gated(thr[e])' 
  <2> SUFFICES ASSUME NEW e \in Thread, thr'[e].pc = "launch", ~thr'[e].undone, NEW j \in Deps[thr'[e].cur]
               PROVE  statusOf'[j] = "done"
    BY DEF Gated
  <2>1. Gated(thr'[e])
    OBVIOUS
  <2>2. thr'[e].cur \in Issue
    BY <1>2 DEF InHand
  <2>3. j \in Issue
    BY <2>2, ConstantKinds
  <2> QED
    BY <2>1, <2>3 DEF Gated, Harmless
<1>4. TreeKinds'
  BY <1>1, <1>2, <1>3 DEF TreeKinds, Harmless
<1>5. ASSUME ~struck' PROVE Founded' /\ Covered' /\ Downward'
  <2>1. Founded /\ Covered /\ Downward /\ exists' = exists /\ exists \subseteq Issue
    BY <1>5 DEF Reaching, Harmless, TreeKinds
  <2>2. \A i : Downstream(i)' = Downstream(i)
    BY <2>1 DEF Downstream, Children, Dependents
  <2>3. \A i \in Issue : statusOf[i] \in Terminal => statusOf'[i] \in Terminal
    BY DEF Harmless, Terminal
  <2>4. Founded'
    BY <1>2, <2>1 DEF Founded, SameRole, Harmless
  <2>5. Covered'
    BY <1>2, <2>1, <2>2, <2>3 DEF Covered, SameRole, Harmless
  <2>6. Downward'
    <3> SUFFICES ASSUME NEW e \in Thread, NEW k \in Todo(thr'[e]), NEW j \in Downstream(k),
                        statusOf'[j] \notin Terminal
                 PROVE  j \in Todo(thr'[e])
      BY <2>2 DEF Downward, Terminal
    <3>1. Todo(thr'[e]) = Todo(thr[e])
      BY <1>2 DEF SameRole
    <3>2. j \in Issue
      BY <2>1 DEF Downstream, Children, Dependents
    <3> QED
      BY <3>1, <3>2, <2>1, <2>3 DEF Downward
  <2> QED
    BY <2>4, <2>5, <2>6
<1> QED
  BY <1>4, <1>5 DEF Reaching

\* The same for a step of thread d
LEMMA HarmlessStep ==
    ASSUME TreeInv, NEW d \in Thread, NEW h, Becomes(d, h), Harmless, SameRole(thr[d], h), Gated(h)
    PROVE  TreeInv'
<1>1. thr' \in [Thread -> Held] /\ thr'[d] = h /\ \A e \in Thread : e # d => thr'[e] = thr[e]
  BY DEF Becomes, TreeInv, TreeKinds
<1>2. \A e \in Thread : InHand(thr'[e]) /\ SameRole(thr[e], thr'[e]) /\ Gated(thr'[e])
  BY <1>1 DEF Becomes, TreeInv, TreeKinds, SameRole
<1> QED
  BY <1>1, <1>2, RolesStay

\* Nothing of the store changes.
LEMMA StoreStays ==
    ASSUME TreeInv, UNCHANGED <<store, struck>>
    PROVE  Harmless
BY DEF TreeInv, TreeKinds, Harmless, store

\* A move that the state machine allows, to something else than cancelled or backlog
LEMMA HarmlessMove ==
    ASSUME TreeInv, NEW i, NEW to \in Status \ {"cancelled", "backlog"},
           i \in Issue => CanTransition(statusOf[i], to), Set(i, to),
           exists' = exists, row' \in [Issue -> BOOLEAN], struck' \in BOOLEAN, struck => struck'
    PROVE  Harmless
<1>1. statusOf' = [statusOf EXCEPT ![i] = to] /\ statusOf \in [Issue -> Status]
  BY DEF TreeInv, TreeKinds, Set
<1>2. i \in Issue => statusOf[i] # "done" /\ statusOf[i] # "cancelled"
  BY <1>1, MovesOfAStatus
<1> QED
  BY <1>1, <1>2 DEF Harmless

-------------------------------------------------------------------------------
(* sync_parent_status *)

\* The handler goes on with the ancestors in the state h, or is through with them.
LEMMA SyncGoesOn ==
    ASSUME TreeInv, NEW d \in Thread, NEW h \in Held, Harmless, thr' = [thr EXCEPT ![d] = h],
           thr[d].pc \in Syncs, h.pc \in Syncs \/ h.pc = Resume(d), h.pc \in Syncs => h.cur \in Issue,
           h.task = thr[d].task, h.issue = thr[d].issue, h.left = thr[d].left, h.old = thr[d].old,
           h.stopped = thr[d].stopped
    PROVE  TreeInv'
<1>1. thr[d] \in Held /\ InHand(thr[d])
  BY DEF TreeInv, TreeKinds
<1>2. SameRole(thr[d], h) /\ InHand(h)
  BY <1>1, SyncRole DEF Resume
<1>3. h.pc # "launch"
  BY DEF Resume, Syncs
<1> QED
  BY <1>2, <1>3, HarmlessStep DEF Becomes, Gated

\* The state of a handler with two of its fields left closed, for steps that change its place only
Places == {"idle", "settled", "cascade", "kill", "depend", "launch", "lift", "block", "reopen",
           "judge", "verdict", "escalate", "close"} \cup Syncs
Duties == {"none", "done", "sweep", "review", "rework"} \cup Cancels

LEMMA HeldFields ==
    Held = [pc : Places, task : Duties, issue : Issue \cup {NoIssue}, cur : Issue \cup {NoIssue},
            seen : Status \cup {"none"}, whole : BOOLEAN,
            left : SUBSET Issue, old : SUBSET Issue, stopped : SUBSET Issue, undone : BOOLEAN]
BY DEF Held, Places, Duties

\* sync_parent_status goes up one level.
LEMMA UpGoesOn ==
    ASSUME TreeInv, NEW d \in Thread, Harmless, Up(d), thr[d].pc \in Syncs
    PROVE  TreeInv'
<1> DEFINE h == [thr[d] EXCEPT !.pc = IF Parent[thr[d].cur] = NoIssue THEN Resume(d) ELSE "sync",
                               !.cur = Parent[thr[d].cur], !.seen = "none", !.whole = FALSE]
<1>1. thr[d] \in Held /\ thr[d].cur \in Issue /\ thr \in [Thread -> Held]
  BY DEF TreeInv, TreeKinds, InHand
<1>2. thr' = [thr EXCEPT ![d] = h]
  BY <1>1 DEF Up
<1>3. h \in Held
  <2>1. Parent[thr[d].cur] \in Issue \cup {NoIssue}
    BY <1>1, ConstantKinds
  <2>2. (IF Parent[thr[d].cur] = NoIssue THEN Resume(d) ELSE "sync") \in {"cascade", "settled", "sync"}
    BY DEF Resume
  <2>3. (IF Parent[thr[d].cur] = NoIssue THEN Resume(d) ELSE "sync") \in Places
    BY <2>2 DEF Places, Syncs
  <2> QED BY <1>1, <2>1, <2>3, HeldFields
<1>4. /\ h.pc \in Syncs \/ h.pc = Resume(d)
      /\ h.pc \in Syncs => h.cur \in Issue
  <2>1. h.pc = (IF Parent[thr[d].cur] = NoIssue THEN Resume(d) ELSE "sync") /\ h.cur = Parent[thr[d].cur]
    BY <1>1 DEF Held
  <2>2. Resume(d) \in {"cascade", "settled"}
    BY DEF Resume
  <2> HIDE DEF h
  <2>3. Parent[thr[d].cur] \in Issue \cup {NoIssue}
    BY <1>1, ConstantKinds
  <2> QED
    BY <2>1, <2>2, <2>3 DEF Syncs
<1>5. /\ h.task = thr[d].task /\ h.issue = thr[d].issue /\ h.left = thr[d].left
      /\ h.old = thr[d].old /\ h.stopped = thr[d].stopped
  BY <1>1 DEF Held
<1> HIDE DEF h
<1> QED
  BY <1>2, <1>3, <1>4, <1>5, SyncGoesOn

\* sync_parent_status ends early.
LEMMA GiveUpGoesOn ==
    ASSUME TreeInv, NEW d \in Thread, Harmless, GiveUp(d), thr[d].pc \in Syncs
    PROVE  TreeInv'
<1> DEFINE h == [thr[d] EXCEPT !.pc = Resume(d), !.cur = NoIssue, !.seen = "none", !.whole = FALSE]
<1>1. thr[d] \in Held /\ thr \in [Thread -> Held]
  BY DEF TreeInv, TreeKinds
<1>2. thr' = [thr EXCEPT ![d] = h]
  BY <1>1 DEF GiveUp
<1>3. h \in Held /\ h.pc = Resume(d) /\ h.pc \notin Syncs
  <2>1. Resume(d) \in Places /\ Resume(d) \notin Syncs
    BY DEF Resume, Places, Syncs
  <2>2. h \in Held /\ h.pc = Resume(d)
    BY <1>1, <2>1, HeldFields
  <2> QED BY <2>1, <2>2
<1>4. /\ h.task = thr[d].task /\ h.issue = thr[d].issue /\ h.left = thr[d].left
      /\ h.old = thr[d].old /\ h.stopped = thr[d].stopped
  BY <1>1 DEF Held
<1> HIDE DEF h
<1> QED
  BY <1>2, <1>3, <1>4, SyncGoesOn

\* sync_one_parent reads the parent.
LEMMA SyncReadStep == ASSUME TreeInv, NEW d \in Thread, SyncRead(d) PROVE TreeInv'
<1> DEFINE p == thr[d].cur
           h == [thr[d] EXCEPT !.seen = statusOf[p], !.whole = AllDone(p),
                               !.pc = IF statusOf[p] \in {"backlog", "todo", "blocked"}
                                      THEN "raise" ELSE "enter"]
<1>1. /\ thr[d] \in Held /\ thr[d].pc \in Syncs /\ p \in Issue /\ statusOf[p] \in Status
      /\ thr \in [Thread -> Held]
  BY DEF TreeInv, TreeKinds, SyncRead, At, InHand, Syncs
<1>2. Harmless
  BY StoreStays DEF SyncRead
<1>3. CASE Up(d)
  BY <1>1, <1>2, <1>3, UpGoesOn
<1>4. CASE thr' = [thr EXCEPT ![d] = h]
  <2>1. h \in Held /\ h.pc \in Syncs /\ h.cur \in Issue
    <3>1. AllDone(p) \in BOOLEAN
      BY DEF AllDone
    <3>2. (IF statusOf[p] \in {"backlog", "todo", "blocked"} THEN "raise" ELSE "enter") \in {"raise", "enter"}
      OBVIOUS
    <3> QED
      BY <1>1, <3>1, <3>2 DEF Held, Syncs
  <2>2. /\ h.task = thr[d].task /\ h.issue = thr[d].issue /\ h.left = thr[d].left
        /\ h.old = thr[d].old /\ h.stopped = thr[d].stopped
    BY <1>1 DEF Held
  <2> HIDE DEF h
  <2> QED
    BY <1>1, <1>2, <1>4, <2>1, <2>2, SyncGoesOn
<1> QED
  BY <1>1, <1>3, <1>4 DEF SyncRead

\* It raises the parent to in_progress.
LEMMA SyncRaiseStep == ASSUME TreeInv, NEW d \in Thread, SyncRaise(d) PROVE TreeInv'
<1> DEFINE p == thr[d].cur
           h == [thr[d] EXCEPT !.pc = "enter"]
<1>1. thr[d] \in Held /\ thr[d].pc \in Syncs /\ p \in Issue /\ thr \in [Thread -> Held]
  BY DEF TreeInv, TreeKinds, SyncRaise, At, InHand, Syncs
<1>2. CASE CanTransition(statusOf[p], "in_progress")
  <2>1. Set(p, "in_progress") /\ thr' = [thr EXCEPT ![d] = h]
    BY <1>1, <1>2 DEF SyncRaise, Goto
  <2>2. Harmless
    BY <1>2, <2>1, HarmlessMove DEF SyncRaise, TreeInv, TreeKinds, Status, history
  <2>3. h \in Held /\ h.pc \in Syncs /\ h.cur \in Issue
    BY <1>1 DEF Held, Syncs
  <2>4. /\ h.task = thr[d].task /\ h.issue = thr[d].issue /\ h.left = thr[d].left
        /\ h.old = thr[d].old /\ h.stopped = thr[d].stopped
    BY <1>1 DEF Held
  <2> HIDE DEF h
  <2> QED
    BY <1>1, <2>1, <2>2, <2>3, <2>4, SyncGoesOn
<1>3. CASE ~CanTransition(statusOf[p], "in_progress")
  <2>1. GiveUp(d) /\ Harmless
    BY <1>3, StoreStays DEF SyncRaise, store, history
  <2> QED
    BY <1>1, <2>1, GiveUpGoesOn
<1> QED
  BY <1>2, <1>3

\* It moves the parent to in_review.
LEMMA SyncEnterStep == ASSUME TreeInv, NEW d \in Thread, SyncEnter(d) PROVE TreeInv'
<1> DEFINE p == thr[d].cur
<1>1. thr[d] \in Held /\ thr[d].pc \in Syncs /\ p \in Issue
  BY DEF TreeInv, TreeKinds, SyncEnter, At, InHand, Syncs
<1>2. Harmless
  <2>1. CASE CanTransition(statusOf[p], "in_review") /\ Set(p, "in_review")
    BY <2>1, HarmlessMove DEF SyncEnter, TreeInv, TreeKinds, Status
  <2>2. CASE UNCHANGED statusOf
    BY <2>2 DEF SyncEnter, TreeInv, TreeKinds, Harmless
  <2> QED
    BY <2>1, <2>2 DEF SyncEnter
<1> QED
  BY <1>1, <1>2, UpGoesOn, GiveUpGoesOn DEF SyncEnter

-------------------------------------------------------------------------------
(* Handlers that cancel nothing *)

\* A handler that cancels nothing goes on in the state h and cancels nothing.
LEMMA OtherGoesOn ==
    ASSUME TreeInv, NEW d \in Thread, NEW h \in Held, Harmless, thr' = [thr EXCEPT ![d] = h],
           thr[d].task \notin Cancels, h.task \notin Cancels, InHand(h), Gated(h)
    PROVE  TreeInv'
<1>1. thr[d] \in Held
  BY DEF TreeInv, TreeKinds
<1>2. SameRole(thr[d], h)
  BY <1>1, NoRole
<1> QED
  BY <1>2, HarmlessStep DEF Becomes

\* A handler that cancels nothing ends.
LEMMA OtherEnds ==
    ASSUME TreeInv, NEW d \in Thread, Harmless, Free(d), thr[d].task \notin Cancels
    PROVE  TreeInv'
<1>1. InHand(Idle) /\ Gated(Idle) /\ Idle \in Held /\ Idle.task \notin Cancels
  BY IdleKind DEF Gated, Cancels
<1> QED
  BY <1>1, OtherGoesOn DEF Free

\* on_issue_settled of an issue that is done
LEMMA SettlingKind ==
    ASSUME NEW i \in Issue, NEW to \in Terminal
    PROVE  /\ Settling(i, to) \in Held /\ InHand(Settling(i, to)) /\ Gated(Settling(i, to))
           /\ Settling(i, to).task = to /\ Settling(i, to).issue = i
           /\ Settling(i, to).pc \in Syncs \cup {"settled"}
           /\ Settling(i, to).stopped = {}
<1> DEFINE h == Settling(i, to)
<1>1. h \in Held
  BY IdleKind, ConstantKinds DEF Settling, Held, Syncs, Cancels, Terminal
<1>2. /\ h.task = to /\ h.issue = i /\ h.cur = Parent[i] /\ h.stopped = {}
      /\ h.pc = IF Parent[i] = NoIssue THEN "settled" ELSE "sync"
  BY IdleKind DEF Settling, Held
<1> HIDE DEF h
<1>3. InHand(h) /\ Gated(h)
  BY <1>2, ConstantKinds DEF InHand, Gated, Syncs, Cancels, Terminal
<1>4. h.pc \in Syncs \cup {"settled"}
  BY <1>2 DEF Syncs
<1> QED
  BY <1>1, <1>2, <1>3, <1>4 DEF h

\* Of an issue that is done the dependents are looked at.
LEMMA SettledStep ==
    ASSUME TreeInv, NEW d \in Thread, Settled(d), thr[d].task # "cancelled"
    PROVE  TreeInv'
<1> DEFINE others == Dependents(thr[d].issue)
           h == [thr[d] EXCEPT !.pc = "depend", !.left = others,
                               !.old = {j \in others : statusOf[j] \in Terminal}]
<1>1. /\ thr[d] \in Held /\ thr \in [Thread -> Held] /\ thr[d].task = "done"
      /\ thr[d].issue \in Issue /\ others \subseteq Issue
  BY DEF TreeInv, TreeKinds, InHand, Settled, At, Dependents
<1>2. Harmless /\ thr' = [thr EXCEPT ![d] = h]
  BY <1>1, StoreStays DEF Settled, history
<1>3. h \in Held /\ h.task = "done" /\ h.pc = "depend" /\ h.issue \in Issue
  BY <1>1 DEF Held
<1> HIDE DEF h
<1>4. InHand(h) /\ Gated(h)
  BY <1>3 DEF InHand, Gated, Syncs
<1> QED
  BY <1>1, <1>2, <1>3, <1>4, OtherGoesOn DEF Cancels

\* The gates of dispatch_subissue_auto for the next issue
LEMMA DependStep ==
    ASSUME TreeInv, NEW d \in Thread, Depend(d)
    PROVE  TreeInv'
<1>1. /\ thr[d] \in Held /\ thr \in [Thread -> Held] /\ thr[d].task \in {"done", "sweep", "rework"}
      /\ InHand(thr[d]) /\ thr[d].pc = "depend"
  BY DEF TreeInv, TreeKinds, InHand, Depend, At
<1>2. Harmless
  BY StoreStays DEF Depend, history
<1>3. CASE Free(d)
  BY <1>1, <1>2, <1>3, OtherEnds DEF Cancels
<1>4. ASSUME NEW i \in thr[d].left,
             thr' = [thr EXCEPT ![d].left = @ \ {i},
                                ![d].cur = IF MayStart(i) THEN i ELSE NoIssue,
                                ![d].pc = IF MayStart(i) THEN "launch" ELSE "depend"]
      PROVE  TreeInv'
  <2> DEFINE to == IF MayStart(i) THEN "launch" ELSE "depend"
             cur == IF MayStart(i) THEN i ELSE NoIssue
             h == [thr[d] EXCEPT !.left = @ \ {i}, !.cur = cur, !.pc = to]
  <2>1. thr' = [thr EXCEPT ![d] = h]
    BY <1>1, <1>4
  <2>2. i \in Issue /\ to \in {"launch", "depend"} /\ cur \in Issue \cup {NoIssue}
        /\ (to = "launch" => MayStart(i) /\ cur = i)
    BY <1>1 DEF Held
  <2> HIDE DEF to, cur
  <2>3. h \in Held
    BY <1>1, <2>2 DEF Held
  <2>4. h.pc = to /\ h.task = thr[d].task /\ h.issue = thr[d].issue /\ h.cur = cur
    BY <1>1 DEF Held
  <2> HIDE DEF h
  <2>5. InHand(h) /\ Gated(h)
    BY <1>1, <2>2, <2>4 DEF InHand, Gated, Syncs, MayStart, Cancels
  <2> QED
    BY <1>1, <1>2, <2>1, <2>3, <2>4, <2>5, OtherGoesOn DEF Cancels
<1> QED
  BY <1>3, <1>4 DEF Depend

\* The same gates for a parked issue
LEMMA SweepStep == ASSUME TreeInv, NEW d \in Thread, Sweep(d) PROVE TreeInv'
<1>1. PICK i \in exists :
         MayStart(i) /\ Run(d, [Idle EXCEPT !.pc = "launch", !.task = "sweep", !.cur = i])
  BY DEF Sweep
<1> DEFINE h == [Idle EXCEPT !.pc = "launch", !.task = "sweep", !.cur = i]
<1>2. thr[d].task = "none" /\ i \in Issue /\ Harmless
  BY StoreStays DEF TreeInv, TreeKinds, InHand, Sweep, At, history
<1>3. h \in Held /\ h.task = "sweep" /\ h.cur = i /\ h.pc = "launch"
  BY <1>2 DEF Idle, Held, Syncs
<1> HIDE DEF h
<1>4. InHand(h) /\ Gated(h)
  BY <1>1, <1>2, <1>3 DEF InHand, Gated, Syncs, MayStart, Cancels
<1>5. thr' = [thr EXCEPT ![d] = h]
  BY <1>1 DEF Run, h
<1> QED
  BY <1>2, <1>3, <1>4, <1>5, OtherGoesOn DEF Cancels

\* The review of a parent goes on to pc.
LEMMA GotoGoesOn ==
    ASSUME TreeInv, NEW d \in Thread, NEW pc \in {"verdict", "close"}, Harmless, Goto(d, pc),
           thr[d].pc \in {"judge", "verdict"}
    PROVE  TreeInv'
<1> DEFINE h == [thr[d] EXCEPT !.pc = pc]
<1>1. thr[d] \in Held /\ thr \in [Thread -> Held] /\ InHand(thr[d])
  BY DEF TreeInv, TreeKinds
<1>2. h \in Held /\ h.pc = pc /\ h.task = thr[d].task /\ h.issue = thr[d].issue /\ h.cur = thr[d].cur
  BY <1>1 DEF Held
<1>3. thr' = [thr EXCEPT ![d] = h]
  BY <1>1 DEF Goto
<1> HIDE DEF h
<1>4. InHand(h) /\ Gated(h) /\ h.task \notin Cancels
  BY <1>1, <1>2 DEF InHand, Gated, Syncs, Cancels
<1>5. thr[d].task \notin Cancels
  BY <1>1 DEF InHand, Cancels
<1> QED
  BY <1>2, <1>3, <1>4, <1>5, OtherGoesOn

\* A handler is through with a dispatch, or goes on with the parent of what it dispatched.
LEMMA LeaveGoesOn ==
    ASSUME TreeInv, NEW d \in Thread, NEW pc, Harmless, Leave(d, pc),
           thr[d].pc \in {"launch", "lift", "block"},
           pc \in {"lift", "block", "depend"} \/ pc = Failing(d)
    PROVE  TreeInv'
<1> DEFINE cur == IF pc \in {"lift", "block"} THEN thr[d].cur ELSE NoIssue
           h == [thr[d] EXCEPT !.pc = pc, !.undone = FALSE, !.cur = cur]
<1>1. /\ thr[d] \in Held /\ thr \in [Thread -> Held] /\ InHand(thr[d])
      /\ thr[d].task \in {"done", "sweep", "rework"} /\ thr[d].cur \in Issue
  BY DEF TreeInv, TreeKinds, InHand
<1>2. /\ pc \in {"lift", "block", "depend", "escalate"} /\ (pc = "escalate" => thr[d].task = "rework")
      /\ cur \in Issue \cup {NoIssue} /\ (pc \in {"lift", "block"} => cur \in Issue)
  BY <1>1 DEF Failing
<1>3. thr' = [thr EXCEPT ![d] = h]
  BY <1>1 DEF Leave
<1> HIDE DEF cur
<1>4. h \in Held /\ h.pc = pc /\ h.task = thr[d].task /\ h.issue = thr[d].issue /\ h.cur = cur
  <2>1. pc \in Places
    BY <1>2 DEF Places
  <2> QED BY <1>1, <1>2, <2>1, HeldFields
<1> HIDE DEF h
<1>5. InHand(h) /\ Gated(h) /\ h.task \notin Cancels /\ thr[d].task \notin Cancels
  BY <1>1, <1>2, <1>4 DEF InHand, Gated, Syncs, Cancels
<1> QED
  BY <1>3, <1>4, <1>5, OtherGoesOn

\* dispatch_issue_core starts on no issue that is closed.
LEMMA HarmlessStart ==
    ASSUME TreeInv, NEW i \in Issue, Startable(i), Start(i), exists' = exists, struck' = struck
    PROVE  Harmless
<1>1. statusOf \in [Issue -> Status] /\ row \in [Issue -> BOOLEAN] /\ struck \in BOOLEAN
  BY DEF TreeInv, TreeKinds
<1>2. statusOf[i] # "done" /\ statusOf[i] # "cancelled"
  BY DEF Startable
<1>3. statusOf' = [statusOf EXCEPT ![i] = "in_progress"] /\ row' = [row EXCEPT ![i] = TRUE]
  BY DEF Start, Set
<1> QED
  BY <1>1, <1>2, <1>3 DEF Harmless, Status

\* The dispatch of an issue that passed the gates
LEMMA LaunchStep == ASSUME TreeInv, NEW d \in Thread, Launch(d) PROVE TreeInv'
<1> DEFINE i == thr[d].cur
<1>1. thr[d].pc = "launch" /\ i \in Issue /\ exists' = exists /\ struck' = struck
  BY DEF Launch, At, TreeInv, TreeKinds, InHand
<1>2. \E pc : Leave(d, pc) /\ (pc \in {"lift", "block", "depend"} \/ pc = Failing(d))
  BY DEF Launch
<1>3. Harmless
  <2>1. CASE Startable(i)
    BY <1>1, <2>1, HarmlessStart DEF Launch
  <2>2. CASE ~Startable(i)
    BY <1>1, <2>2 DEF Launch, TreeInv, TreeKinds, Harmless
  <2> QED
    BY <2>1, <2>2
<1> QED
  BY <1>1, <1>2, <1>3, LeaveGoesOn

\* The dispatch is refused, or no worker takes the issue.
LEMMA WaitStep == ASSUME TreeInv, NEW d \in Thread, Wait(d) \/ Refuse(d) PROVE TreeInv'
<1>1. thr[d].pc = "launch"
  BY DEF Wait, Refuse, At
<1>2. \E pc : Leave(d, pc) /\ (pc \in {"lift", "block", "depend"} \/ pc = Failing(d))
  BY DEF Wait, Refuse
<1>3. Harmless
  BY StoreStays DEF Wait, Refuse, history
<1> QED
  BY <1>1, <1>2, <1>3, LeaveGoesOn

\* The parent of what was started, or of what waits, is moved.
LEMMA MoveParentStep == ASSUME TreeInv, NEW d \in Thread, MoveParent(d) PROVE TreeInv'
<1> DEFINE p == Parent[thr[d].cur]
           to == IF At(d, "lift") THEN "in_progress" ELSE "blocked"
<1>1. thr[d].pc \in {"lift", "block"} /\ Leave(d, "depend")
  BY DEF MoveParent
<1>2. to \in Status \ {"cancelled", "backlog"}
  BY DEF Status
<1>3. struck' \in BOOLEAN /\ (struck => struck')
  BY DEF MoveParent
<1>4. Harmless
  <2>1. CASE CanTransition(statusOf[p], to) /\ Set(p, to)
    <3> HIDE DEF to, p
    <3> QED
      BY <1>2, <1>3, <2>1, HarmlessMove DEF MoveParent, TreeInv, TreeKinds
  <2>2. CASE UNCHANGED statusOf
    BY <1>3, <2>2 DEF MoveParent, TreeInv, TreeKinds, Harmless
  <2> QED
    BY <2>1, <2>2 DEF MoveParent
<1> QED
  BY <1>1, <1>4, LeaveGoesOn

\* An issue ends: its handler begins.
LEMMA DoneStep ==
    ASSUME TreeInv, NEW d \in Thread, NEW i \in Issue, Set(i, "done"), statusOf[i] # "cancelled",
           Run(d, Settling(i, "done")), thr[d].task \notin Cancels, exists' = exists,
           row' \in [Issue -> BOOLEAN], struck' = struck
    PROVE  TreeInv'
<1>1. Harmless
  BY DEF Harmless, Set, TreeInv, TreeKinds, Status
<1>2. /\ Settling(i, "done") \in Held /\ InHand(Settling(i, "done")) /\ Gated(Settling(i, "done"))
      /\ Settling(i, "done").task = "done"
  BY SettlingKind DEF Terminal
<1> QED
  BY <1>1, <1>2, OtherGoesOn DEF Run, Cancels

\* A harmless step in which no handler moves
LEMMA NoHandlerStep == ASSUME TreeInv, Harmless, UNCHANGED thr PROVE TreeInv'
<1>1. \A e \in Thread : InHand(thr'[e]) /\ SameRole(thr[e], thr'[e]) /\ Gated(thr'[e])
  BY DEF TreeInv, TreeKinds, SameRole
<1> QED
  BY <1>1, RolesStay DEF TreeInv, TreeKinds

\* write_back_board_dispatch
LEMMA AnswerStep == ASSUME TreeInv, NEW i \in Issue, Answer(i) PROVE TreeInv'
<1>1. Harmless
  BY DEF Answer, Harmless, Set, TreeInv, TreeKinds, Status, history
<1> QED
  BY <1>1, NoHandlerStep DEF Answer

\* issue.dispatch and what else comes to dispatch_issue_core without the gates
LEMMA DispatchByHandStep == ASSUME TreeInv, NEW i \in Issue, DispatchByHand(i) PROVE TreeInv'
<1>1. Harmless
  BY HarmlessStart DEF DispatchByHand
<1> QED
  BY <1>1, NoHandlerStep DEF DispatchByHand

\* The seal leaves issues and handlers alone.
LEMMA SealStep == ASSUME TreeInv, Seal \/ Unseal \/ Probe PROVE TreeInv'
<1>1. Harmless /\ UNCHANGED thr
  BY StoreStays DEF Seal, Unseal, Probe, history
<1> QED
  BY <1>1, NoHandlerStep

\* auto_accept_and_settle
LEMMA AcceptStep == ASSUME TreeInv, NEW d \in Thread, NEW i \in Issue, Accept(d, i) PROVE TreeInv'
<1>1. thr[d].task = "none"
  BY DEF Accept, At, TreeInv, TreeKinds, InHand
<1> QED
  BY <1>1, DoneStep DEF Accept, TreeInv, TreeKinds, Cancels, history

\* The review of a parent closes it, or finds it closed.
LEMMA CloseStep == ASSUME TreeInv, NEW d \in Thread, Close(d) PROVE TreeInv'
<1> DEFINE p == thr[d].issue
<1>1. thr[d].task = "review" /\ p \in Issue /\ statusOf[p] \in Status
  BY DEF Close, At, TreeInv, TreeKinds, InHand
<1>2. CASE CanTransition(statusOf[p], "done")
  <2>1. statusOf[p] # "cancelled"
    BY <1>1, <1>2, MovesOfAStatus DEF Status
  <2> QED
    BY <1>1, <1>2, <2>1, DoneStep DEF Close, TreeInv, TreeKinds, Cancels, history
<1>3. CASE ~CanTransition(statusOf[p], "done")
  <2>1. Harmless /\ Free(d)
    BY <1>3, StoreStays DEF Close, store, history
  <2> QED
    BY <1>1, <2>1, OtherEnds DEF Cancels
<1> QED
  BY <1>2, <1>3

\* reopen_issue makes its checks.
LEMMA ReopenCheckStep ==
    ASSUME TreeInv, NEW d \in Thread, NEW i \in Issue, ReopenCheck(d, i)
    PROVE  TreeInv'
<1> DEFINE h == [Idle EXCEPT !.pc = "reopen", !.cur = i]
<1>1. thr[d].task = "none" /\ Harmless /\ thr' = [thr EXCEPT ![d] = h]
  BY StoreStays DEF ReopenCheck, Run, At, TreeInv, TreeKinds, InHand, history
<1>2. h \in Held /\ h.pc = "reopen" /\ h.task = "none" /\ h.cur = i
  BY IdleKind DEF Held
<1> HIDE DEF h
<1>3. InHand(h) /\ Gated(h)
  BY <1>2 DEF InHand, Gated, Syncs, Cancels
<1> QED
  BY <1>1, <1>2, <1>3, OtherGoesOn DEF Cancels

\* A spawned review begins, or has nothing to do.
LEMMA ReviewBeginStep ==
    ASSUME TreeInv, NEW d \in Thread, NEW p \in Issue, ReviewBegin(d, p)
    PROVE  TreeInv'
<1> DEFINE h == [Idle EXCEPT !.pc = "judge", !.task = "review", !.issue = p]
<1>1. thr[d].task = "none" /\ Harmless /\ thr \in [Thread -> Held]
  BY StoreStays DEF ReviewBegin, At, TreeInv, TreeKinds, InHand, history
<1>2. CASE thr' = [thr EXCEPT ![d] = h]
  <2>1. h \in Held /\ h.pc = "judge" /\ h.task = "review" /\ h.issue = p
    BY IdleKind DEF Held
  <2> HIDE DEF h
  <2>2. InHand(h) /\ Gated(h)
    BY <2>1 DEF InHand, Gated, Syncs, Cancels
  <2> QED
    BY <1>1, <1>2, <2>1, <2>2, OtherGoesOn DEF Cancels
<1>3. CASE UNCHANGED thr
  <2>1. thr' = [thr EXCEPT ![d] = thr[d]] /\ InHand(thr[d]) /\ Gated(thr[d]) /\ thr[d] \in Held
    BY <1>1, <1>3 DEF TreeInv, TreeKinds
  <2> QED
    BY <1>1, <2>1, OtherGoesOn DEF Cancels
<1> QED
  BY <1>2, <1>3 DEF ReviewBegin, Run

\* The steps of a review that leave the issues alone
LEMMA ReviewStep ==
    ASSUME TreeInv, NEW d \in Thread,
           Relevant(d) \/ Stale(d) \/ ReviewError(d) \/ Pass(d) \/ RemedyRecord(d) \/ Escalate(d)
    PROVE  TreeInv'
<1>1. Harmless
  BY DEF Relevant, Stale, ReviewError, Pass, RemedyRecord, Escalate, TreeInv, TreeKinds, Harmless, store,
     history
<1>2. thr[d].task \notin Cancels
  BY DEF Relevant, Stale, ReviewError, Pass, RemedyRecord, Escalate, At, TreeInv, TreeKinds, InHand,
     Cancels
<1>3. CASE Relevant(d) \/ Pass(d)
  BY <1>1, <1>3, GotoGoesOn DEF Relevant, Pass, At
<1>4. CASE Stale(d) \/ ReviewError(d) \/ RemedyRecord(d) \/ Escalate(d)
  BY <1>1, <1>2, <1>4, OtherEnds DEF Stale, ReviewError, RemedyRecord, Escalate
<1> QED
  BY <1>3, <1>4

-------------------------------------------------------------------------------
(* Steps that cancel or reopen *)

\* The kinds survive a step of thread d after which what was done is done.
LEMMA KindsStay ==
    ASSUME TreeInv, NEW d \in Thread, NEW h, Becomes(d, h), Gated(h), exists' \subseteq Issue,
           statusOf' \in [Issue -> Status], row' \in [Issue -> BOOLEAN], struck' \in BOOLEAN,
           \A i \in Issue : statusOf[i] = "done" => statusOf'[i] = "done"
    PROVE  /\ TreeKinds'
           /\ thr'[d] = h /\ \A e \in Thread : e # d => thr'[e] = thr[e]
<1>1. thr' \in [Thread -> Held] /\ thr'[d] = h /\ \A e \in Thread : e # d => thr'[e] = thr[e]
  BY DEF Becomes, TreeInv, TreeKinds
<1>2. \A e \in Thread : InHand(thr'[e]) /\ Gated(thr'[e])
  BY <1>1 DEF Becomes, TreeInv, TreeKinds
<1>3. \A e \in Thread : Gated(thr[e])'
  <2> SUFFICES ASSUME NEW e \in Thread, thr'[e].pc = "launch", ~thr'[e].undone, NEW j \in Deps[thr'[e].cur]
               PROVE  statusOf'[j] = "done"
    BY DEF Gated
  <2>1. j \in Issue
    BY <1>2, ConstantKinds DEF InHand
  <2> QED
    BY <1>2, <2>1 DEF Gated
<1> QED
  BY <1>1, <1>2, <1>3 DEF TreeKinds

\* An issue moves to cancelled or back: what was done stays done.
LEMMA DoneStays ==
    ASSUME TreeInv, NEW i \in Issue, NEW to \in Status, CanTransition(statusOf[i], to), Set(i, to)
    PROVE  /\ statusOf' \in [Issue -> Status] /\ statusOf'[i] = to
           /\ \A j \in Issue : j # i => statusOf'[j] = statusOf[j]
           /\ \A j \in Issue : statusOf[j] = "done" => statusOf'[j] = "done"
<1>1. statusOf \in [Issue -> Status] /\ statusOf[i] # "done"
  BY MovesOfAStatus DEF TreeInv, TreeKinds
<1> QED
  BY <1>1 DEF Set

\* issue.cancel: the list is still to be made.
LEMMA CancelStep ==
    ASSUME TreeInv, NEW d \in Thread, NEW i \in Issue, ByHand(d, i, "cancelled")
    PROVE  TreeInv'
<1> DEFINE h == Settling(i, "cancelled")
<1>1. /\ h \in Held /\ InHand(h) /\ Gated(h) /\ h.task = "cancelled" /\ h.issue = i
      /\ h.pc \in Syncs \cup {"settled"} /\ h.stopped = {}
  BY SettlingKind DEF Terminal
<1> HIDE DEF h
<1>2. /\ thr[d].task = "none" /\ i \in exists /\ exists \subseteq Issue /\ exists' = exists
      /\ CanTransition(statusOf[i], "cancelled") /\ Set(i, "cancelled") /\ struck' = struck
      /\ row' \in [Issue -> BOOLEAN] /\ thr' = [thr EXCEPT ![d] = h] /\ struck \in BOOLEAN
  BY DEF ByHand, At, Run, TreeInv, TreeKinds, InHand, history, h
<1>3. /\ statusOf' \in [Issue -> Status] /\ statusOf'[i] = "cancelled"
      /\ \A j \in Issue : j # i => statusOf'[j] = statusOf[j]
      /\ \A j \in Issue : statusOf[j] = "done" => statusOf'[j] = "done"
  BY <1>2, DoneStays DEF Status
<1>4. TreeKinds' /\ thr'[d] = h /\ \A e \in Thread : e # d => thr'[e] = thr[e]
  <2>1. Becomes(d, h)
    BY <1>1, <1>2 DEF Becomes
  <2> QED
    BY <1>1, <1>2, <1>3, <2>1, KindsStay
<1>5. Todo(h) = {} /\ (\A k \in Issue : Awaits(h, k) <=> k = i) /\ Todo(thr[d]) = {}
      /\ \A k \in Issue : ~Awaits(thr[d], k)
  BY <1>1, <1>2 DEF Todo, Lists, Awaits, Syncs
<1>6. ASSUME ~struck' PROVE Founded' /\ Covered' /\ Downward'
  <2>1. Founded /\ Covered /\ Downward
    BY <1>2, <1>6 DEF TreeInv, Reaching
  <2>2. \A k : Downstream(k)' = Downstream(k) /\ Downstream(k) \subseteq exists
    BY <1>2 DEF Downstream, Children, Dependents
  <2>3. Founded'
    BY <2>1, <1>1, <1>2, <1>3, <1>4, <1>5 DEF Founded
  <2>4. Covered'
    <3> SUFFICES ASSUME NEW k \in exists, NEW j \in exists, statusOf'[k] = "cancelled",
                        j \in Downstream(k), statusOf'[j] \notin Terminal
                 PROVE  \E e \in Thread : Awaits(thr'[e], k) \/ j \in Todo(thr'[e])
      BY <1>2, <2>2 DEF Covered, Terminal
    <3>1. CASE k = i
      BY <3>1, <1>4, <1>5
    <3>2. CASE k # i
      <4>1. statusOf[k] = "cancelled" /\ statusOf[j] \notin Terminal
        BY <3>2, <1>2, <1>3 DEF Terminal
      <4>2. PICK e \in Thread : Awaits(thr[e], k) \/ j \in Todo(thr[e])
        BY <4>1, <2>1 DEF Covered
      <4> QED
        BY <4>2, <1>2, <1>4, <1>5
    <3> QED
      BY <3>1, <3>2
  <2>5. Downward'
    <3> SUFFICES ASSUME NEW e \in Thread, NEW k \in Todo(thr'[e]), NEW j \in Downstream(k),
                        statusOf'[j] \notin Terminal
                 PROVE  j \in Todo(thr'[e])
      BY <2>2 DEF Downward, Terminal
    <3>1. e # d /\ thr'[e] = thr[e]
      BY <1>4, <1>5
    <3>2. statusOf[j] \notin Terminal
      BY <1>2, <1>3, <2>2 DEF Terminal
    <3> QED
      BY <3>1, <3>2, <2>1 DEF Downward
  <2> QED
    BY <2>3, <2>4, <2>5
<1> QED
  BY <1>4, <1>6 DEF TreeInv, Reaching

\* on_issue_settled of a cancelled issue makes the list.
LEMMA ListStep ==
    ASSUME TreeInv, NEW d \in Thread, Settled(d), thr[d].task = "cancelled"
    PROVE  TreeInv'
<1> DEFINE g == thr[d]
           i == g.issue
           h == [g EXCEPT !.pc = "cascade", !.left = Cascade(i),
                          !.old = {j \in Cascade(i) : statusOf[j] \in Terminal}]
<1>1. /\ g \in Held /\ g.pc = "settled" /\ g.task = "cancelled" /\ i \in Issue
      /\ thr \in [Thread -> Held] /\ exists \subseteq Issue
  BY DEF Settled, At, TreeInv, TreeKinds, InHand, Cancels
<1>2. /\ exists' = exists /\ statusOf' = statusOf /\ row' = row /\ struck' = struck
      /\ thr' = [thr EXCEPT ![d] = h]
  BY <1>1 DEF Settled, store, history
<1>3. /\ Cascade(i) \subseteq exists
      /\ \A k \in Cascade(i) \cup {i} : Downstream(k) \subseteq Cascade(i) \cup {i}
  BY <1>1, CascadeIsClosed
<1>4. /\ h \in Held /\ h.pc = "cascade" /\ h.task = "cancelled" /\ h.issue = i
      /\ h.left = Cascade(i) /\ h.old = {j \in Cascade(i) : statusOf[j] \in Terminal}
      /\ h.stopped = g.stopped
  BY <1>1, <1>3 DEF Held
<1> HIDE DEF h
<1>5. InHand(h) /\ Gated(h)
  BY <1>1, <1>4 DEF InHand, Gated, Syncs, Cancels
<1>6. TreeKinds' /\ thr'[d] = h /\ \A e \in Thread : e # d => thr'[e] = thr[e]
  BY <1>2, <1>4, <1>5, KindsStay DEF Becomes, TreeInv, TreeKinds
<1>7. /\ Todo(h) = {j \in Cascade(i) : statusOf[j] \notin Terminal}
      /\ \A k \in Issue : ~Awaits(h, k) /\ (Awaits(g, k) <=> k = i)
      /\ Todo(g) = {}
  BY <1>1, <1>4 DEF Todo, Lists, Awaits, Syncs
<1>8. ASSUME ~struck' PROVE Founded' /\ Covered' /\ Downward'
  <2>1. Founded /\ Covered /\ Downward
    BY <1>2, <1>8 DEF TreeInv, Reaching
  <2>2. \A k : Downstream(k)' = Downstream(k) /\ Downstream(k) \subseteq exists
    BY <1>2 DEF Downstream, Children, Dependents
  <2>3. statusOf[i] = "cancelled"
    BY <1>1, <1>7, <2>1 DEF Founded
  <2>4. Founded'
    BY <2>1, <1>1, <1>2, <1>3, <1>4, <1>6, <1>7 DEF Founded, Cancels
  <2>5. Covered'
    <3> SUFFICES ASSUME NEW k \in exists, NEW j \in exists, statusOf[k] = "cancelled",
                        j \in Downstream(k), statusOf[j] \notin Terminal
                 PROVE  \E e \in Thread : Awaits(thr'[e], k) \/ j \in Todo(thr'[e])
      BY <1>2, <2>2 DEF Covered
    <3>1. PICK e \in Thread : Awaits(thr[e], k) \/ j \in Todo(thr[e])
      BY <2>1 DEF Covered
    <3>2. CASE e = d
      <4>1. k = i
        BY <3>1, <3>2, <1>1, <1>7
      <4>2. j # i
        BY <2>3 DEF Terminal
      <4>3. j \in Todo(h)
        BY <4>1, <4>2, <1>3, <1>7
      <4> QED
        BY <4>3, <1>6
    <3>3. CASE e # d
      BY <3>1, <3>3, <1>6
    <3> QED
      BY <3>2, <3>3
  <2>6. Downward'
    <3> SUFFICES ASSUME NEW e \in Thread, NEW k \in Todo(thr'[e]), NEW j \in Downstream(k),
                        statusOf[j] \notin Terminal
                 PROVE  j \in Todo(thr'[e])
      BY <1>2, <2>2 DEF Downward
    <3>1. CASE e = d
      <4>1. j # i
        BY <2>3 DEF Terminal
      <4> QED
        BY <3>1, <4>1, <1>3, <1>6, <1>7
    <3>2. CASE e # d
      BY <3>2, <1>6, <2>1 DEF Downward
    <3> QED
      BY <3>1, <3>2
  <2> QED
    BY <2>4, <2>5, <2>6
<1> QED
  BY <1>6, <1>8 DEF TreeInv, Reaching

\* cascade_cancel_dependents takes the next of its list: what it still has to cancel stays.
LEMMA CascadeNextStep == ASSUME TreeInv, NEW d \in Thread, CascadeNext(d) PROVE TreeInv'
<1> DEFINE g == thr[d]
<1>1. /\ g \in Held /\ g.pc = "cascade" /\ g.task \in Cancels /\ g.issue \in Issue /\ InHand(g)
      /\ thr \in [Thread -> Held] /\ exists \subseteq Issue
  BY DEF CascadeNext, At, TreeInv, TreeKinds, InHand
<1>2. Harmless
  BY DEF CascadeNext, TreeInv, TreeKinds, Harmless, history
<1>3. CASE g.left = {} /\ Free(d)
  <2>1. Todo(g) = {} /\ Todo(Idle) = {} /\ \A i \in Issue : ~Awaits(g, i) /\ ~Awaits(Idle, i)
    BY <1>1, <1>3, IdleKind DEF Todo, Awaits, Lists, Syncs
  <2>2. SameRole(g, Idle) /\ Gated(Idle)
    BY <2>1, IdleKind DEF SameRole, Gated, Cancels
  <2> QED
    BY <1>2, <1>3, <2>2, IdleKind, HarmlessStep DEF Becomes, Free
<1>4. ASSUME NEW j \in g.left, thr' = [thr EXCEPT ![d].left = @ \ {j}],
             j \in g.old \/ Parent[j] \in g.stopped \/ Deps[j] \cap g.stopped # {}
      PROVE  TreeInv'
  <2> DEFINE h == [g EXCEPT !.left = @ \ {j}]
  <2>1. thr' = [thr EXCEPT ![d] = h]
    BY <1>1, <1>4
  <2>2. /\ h \in Held /\ h.left = g.left \ {j} /\ h.pc = g.pc /\ h.task = g.task
        /\ h.issue = g.issue /\ h.cur = g.cur /\ h.old = g.old /\ h.stopped = g.stopped
    BY <1>1 DEF Held
  <2> HIDE DEF h
  <2>3. InHand(h) /\ Gated(h)
    BY <1>1, <2>2 DEF InHand, Gated
  <2>4. CASE j \in g.old
    <3>1. Todo(h) = Todo(g)
      BY <2>2, <2>4 DEF Todo, Lists
    <3>2. SameRole(g, h)
      BY <2>2, <3>1, <1>1 DEF SameRole, Awaits
    <3> QED
      BY <1>2, <2>1, <2>2, <2>3, <3>2, HarmlessStep DEF Becomes
  <2>5. CASE struck /\ j \notin g.old
    BY <2>1, <2>2, <2>3, <2>5, <1>2, KindsStay DEF Becomes, Harmless, TreeInv, Reaching, TreeKinds
  <2>6. ~struck => j \in g.old
    BY <1>1, <1>4 DEF TreeInv, Reaching, Founded
  <2> QED
    BY <2>4, <2>5, <2>6
<1>5. ASSUME NEW j \in g.left, j \notin g.old,
             thr' = [thr EXCEPT ![d].left = @ \ {j}, ![d].cur = j, ![d].pc = "kill"]
      PROVE  TreeInv'
  <2> DEFINE h == [g EXCEPT !.left = @ \ {j}, !.cur = j, !.pc = "kill"]
  <2>1. thr' = [thr EXCEPT ![d] = h]
    BY <1>1, <1>5
  <2>2. j \in Issue
    BY <1>1 DEF Held
  <2>3. /\ h \in Held /\ h.left = g.left \ {j} /\ h.pc = "kill" /\ h.task = g.task
        /\ h.issue = g.issue /\ h.cur = j /\ h.old = g.old /\ h.stopped = g.stopped
    BY <1>1, <2>2 DEF Held
  <2> HIDE DEF h
  <2>4. InHand(h) /\ Gated(h)
    BY <1>1, <2>2, <2>3 DEF InHand, Gated, Syncs, Cancels
  <2>5. Lists(g) /\ Lists(h)
    BY <1>1, <2>3 DEF Lists, Cancels
  <2>6. Todo(h) = Todo(g)
    BY <1>1, <1>5, <2>3, <2>5 DEF Todo
  <2>7. SameRole(g, h)
    BY <1>1, <2>3, <2>6 DEF SameRole, Awaits, Syncs
  <2> QED
    BY <1>2, <2>1, <2>3, <2>4, <2>7, HarmlessStep DEF Becomes
<1> QED
  BY <1>3, <1>4, <1>5 DEF CascadeNext

\* A step that strikes leaves the kinds to show.
LEMMA StruckStep ==
    ASSUME TreeInv, NEW d \in Thread, NEW h, Becomes(d, h), Gated(h), exists' \subseteq Issue,
           statusOf' \in [Issue -> Status], row' \in [Issue -> BOOLEAN], struck' = TRUE,
           \A i \in Issue : statusOf[i] = "done" => statusOf'[i] = "done"
    PROVE  TreeInv'
BY KindsStay DEF TreeInv, Reaching

\* The issue is cancelled: what hangs on it is on the list.  Or it cannot be: that strikes.
LEMMA CascadeKillStep == ASSUME TreeInv, NEW d \in Thread, CascadeKill(d) PROVE TreeInv'
<1> DEFINE g == thr[d]
           j == g.cur
<1>1. /\ g \in Held /\ g.pc = "kill" /\ g.task \in Cancels /\ g.issue \in Issue /\ InHand(g)
      /\ j \in Issue /\ thr \in [Thread -> Held] /\ exists \subseteq Issue /\ exists' = exists
      /\ row' = row /\ row \in [Issue -> BOOLEAN] /\ struck \in BOOLEAN
      /\ statusOf \in [Issue -> Status]
  BY DEF CascadeKill, At, TreeInv, TreeKinds, InHand
<1>2. CASE ~CanTransition(statusOf[j], "cancelled")
  <2> DEFINE h == [g EXCEPT !.stopped = @ \cup {j}, !.pc = "cascade"]
  <2>1. thr' = [thr EXCEPT ![d] = h] /\ struck' = TRUE /\ statusOf' = statusOf
    BY <1>1, <1>2 DEF CascadeKill
  <2>2. h \in Held /\ h.pc = "cascade" /\ h.task = g.task /\ h.issue = g.issue
    BY <1>1 DEF Held
  <2> HIDE DEF h
  <2>3. InHand(h) /\ Gated(h)
    BY <1>1, <2>2 DEF InHand, Gated, Syncs, Cancels
  <2> QED
    BY <1>1, <2>1, <2>2, <2>3, StruckStep DEF Becomes
<1>3. CASE CanTransition(statusOf[j], "cancelled")
  <2> DEFINE h == [g EXCEPT !.cur = Parent[j], !.task = "cascade",
                            !.pc = IF Parent[j] = NoIssue THEN "cascade" ELSE "sync"]
  <2>1. /\ thr' = [thr EXCEPT ![d] = h] /\ struck' = struck /\ Set(j, "cancelled")
    BY <1>1, <1>3 DEF CascadeKill
  <2>2. /\ h \in Held /\ h.pc = (IF Parent[j] = NoIssue THEN "cascade" ELSE "sync")
        /\ h.task = "cascade" /\ h.issue = g.issue /\ h.cur = Parent[j]
        /\ h.left = g.left /\ h.old = g.old /\ h.stopped = g.stopped
    BY <1>1, ConstantKinds DEF Held, Syncs, Cancels
  <2> HIDE DEF h
  <2>3. InHand(h) /\ Gated(h)
    BY <1>1, <2>2, ConstantKinds DEF InHand, Gated, Syncs, Cancels
  <2>4. /\ statusOf' \in [Issue -> Status] /\ statusOf'[j] = "cancelled"
        /\ \A k \in Issue : k # j => statusOf'[k] = statusOf[k]
        /\ \A k \in Issue : statusOf[k] = "done" => statusOf'[k] = "done"
    BY <1>1, <1>3, <2>1, DoneStays DEF Status
  <2>5. TreeKinds' /\ thr'[d] = h /\ \A e \in Thread : e # d => thr'[e] = thr[e]
    BY <1>1, <2>1, <2>2, <2>3, <2>4, KindsStay DEF Becomes
  <2>6. /\ Todo(g) = Todo(h) \cup {j} /\ j \in Todo(g)
        /\ \A k \in Issue : ~Awaits(h, k) /\ ~Awaits(g, k)
    <3>1. Lists(g) /\ Lists(h)
      BY <1>1, <2>2 DEF Lists, Cancels
    <3> QED
      BY <1>1, <2>2, <3>1 DEF Todo, Awaits, Syncs
  <2>7. ASSUME ~struck' PROVE Founded' /\ Covered' /\ Downward'
    <3>1. Founded /\ Covered /\ Downward
      BY <2>1, <2>7 DEF TreeInv, Reaching
    <3>2. \A k : Downstream(k)' = Downstream(k) /\ Downstream(k) \subseteq exists
      BY <1>1 DEF Downstream, Children, Dependents
    <3>3. j \in exists
      BY <2>6, <3>1 DEF Founded
    <3>4. \A k \in Issue : statusOf'[k] \notin Terminal => k # j /\ statusOf[k] \notin Terminal
      BY <2>4 DEF Terminal
    <3>5. Founded'
      <4>1. \A i \in Issue \ exists : statusOf'[i] # "cancelled"
        BY <2>4, <3>1, <3>3 DEF Founded
      <4>2. \A e \in Thread : thr'[e].task \in Cancels => thr'[e].stopped = {}
        BY <1>1, <2>2, <2>5, <3>1 DEF Founded
      <4>3. \A e \in Thread : Todo(thr'[e]) \subseteq exists
        BY <2>5, <2>6, <3>1 DEF Founded
      <4>4. \A e \in Thread : \A i \in Issue :
               Awaits(thr'[e], i) => i \in exists /\ statusOf'[i] = "cancelled"
        BY <2>4, <2>5, <2>6, <3>1 DEF Founded
      <4> QED
        BY <1>1, <4>1, <4>2, <4>3, <4>4 DEF Founded
    <3>6. Covered'
      <4> SUFFICES ASSUME NEW i \in exists, NEW k \in exists, statusOf'[i] = "cancelled",
                          k \in Downstream(i), statusOf'[k] \notin Terminal
                   PROVE  \E e \in Thread : Awaits(thr'[e], i) \/ k \in Todo(thr'[e])
        BY <1>1, <3>2 DEF Covered, Terminal
      <4>1. k # j /\ statusOf[k] \notin Terminal
        BY <1>1, <3>4
      <4>2. CASE i = j
        <5>1. k \in Todo(g)
          BY <4>1, <4>2, <2>6, <3>1 DEF Downward
        <5> QED
          BY <5>1, <4>1, <2>5, <2>6
      <4>3. CASE i # j
        <5>1. statusOf[i] = "cancelled"
          BY <4>3, <1>1, <2>4
        <5>2. PICK e \in Thread : Awaits(thr[e], i) \/ k \in Todo(thr[e])
          BY <4>1, <5>1, <3>1 DEF Covered
        <5>3. i \in Issue
          BY <1>1
        <5> QED
          BY <5>2, <5>3, <4>1, <2>5, <2>6
      <4> QED
        BY <4>2, <4>3
    <3>7. Downward'
      <4> SUFFICES ASSUME NEW e \in Thread, NEW k \in Todo(thr'[e]), NEW i \in Downstream(k),
                          statusOf'[i] \notin Terminal
                   PROVE  i \in Todo(thr'[e])
        BY <3>2 DEF Downward, Terminal
      <4>1. i # j /\ statusOf[i] \notin Terminal
        BY <1>1, <3>2, <3>4
      <4>2. CASE e = d
        BY <4>1, <4>2, <2>5, <2>6, <3>1 DEF Downward
      <4>3. CASE e # d
        BY <4>1, <4>3, <2>5, <3>1 DEF Downward
      <4> QED
        BY <4>2, <4>3
    <3> QED
      BY <3>5, <3>6, <3>7
  <2> QED
    BY <2>5, <2>7 DEF TreeInv, Reaching
<1> QED
  BY <1>2, <1>3

\* reopen_issue: as long as nothing is being cancelled, nothing cancelled has anything open hanging
\* on it, and the issue that is reopened hangs on nothing that is cancelled.
LEMMA ReopenStep == ASSUME TreeInv, NEW d \in Thread, Reopen(d) PROVE TreeInv'
<1> DEFINE i == thr[d].cur
<1>1. /\ thr[d].task = "none" /\ i \in Issue /\ exists' = exists /\ exists \subseteq Issue
      /\ row' = row /\ row \in [Issue -> BOOLEAN] /\ Free(d) /\ statusOf \in [Issue -> Status]
      /\ struck' \in BOOLEAN
  BY DEF Reopen, At, TreeInv, TreeKinds, InHand
<1>2. CASE statusOf' = statusOf
  <2>1. Harmless
    BY <1>1, <1>2 DEF Harmless, Reopen
  <2> QED
    BY <1>1, <2>1, OtherEnds DEF Cancels
<1>3. CASE CanTransition(statusOf[i], "backlog") /\ Set(i, "backlog")
  <2>1. /\ statusOf' \in [Issue -> Status] /\ statusOf'[i] = "backlog"
        /\ \A k \in Issue : k # i => statusOf'[k] = statusOf[k]
        /\ \A k \in Issue : statusOf[k] = "done" => statusOf'[k] = "done"
    BY <1>1, <1>3, DoneStays DEF Status
  <2>2. Becomes(d, Idle) /\ Gated(Idle)
    BY <1>1, IdleKind DEF Becomes, Free, Gated
  <2>3. TreeKinds' /\ thr'[d] = Idle /\ \A e \in Thread : e # d => thr'[e] = thr[e]
    BY <1>1, <2>1, <2>2, KindsStay
  <2>4. ASSUME ~struck' PROVE Founded' /\ Covered' /\ Downward'
    <3>1. /\ Founded /\ Covered /\ Downward /\ MayReopen(i)
          /\ \A e \in Thread : thr[e].task \notin Cancels
      BY <2>4 DEF Reopen, TreeInv, Reaching, Cancels
    <3>2. \A e \in Thread : thr'[e].task \notin Cancels
      BY <2>3, <3>1, IdleKind DEF Cancels
    <3>3. \A e \in Thread : /\ Todo(thr[e]) = {} /\ Todo(thr'[e]) = {}
                            /\ \A k \in Issue : ~Awaits(thr[e], k) /\ ~Awaits(thr'[e], k)
      BY <3>1, <3>2 DEF Todo, Lists, Awaits, Cancels
    <3>4. Founded' /\ Downward'
      BY <1>1, <2>1, <3>1, <3>2, <3>3 DEF Founded, Downward
    <3>5. \A k : Downstream(k)' = Downstream(k)
      BY <1>1 DEF Downstream, Children, Dependents
    <3>6. Covered'
      <4> SUFFICES ASSUME NEW k \in exists, NEW j \in exists, statusOf'[k] = "cancelled",
                          j \in Downstream(k), statusOf'[j] \notin Terminal
                   PROVE  FALSE
        BY <1>1, <3>5 DEF Covered, Terminal
      <4>1. k # i /\ statusOf[k] = "cancelled" /\ k \in Issue /\ j \in Issue
        BY <1>1, <2>1
      <4>2. CASE j = i
        BY <4>1, <4>2, <3>1, ConstantKinds DEF MayReopen, Downstream, Children, Dependents
      <4>3. CASE j # i
        <5>1. statusOf[j] \notin Terminal
          BY <4>1, <4>3, <2>1
        <5> QED
          BY <5>1, <4>1, <3>1, <3>3 DEF Covered
      <4> QED
        BY <4>2, <4>3
    <3> QED
      BY <3>4, <3>6
  <2> QED
    BY <2>3, <2>4 DEF TreeInv, Reaching
<1> QED
  BY <1>2, <1>3 DEF Reopen

\* audit.rollback and note_overlimit: like a reopening, and what was about to start on the strength of
\* the issue is marked.
LEMMA TakeBackStep == ASSUME TreeInv, NEW i \in Issue, TakeBack(i) PROVE TreeInv'
<1> DEFINE Marked(e) == [thr[e] EXCEPT !.undone = TRUE]
<1>1. /\ exists' = exists /\ exists \subseteq Issue /\ row' = row /\ row \in [Issue -> BOOLEAN]
      /\ statusOf \in [Issue -> Status] /\ struck' \in BOOLEAN /\ thr \in [Thread -> Held]
      /\ statusOf[i] = "done" /\ Set(i, "in_review")
  BY DEF TakeBack, TreeInv, TreeKinds
<1>2. /\ statusOf' \in [Issue -> Status] /\ statusOf'[i] = "in_review"
      /\ \A k \in Issue : k # i => statusOf'[k] = statusOf[k]
  BY <1>1 DEF Set, Status
<1>3. ASSUME NEW e \in Thread
      PROVE  thr'[e] = IF At(e, "launch") /\ i \in Deps[thr[e].cur] THEN Marked(e) ELSE thr[e]
  BY DEF TakeBack
<1>4. ASSUME NEW e \in Thread
      PROVE  /\ Marked(e) \in Held /\ Marked(e).undone = TRUE /\ Marked(e).pc = thr[e].pc
             /\ Marked(e).task = thr[e].task /\ Marked(e).issue = thr[e].issue
             /\ Marked(e).cur = thr[e].cur
  <2>1. thr[e] \in Held
    BY <1>1
  <2> QED
    BY <2>1 DEF Held
<1> HIDE DEF Marked
<1>5. \A e \in Thread : thr'[e] \in Held /\ thr'[e].pc = thr[e].pc /\ thr'[e].task = thr[e].task
                          /\ thr'[e].issue = thr[e].issue /\ thr'[e].cur = thr[e].cur
  BY <1>1, <1>3, <1>4
<1>6. thr' \in [Thread -> Held]
  <2>1. thr' = [e \in Thread |-> thr'[e]]
    BY DEF TakeBack
  <2> QED
    BY <1>5, <2>1
<1>7. \A e \in Thread : InHand(thr'[e])
  BY <1>5 DEF InHand, TreeInv, TreeKinds
<1>8. ASSUME NEW e \in Thread PROVE Gated(thr[e])'
  <2>1. CASE At(e, "launch") /\ i \in Deps[thr[e].cur]
    <3>1. thr'[e].undone
      BY <1>3, <1>4, <2>1
    <3> QED
      BY <3>1 DEF Gated
  <2>2. CASE At(e, "launch") /\ i \notin Deps[thr[e].cur]
    <3>1. thr'[e] = thr[e] /\ Gated(thr[e]) /\ thr[e].cur \in Issue
      BY <1>3, <2>2 DEF TreeInv, TreeKinds, InHand, At
    <3>2. Deps[thr[e].cur] \subseteq Issue \ {i}
      BY <2>2, <3>1, ConstantKinds
    <3> QED
      BY <3>1, <3>2, <1>2 DEF Gated
  <2>3. CASE ~At(e, "launch")
    BY <1>5, <2>3 DEF Gated, At
  <2> QED
    BY <2>1, <2>2, <2>3
<1>9. TreeKinds'
  BY <1>1, <1>2, <1>6, <1>7, <1>8 DEF TreeKinds
<1>10. ASSUME ~struck' PROVE Founded' /\ Covered' /\ Downward'
  <2>1. /\ Founded /\ Covered /\ MayReopen(i)
        /\ \A e \in Thread : thr[e].task \notin Cancels
    BY <1>10 DEF TakeBack, TreeInv, Reaching, Cancels
  <2>2. \A e \in Thread : thr'[e].task \notin Cancels
    BY <1>5, <2>1
  <2>3. \A e \in Thread : /\ Todo(thr[e]) = {} /\ Todo(thr'[e]) = {}
                          /\ \A k \in Issue : ~Awaits(thr[e], k) /\ ~Awaits(thr'[e], k)
    BY <2>1, <2>2 DEF Todo, Lists, Awaits, Cancels
  <2>4. Founded' /\ Downward'
    BY <1>1, <1>2, <2>1, <2>2, <2>3 DEF Founded, Downward
  <2>5. \A k : Downstream(k)' = Downstream(k)
    BY <1>1 DEF Downstream, Children, Dependents
  <2>6. Covered'
    <3> SUFFICES ASSUME NEW k \in exists, NEW j \in exists, statusOf'[k] = "cancelled",
                        j \in Downstream(k), statusOf'[j] \notin Terminal
                 PROVE  FALSE
      BY <1>1, <2>5 DEF Covered, Terminal
    <3>1. k # i /\ statusOf[k] = "cancelled" /\ k \in Issue /\ j \in Issue
      BY <1>1, <1>2
    <3>2. CASE j = i
      BY <3>1, <3>2, <2>1, ConstantKinds DEF MayReopen, Downstream, Children, Dependents
    <3>3. CASE j # i
      <4>1. statusOf[j] \notin Terminal
        BY <3>1, <3>3, <1>2
      <4> QED
        BY <4>1, <3>1, <2>1, <2>3 DEF Covered
    <3> QED
      BY <3>2, <3>3
  <2> QED
    BY <2>4, <2>6
<1> QED
  BY <1>9, <1>10 DEF TreeInv, Reaching

\* try_parent_remediation: a child comes into being under a parent that no list has.
LEMMA RemedyStep == ASSUME TreeInv, NEW d \in Thread, Remedy(d) PROVE TreeInv'
<1> DEFINE g == thr[d]
           p == g.issue
<1>1. PICK i \in Rework \ exists :
          /\ Parent[i] = p
          /\ exists' = exists \cup {i}
          /\ thr' = [thr EXCEPT ![d].pc = "depend", ![d].left = {i}, ![d].task = "rework"]
  BY DEF Remedy
<1> DEFINE h == [g EXCEPT !.pc = "depend", !.left = {i}, !.task = "rework"]
<1>2. /\ g \in Held /\ g.pc = "verdict" /\ g.task = "review" /\ p \in Issue
      /\ thr \in [Thread -> Held] /\ exists \subseteq Issue /\ i \in Issue /\ Deps[i] = {}
      /\ statusOf' = statusOf /\ row' = row /\ struck' \in BOOLEAN
  BY ConstantKinds DEF Remedy, At, TreeInv, TreeKinds, InHand
<1>3. thr' = [thr EXCEPT ![d] = h]
  BY <1>1, <1>2
<1>4. h \in Held /\ h.pc = "depend" /\ h.task = "rework" /\ h.issue = p
  BY <1>2 DEF Held
<1> HIDE DEF h
<1>5. InHand(h) /\ Gated(h)
  BY <1>2, <1>4 DEF InHand, Gated, Syncs, Cancels
<1>6. TreeKinds' /\ thr'[d] = h /\ \A e \in Thread : e # d => thr'[e] = thr[e]
  <2>1. Becomes(d, h) /\ exists' \subseteq Issue
    BY <1>1, <1>2, <1>3, <1>4, <1>5 DEF Becomes
  <2>2. statusOf' \in [Issue -> Status] /\ row' \in [Issue -> BOOLEAN]
    BY <1>2 DEF TreeInv, TreeKinds
  <2> QED
    BY <1>2, <1>5, <2>1, <2>2, KindsStay
<1>7. \A e \in Thread : SameRole(thr[e], thr'[e])
  <2>1. SameRole(g, h)
    BY <1>2, <1>4, NoRole DEF Cancels
  <2> QED
    BY <1>6, <2>1 DEF SameRole
<1>8. ASSUME ~struck' PROVE Founded' /\ Covered' /\ Downward'
  <2>1. /\ Founded /\ Covered /\ Downward /\ statusOf[p] = "in_review"
        /\ \A e \in Thread : ~OnList(e, p)
    BY <1>8 DEF Remedy, TreeInv, Reaching
  <2>2. \A k : Downstream(k)' = Downstream(k) \cup (IF k = p THEN {i} ELSE {})
    BY <1>1, <1>2 DEF Downstream, Children, Dependents
  <2>3. statusOf[i] # "cancelled"
    BY <1>1, <1>2, <2>1 DEF Founded
  <2>4. \A e \in Thread : p \notin Todo(thr[e])
    BY <2>1 DEF OnList, Todo, Lists, At, Cancels
  <2>5. Founded'
    BY <1>1, <1>2, <1>7, <2>1 DEF Founded, SameRole
  <2>6. Covered'
    <3> SUFFICES ASSUME NEW k \in exists \cup {i}, NEW j \in exists \cup {i}, statusOf[k] = "cancelled",
                        j \in Downstream(k)', statusOf[j] \notin Terminal
                 PROVE  \E e \in Thread : Awaits(thr'[e], k) \/ j \in Todo(thr'[e])
      BY <1>1, <1>2 DEF Covered
    <3>1. k # p /\ k # i /\ k \in exists /\ k \in Issue
      BY <1>2, <2>1, <2>3
    <3>2. j \in Downstream(k)
      BY <2>2, <3>1
    <3>3. j \in exists
      BY <3>2 DEF Downstream, Children, Dependents
    <3>4. PICK e \in Thread : Awaits(thr[e], k) \/ j \in Todo(thr[e])
      BY <2>1, <3>1, <3>2, <3>3 DEF Covered
    <3> QED
      BY <3>1, <3>4, <1>7 DEF SameRole
  <2>7. Downward'
    <3> SUFFICES ASSUME NEW e \in Thread, NEW k \in Todo(thr'[e]), NEW j \in Downstream(k)',
                        statusOf[j] \notin Terminal
                 PROVE  j \in Todo(thr'[e])
      BY <1>2 DEF Downward
    <3>1. Todo(thr'[e]) = Todo(thr[e])
      BY <1>7 DEF SameRole
    <3>2. j \in Downstream(k)
      BY <2>2, <2>4, <3>1
    <3> QED
      BY <2>1, <3>1, <3>2 DEF Downward
  <2> QED
    BY <2>5, <2>6, <2>7
<1> QED
  BY <1>6, <1>8 DEF TreeInv, Reaching

\* A crash strikes when something was being cancelled.
LEMMA CrashStep == ASSUME TreeInv, Crash PROVE TreeInv'
<1>1. /\ thr' = [d \in Thread |-> Idle] /\ exists' = exists /\ statusOf' = statusOf /\ row' = row
      /\ struck' \in BOOLEAN /\ exists \subseteq Issue
  BY DEF Crash, store, TreeInv, TreeKinds
<1>2. \A e \in Thread : thr'[e] = Idle
  BY <1>1
<1>3. InHand(Idle) /\ Gated(Idle) /\ Idle \in Held /\ Idle.task = "none"
  BY IdleKind DEF Gated
<1>4. TreeKinds'
  <2>1. \A e \in Thread : Gated(thr[e])'
    BY <1>2, IdleKind DEF Gated
  <2> QED
    BY <1>1, <1>2, <1>3, <2>1 DEF TreeInv, TreeKinds
<1>5. ASSUME ~struck' PROVE Founded' /\ Covered' /\ Downward'
  <2>1. Founded /\ Covered /\ Downward /\ \A e \in Thread : thr[e].task \notin Cancels
    BY <1>5 DEF Crash, TreeInv, Reaching, Cancels
  <2>2. \A e \in Thread : /\ Todo(thr[e]) = {} /\ Todo(thr'[e]) = {} /\ thr'[e].task \notin Cancels
                          /\ \A k \in Issue : ~Awaits(thr[e], k) /\ ~Awaits(thr'[e], k)
    BY <2>1, <1>2, <1>3 DEF Todo, Lists, Awaits, Cancels
  <2>3. \A k : Downstream(k)' = Downstream(k)
    BY <1>1 DEF Downstream, Children, Dependents
  <2>4. Founded' /\ Downward'
    BY <1>1, <2>1, <2>2 DEF Founded, Downward
  <2>5. Covered'
    BY <1>1, <2>1, <2>2, <2>3 DEF Covered
  <2> QED
    BY <2>4, <2>5
<1> QED
  BY <1>4, <1>5 DEF TreeInv, Reaching

-------------------------------------------------------------------------------
\* TreeInv holds at first.
LEMMA TreeInit == Init => TreeInv
<1> SUFFICES ASSUME Init PROVE TreeInv
  OBVIOUS
<1>1. \A e \in Thread : thr[e] = Idle
  BY DEF Init
<1>2. InHand(Idle) /\ Gated(Idle) /\ Idle \in Held /\ Idle.task = "none"
  BY IdleKind DEF Gated
<1>3. TreeKinds
  BY <1>1, <1>2 DEF Init, TreeKinds, Status
<1>4. \A i \in Issue : statusOf[i] # "cancelled"
  BY DEF Init
<1>5. \A e \in Thread : Todo(thr[e]) = {} /\ \A k \in Issue : ~Awaits(thr[e], k)
  BY <1>1, <1>2 DEF Todo, Lists, Awaits
<1>6. Founded /\ Covered /\ Downward
  BY <1>1, <1>2, <1>3, <1>4, <1>5 DEF Founded, Covered, Downward, Cancels, TreeKinds
<1> QED
  BY <1>3, <1>6 DEF TreeInv, Reaching

\* Every step preserves TreeInv.
LEMMA TreeNext == TreeInv /\ [Next]_vars => TreeInv'
<1> SUFFICES ASSUME TreeInv, [Next]_vars PROVE TreeInv'
  OBVIOUS
<1>1. CASE UNCHANGED vars
  <2>1. Harmless /\ thr' = thr
    BY <1>1, StoreStays DEF vars, history
  <2> QED
    BY <2>1, NoHandlerStep
<1>2. ASSUME NEW d \in Thread, Step(d) PROVE TreeInv'
  BY <1>2, SyncReadStep, SyncRaiseStep, SyncEnterStep, SettledStep, ListStep, CascadeNextStep,
     CascadeKillStep, DependStep, LaunchStep, WaitStep, MoveParentStep, ReopenStep, ReviewStep,
     CloseStep, RemedyStep DEF Step
<1>3. ASSUME NEW d \in Thread, NEW i \in Issue, Accept(d, i) \/ ReviewBegin(d, i) \/ ReopenCheck(d, i)
      PROVE  TreeInv'
  BY <1>3, AcceptStep, ReviewBeginStep, ReopenCheckStep
<1>4. ASSUME NEW d \in Thread, NEW i \in Issue, NEW to \in Terminal, ByHand(d, i, to)
      PROVE  TreeInv'
  <2>1. CASE to = "cancelled"
    BY <1>4, <2>1, CancelStep
  <2>2. CASE to = "done"
    <3>1. thr[d].task = "none" /\ statusOf[i] \in Status
      BY <1>4 DEF ByHand, At, TreeInv, TreeKinds, InHand
    <3>2. statusOf[i] # "cancelled"
      BY <1>4, <2>2, <3>1, MovesOfAStatus DEF ByHand, Status
    <3> QED
      BY <1>4, <2>2, <3>1, <3>2, DoneStep DEF ByHand, TreeInv, TreeKinds, Cancels, history
  <2> QED
    BY <2>1, <2>2 DEF Terminal
<1> QED
  BY <1>1, <1>2, <1>3, <1>4, SweepStep, AnswerStep, DispatchByHandStep, TakeBackStep, SealStep,
     CrashStep DEF Next

\* The inductive invariant of BoardTree: threads keep to their places; what is about to be started by
\* dispatch_subissue_auto has its dependencies done, or had them done at the gates and one was taken
\* back since; and as long as nothing strikes, every open issue that hangs on a cancelled one is going
\* to be cancelled by some thread, along with what hangs on it in turn.
THEOREM TreeInvariance == Spec => []TreeInv
<1>1. TreeInv /\ [Next]_vars => TreeInv'
  BY TreeNext
<1> QED
  BY <1>1, TreeInit, PTL DEF Spec

\* When all threads are at rest, nothing that hangs on a cancelled issue is open
\* (cascade_cancel_dependents), for every finite forest of issues and all dependencies, unless a crash,
\* a reopening, a remediation or an issue that was done first has crossed the cascade.
THEOREM CancelReachesEverything == Spec => []CancelReachesAll
<1>1. TreeInv => CancelReachesAll
  <2> SUFFICES ASSUME TreeInv, ~struck, \A d \in Thread : At(d, "idle"),
                      NEW i \in exists, NEW j \in exists, statusOf[i] = "cancelled",
                       Parent[j] = i \/ i \in Deps[j]
               PROVE  statusOf[j] \in Terminal
    BY DEF CancelReachesAll
  <2>1. j \in Downstream(i) /\ i \in Issue
    BY DEF Downstream, Children, Dependents, TreeInv, TreeKinds
  <2>2. \A d \in Thread : ~Awaits(thr[d], i) /\ Todo(thr[d]) = {}
    BY DEF At, TreeInv, TreeKinds, InHand, Awaits, Todo, Lists
  <2> QED
    BY <2>1, <2>2 DEF TreeInv, Reaching, Covered
<1> QED
  BY <1>1, TreeInvariance, PTL

\* Unless somebody starts it by hand, no worker starts on an issue before everything that it depends on
\* is done, however late dispatch_issue_core follows the gates of dispatch_subissue_auto; only a
\* dependency that a rollback takes back in between is missed.
THEOREM DependenciesComeFirst == Spec => StartsAfterDependencies
<1> DEFINE Starts ==
        \A i \in Issue : ~row[i] /\ row'[i] /\ hand' = hand =>
            \E d \in Thread : /\ At(d, "launch") /\ thr[d].cur = i
                              /\ thr[d].undone \/ \A j \in Deps[i] : statusOf[j] = "done"
           Counted == hand \in Nat
<1>1. Counted /\ TreeInv /\ [Next]_vars => [Starts]_vars
  <2> SUFFICES ASSUME Counted, TreeInv, Next, NEW i \in Issue, ~row[i], row'[i], hand' = hand
               PROVE  \E d \in Thread : /\ At(d, "launch") /\ thr[d].cur = i
                                        /\ thr[d].undone \/ \A j \in Deps[i] : statusOf[j] = "done"
    OBVIOUS
  <2>1. row \in [Issue -> BOOLEAN]
    BY DEF TreeInv, TreeKinds
  <2>2. ASSUME NEW d \in Thread, Launch(d)
        PROVE  At(d, "launch") /\ thr[d].cur = i /\ (thr[d].undone \/ \A j \in Deps[i] : statusOf[j] = "done")
    <3>1. thr[d].cur = i /\ At(d, "launch")
      BY <2>1, <2>2 DEF Launch, Start
    <3>2. Gated(thr[d])
      BY DEF TreeInv, TreeKinds
    <3> QED
      BY <3>1, <3>2 DEF Gated, At
  <2>3. ASSUME NEW d \in Thread, Step(d) PROVE Launch(d)
    BY <2>1, <2>3 DEF Step, SyncRead, SyncRaise, SyncEnter, Settled, CascadeNext, CascadeKill,
       Depend, Refuse, Wait, MoveParent, Reopen, Relevant, Stale, ReviewError, Pass, Close, Remedy,
       RemedyRecord, Escalate, store
  <2>4. ASSUME NEW d \in Thread,
               \/ Sweep(d)
               \/ \E k \in Issue : \/ Accept(d, k) \/ ReviewBegin(d, k) \/ ReopenCheck(d, k)
                                   \/ \E to \in Terminal : ByHand(d, k, to)
        PROVE  FALSE
    BY <2>1, <2>4 DEF Sweep, Accept, ReviewBegin, ReopenCheck, ByHand, store
  <2>5. ASSUME NEW k \in Issue, Answer(k) \/ DispatchByHand(k) \/ TakeBack(k) PROVE FALSE
    BY <2>1, <2>5 DEF Answer, DispatchByHand, TakeBack
  <2>6. ~(Seal \/ Unseal \/ Probe \/ Crash)
    BY <2>1 DEF Seal, Unseal, Probe, Crash, store
  <2> QED
    BY <2>2, <2>3, <2>4, <2>5, <2>6 DEF Next
<1>2. Counted /\ [Next]_vars => Counted'
  <2> SUFFICES ASSUME Counted, [Next]_vars PROVE hand' = hand \/ hand' = hand + 1
    OBVIOUS
  <2>1. ASSUME NEW d \in Thread, Step(d) PROVE hand' = hand \/ hand' = hand + 1
    BY <2>1 DEF Step, SyncRead, SyncRaise, SyncEnter, Settled, CascadeNext, CascadeKill, Depend,
       Launch, Refuse, Wait, MoveParent, Reopen, Relevant, Stale, ReviewError, Pass, Close, Remedy,
       RemedyRecord, Escalate
  <2>2. ASSUME NEW d \in Thread,
               \/ Sweep(d)
               \/ \E k \in Issue : \/ Accept(d, k) \/ ReviewBegin(d, k) \/ ReopenCheck(d, k)
                                   \/ \E to \in Terminal : ByHand(d, k, to)
        PROVE  hand' = hand \/ hand' = hand + 1
    BY <2>2 DEF Sweep, Accept, ReviewBegin, ReopenCheck, ByHand
  <2>3. ASSUME NEW k \in Issue, Answer(k) \/ DispatchByHand(k) \/ TakeBack(k)
        PROVE  hand' = hand \/ hand' = hand + 1
    BY <2>3 DEF Answer, DispatchByHand, TakeBack
  <2>4. ASSUME Seal \/ Unseal \/ Probe \/ Crash \/ UNCHANGED vars
        PROVE  hand' = hand \/ hand' = hand + 1
    BY <2>4 DEF Seal, Unseal, Probe, Crash, vars
  <2> QED
    BY <2>1, <2>2, <2>3, <2>4 DEF Next
<1>3. Init => Counted
  BY DEF Init
<1> QED
  BY <1>1, <1>2, <1>3, TreeInvariance, PTL DEF Spec, StartsAfterDependencies

-------------------------------------------------------------------------------
(* BoardReview.  Only the ledger itself carries OneActive: what the handlers believe about status *)
(* and rows does not appear in the invariant.                                                      *)

\* The ledger: its rows, at most one of them active, and the count of shocks.
LedgerInv ==
    /\ rows \in Seq(Review!RowState)
    /\ shocks \in Nat
    /\ Review!OneActive

\* The steps of a thread that runs dispatch_issue_core, a sweep, a rebalance or a cancellation
ThreadNext(d) ==
    \/ Review!Dispatch(d) \/ Review!SweepPark(d) \/ Review!SweepPool(d) \/ Review!Rebalance(d)
    \/ Review!Cancel(d) \/ Review!HandlerStep(d)

\* The steps about row r: its sender, its worker, its end
RowNext(r) ==
    \/ Review!Deliver(r) \/ Review!SendStep(r) \/ Review!Started(r) \/ Review!EndStep(r)
    \/ \E outcome \in {"done", "failed"} : Review!WriteBack(r, outcome)

-------------------------------------------------------------------------------
\* finish_dispatch, cancel_dispatch and fail_dispatch leave the other rows alone.
LEMMA EndKeepsLedger ==
    ASSUME rows \in Seq(Review!RowState), Review!OneActive, NEW r,
           NEW state \in {"done", "failed", "cancelled"},
           Review!End(r, state)
    PROVE  rows' \in Seq(Review!RowState) /\ Review!OneActive'
<1>1. CASE ~Review!Active(r)
  BY <1>1 DEF Review!End, Review!OneActive, Review!Active
<1>2. CASE Review!Active(r)
  <2>1. rows' = [rows EXCEPT ![r] = state]
    BY <1>2 DEF Review!End
  <2>2. state \in Review!RowState /\ state \notin {"dispatched", "running"}
    BY DEF Review!RowState
  <2>3. rows' \in Seq(Review!RowState) /\ Len(rows') = Len(rows) /\ DOMAIN rows' = DOMAIN rows
    <3>1. CASE r \in DOMAIN rows
      BY <2>1, <2>2, <3>1
    <3>2. CASE r \notin DOMAIN rows
      <4>1. rows = [i \in 1..Len(rows) |-> rows[i]] /\ DOMAIN rows = 1..Len(rows)
        OBVIOUS
      <4>2. rows' = rows
        BY <2>1, <3>2, <4>1
      <4>. QED
        BY <4>2
    <3>. QED
      BY <3>1, <3>2
  <2>4. ASSUME NEW q \in DOMAIN rows', Review!Active(q)'
        PROVE  q = Len(rows')
    BY <2>1, <2>2, <2>3, <2>4 DEF Review!OneActive, Review!Active
  <2>. QED
    BY <2>3, <2>4 DEF Review!OneActive
<1>. QED
  BY <1>1, <1>2

\* try_claim_dispatch: a row is added only where none is active.
LEMMA ClaimKeepsLedger ==
    ASSUME rows \in Seq(Review!RowState), ~Review!HasActive, rows' = Append(rows, "dispatched")
    PROVE  rows' \in Seq(Review!RowState) /\ Review!OneActive'
<1>1. rows' \in Seq(Review!RowState) /\ Len(rows') = Len(rows) + 1
  BY DEF Review!RowState
<1>2. ASSUME NEW q \in DOMAIN rows', Review!Active(q)'
      PROVE  q = Len(rows')
  BY <1>1, <1>2 DEF Review!HasActive, Review!Active
<1>. QED
  BY <1>1, <1>2 DEF Review!OneActive

\* The worker's start keeps the row active.
LEMMA StartKeepsLedger ==
    ASSUME rows \in Seq(Review!RowState), Review!OneActive, NEW r, Review!Started(r)
    PROVE  rows' \in Seq(Review!RowState) /\ Review!OneActive'
<1>1. rows' = [rows EXCEPT ![r] = "running"] /\ r \in DOMAIN rows /\ Review!Active(r)
  BY DEF Review!Started, Review!Active
<1>2. rows' \in Seq(Review!RowState) /\ Len(rows') = Len(rows) /\ DOMAIN rows' = DOMAIN rows
  BY <1>1 DEF Review!RowState
<1>3. ASSUME NEW q \in DOMAIN rows', Review!Active(q)'
      PROVE  q = Len(rows')
  BY <1>1, <1>2, <1>3 DEF Review!OneActive, Review!Active
<1>. QED
  BY <1>2, <1>3 DEF Review!OneActive

\* Rows that do not change keep the ledger.
LEMMA SameRows ==
    ASSUME rows \in Seq(Review!RowState), Review!OneActive, UNCHANGED rows
    PROVE  rows' \in Seq(Review!RowState) /\ Review!OneActive'
  BY DEF Review!OneActive, Review!Active

-------------------------------------------------------------------------------
\* The steps of the threads keep the ledger.
LEMMA ThreadKeepsLedger ==
    ASSUME LedgerInv, NEW d \in Thread, ThreadNext(d)
    PROVE  LedgerInv'
<1>. USE DEF LedgerInv
<1>1. CASE Review!Dispatch(d) \/ Review!Cancel(d)
  BY <1>1, SameRows DEF Review!Dispatch, Review!Cancel, Review!store
<1>2. CASE Review!SweepPark(d) \/ Review!SweepPool(d) \/ Review!Rebalance(d)
  BY <1>2, SameRows DEF Review!SweepPark, Review!SweepPool, Review!Rebalance, Review!store,
     Review!bounds
<1>3. CASE Review!Gate(d) \/ Review!Refuse(d) \/ Review!RebalanceFails(d) \/ Review!Close(d)
  BY <1>3, SameRows DEF Review!Gate, Review!Refuse, Review!RebalanceFails, Review!Close,
     Review!store, Review!bounds
<1>4. CASE Review!Claim(d)
  <2>1. CASE Review!HasActive
    BY <1>4, <2>1, SameRows DEF Review!Claim, Review!bounds
  <2>2. CASE ~Review!HasActive
    BY <1>4, <2>2, ClaimKeepsLedger DEF Review!Claim, Review!bounds
  <2>. QED
    BY <2>1, <2>2
<1>5. CASE Review!Advance(d)
  <2>1. CASE UNCHANGED rows
    BY <1>5, <2>1, SameRows DEF Review!Advance
  <2>2. CASE Review!End(thr[d].row, "failed")
    BY <1>5, <2>2, EndKeepsLedger DEF Review!Advance
  <2>. QED
    BY <1>5, <2>1, <2>2 DEF Review!Advance
<1>6. CASE Review!Steal(d)
  BY <1>6, EndKeepsLedger DEF Review!Steal
<1>7. CASE Review!CancelRow(d)
  BY <1>7, EndKeepsLedger DEF Review!CancelRow, Review!bounds
<1>. QED
  BY <1>1, <1>2, <1>3, <1>4, <1>5, <1>6, <1>7 DEF ThreadNext, Review!HandlerStep

\* The steps about one row keep the ledger.
LEMMA RowKeepsLedger ==
    ASSUME LedgerInv, NEW r \in Review!Row, RowNext(r)
    PROVE  LedgerInv'
<1>. USE DEF LedgerInv
<1>1. CASE \/ Review!Deliver(r) \/ Review!Acked(r) \/ Review!SendRollback(r) \/ Review!SendMark(r)
           \/ Review!Move(r)
  BY <1>1, SameRows DEF Review!Deliver, Review!Acked, Review!SendRollback, Review!SendMark,
     Review!Move, Review!store, Review!bounds
<1>2. CASE Review!SendFails(r)
  BY <1>2, EndKeepsLedger DEF Review!SendFails, Review!bounds
<1>3. CASE Review!Started(r)
  BY <1>3, StartKeepsLedger DEF Review!Started, Review!bounds
<1>4. CASE Review!Timeout(r)
  BY <1>4, EndKeepsLedger DEF Review!Timeout, Review!bounds
<1>5. ASSUME NEW outcome \in {"done", "failed"}, Review!WriteBack(r, outcome)
      PROVE  LedgerInv'
  BY <1>5, EndKeepsLedger DEF Review!WriteBack, Review!bounds
<1>. QED
  BY <1>1, <1>2, <1>3, <1>4, <1>5 DEF RowNext, Review!SendStep, Review!EndStep

\* The steps of a review, of a person and of the gateway do not touch the rows.
LEMMA OthersKeepLedger ==
    ASSUME LedgerInv,
           \/ \E d \in Thread : Review!ReviewStep(d)
           \/ \E to \in Review!Status : Review!Human(to)
           \/ Review!TakeBack \/ Review!Crash \/ Review!Engage \/ Review!Release
           \/ Review!Seal \/ Review!Unseal \/ Review!Probe
    PROVE  LedgerInv'
<1>. USE DEF LedgerInv
<1>1. UNCHANGED rows /\ (UNCHANGED shocks \/ shocks' = shocks + 1)
  <2>1. ASSUME NEW d \in Thread, Review!ReviewStep(d)
        PROVE  UNCHANGED rows /\ (UNCHANGED shocks \/ shocks' = shocks + 1)
    BY <2>1 DEF Review!ReviewStep, Review!ReviewBegin, Review!Suspend, Review!ReviewStale,
       Review!VerdictPass, Review!VerdictFail, Review!ReviewError, Review!Accept, Review!Record,
       Review!Redispatch, Review!ReviewReturns, Review!Answered, Review!Unanswered, Review!store,
       Review!tasks, Review!bounds
  <2> QED
    BY <2>1 DEF Review!Human, Review!TakeBack, Review!Crash, Review!Engage, Review!Release, Review!Seal,
       Review!Unseal, Review!Probe, Review!Answered, Review!store, Review!tasks, Review!bounds
<1>. QED
  BY <1>1, SameRows

\* In every reachable state the ledger is in order.
THEOREM Ledger == Review!Spec => []LedgerInv
<1>1. Review!Init => LedgerInv
  BY DEF Review!Init, Review!DispatchInit, LedgerInv, Review!OneActive, Review!RowState
<1>2. LedgerInv /\ [Review!Next]_(Review!vars) => LedgerInv'
  <2>. SUFFICES ASSUME LedgerInv, [Review!Next]_(Review!vars)
                PROVE  LedgerInv'
    OBVIOUS
  <2>1. CASE Review!DispatchNext
    BY <2>1, ThreadKeepsLedger, RowKeepsLedger, OthersKeepLedger DEF Review!DispatchNext,
       ThreadNext, RowNext
  <2>2. CASE \/ Review!Crash \/ Review!Engage \/ Review!Release \/ Review!Seal \/ Review!Unseal
             \/ Review!Probe \/ \E d \in Thread : Review!ReviewStep(d)
    BY <2>2, OthersKeepLedger
  <2>3. CASE UNCHANGED Review!vars
    BY <2>3, SameRows DEF LedgerInv, Review!vars, Review!dispatchVars, Review!store, Review!bounds
  <2>. QED
    BY <2>1, <2>2, <2>3 DEF Review!Next
<1>. QED
  BY <1>1, <1>2, PTL DEF Review!Spec

\* An issue never has two active dispatches, and the active one is the last: whatever the handlers
\* read before, try_claim_dispatch decides.
THEOREM OneActiveDispatch == Review!Spec => []OneActive
<1>1. LedgerInv => OneActive
  BY DEF LedgerInv, OneActive, Active, Review!OneActive, Review!Active
<1>. QED
  BY <1>1, Ledger, PTL

-------------------------------------------------------------------------------
\* can_transition: nothing follows done, and only backlog follows cancelled.
LEMMA ClosedTransitions ==
    /\ \A to : ~Review!CanTransition("done", to)
    /\ \A to : Review!CanTransition("cancelled", to) => to = "backlog"
  BY DEF Review!CanTransition

\* A closed issue stays closed, but for a person who reopens it and for a rollback.
Stays ==
    /\ status = "done" /\ status' # "done" => status' = "in_review" /\ rows' = rows /\ shocks' # shocks
    /\ status = "cancelled" /\ status' # "cancelled" => status' = "backlog" /\ shocks' # shocks

\* No thread reopens a closed issue.
LEMMA ThreadReopensNothing ==
    ASSUME NEW d \in Thread, ThreadNext(d)
    PROVE  Stays
<1>1. CASE Review!Advance(d)
  BY <1>1, ClosedTransitions DEF Review!Advance, Stays
<1>2. CASE Review!Close(d)
  BY <1>2, ClosedTransitions DEF Review!Close, Stays
<1>3. CASE ~Review!Advance(d) /\ ~Review!Close(d)
  <2>1. UNCHANGED status
    BY <1>3 DEF ThreadNext, Review!HandlerStep, Review!Dispatch, Review!Cancel, Review!SweepPark,
       Review!SweepPool, Review!Rebalance, Review!Gate, Review!Refuse,
                Review!RebalanceFails, Review!Claim, Review!Steal, Review!CancelRow, Review!store
  <2>. QED
    BY <2>1 DEF Stays
<1>. QED
  BY <1>1, <1>2, <1>3

\* A failed send rolls back only an issue in progress, a delivery moves only such an issue.
LEMMA RowReopensNothing ==
    ASSUME NEW r \in Review!Row, RowNext(r)
    PROVE  Stays
<1>1. CASE Review!SendRollback(r)
  BY <1>1 DEF Review!SendRollback, Review!Rollback, Stays
<1>2. CASE Review!Move(r)
  BY <1>2 DEF Review!Move, Stays
<1>3. CASE ~Review!SendRollback(r) /\ ~Review!Move(r)
  <2>1. UNCHANGED status
    BY <1>3 DEF RowNext, Review!SendStep, Review!EndStep, Review!Deliver, Review!Acked,
       Review!SendFails, Review!SendMark, Review!Started, Review!Timeout, Review!WriteBack,
       Review!store
  <2>. QED
    BY <2>1 DEF Stays
<1>. QED
  BY <1>1, <1>2, <1>3

\* A late verdict does not reopen the issue; a person may, and a rollback reviews it again.
LEMMA OthersReopenNothing ==
    ASSUME LedgerInv,
           \/ \E d \in Thread : Review!ReviewStep(d)
           \/ \E to \in Review!Status : Review!Human(to)
           \/ Review!TakeBack \/ Review!Crash \/ Review!Engage \/ Review!Release
           \/ Review!Seal \/ Review!Unseal \/ Review!Probe
    PROVE  Stays
<1>1. ASSUME NEW d \in Thread, Review!Accept(d)
      PROVE  Stays
  BY <1>1, ClosedTransitions DEF Review!Accept, Stays
<1>2. ASSUME NEW to \in Review!Status, Review!Human(to)
      PROVE  Stays
  BY <1>2, ClosedTransitions DEF Review!Human, Stays, LedgerInv
<1>3. ASSUME NEW d \in Thread, Review!ReviewStep(d), ~Review!Accept(d)
      PROVE  Stays
  <2>1. UNCHANGED status
    BY <1>3 DEF Review!ReviewStep, Review!ReviewBegin, Review!ReviewStale, Review!VerdictPass,
       Review!VerdictFail, Review!ReviewError, Review!Suspend, Review!Record, Review!Redispatch,
       Review!ReviewReturns, Review!store
  <2>. QED
    BY <2>1 DEF Stays
<1>4. CASE \/ Review!Crash \/ Review!Engage \/ Review!Release \/ Review!Seal \/ Review!Unseal
           \/ Review!Probe
  BY <1>4 DEF Review!Crash, Review!Engage, Review!Release, Review!Seal, Review!Unseal, Review!Probe,
     Review!store, Stays
<1>5. CASE Review!TakeBack
  BY <1>5 DEF Review!TakeBack, Stays, LedgerInv
<1>. QED
  BY <1>1, <1>2, <1>3, <1>4, <1>5

\* No late send failure, delivery, time-out or verdict brings a closed issue back: a cancelled one goes
\* to backlog when somebody reopens it, and one that is done goes back to in_review, without a dispatch,
\* only by a rollback (audit.rollback, note_overlimit).
THEOREM ClosedIssuesStayClosed == Review!Spec => ClosedStaysClosed
<1>1. LedgerInv /\ [Review!Next]_(Review!vars) => [Stays]_<<status, rows, shocks>>
  <2>. SUFFICES ASSUME LedgerInv, Review!Next
                PROVE  Stays
    BY DEF Stays, Review!vars, Review!dispatchVars, Review!store, Review!bounds
  <2>1. CASE Review!DispatchNext
    BY <2>1, ThreadReopensNothing, RowReopensNothing, OthersReopenNothing DEF Review!DispatchNext,
       ThreadNext, RowNext
  <2>2. CASE \/ Review!Crash \/ Review!Engage \/ Review!Release \/ Review!Seal \/ Review!Unseal
             \/ Review!Probe \/ \E d \in Thread : Review!ReviewStep(d)
    BY <2>2, OthersReopenNothing
  <2>. QED
    BY <2>1, <2>2 DEF Review!Next
<1>. QED
  BY <1>1, Ledger, PTL DEF Review!Spec, ClosedStaysClosed, Stays

-------------------------------------------------------------------------------
(* BoardMerge.  RepositoryIsRight is not inductive: it does not say what threads, queue and        *)
(* resolver will still write.  MergeInv adds that whoever is past Check works on a settled         *)
(* delivery, that the entries of the queue are such, that baselines and the sides the resolver     *)
(* holds are as clean as the repository, and that what is about to be reported is merged.          *)

DispatchState == {"none", "active", "done", "failed", "cancelled"}
CargoState    == {"none", "files", "empty", "void"}
Tree          == [File -> SUBSET Merge!Author]
Pc            == {"idle", "check", "take", "note", "gate", "defer", "merge", "finish", "settle",
                  "park", "next", "pop"}
Kind          == {"none", "write", "land", "retry", "watch", "resume"}
ThreadRec     == [pc : Pc, task : Task \cup {"none"}, kind : Kind, todo : SUBSET Task]

\* What is asked of the constants
MergeConstants ==
    /\ Edits \in [Task -> SUBSET File]
    /\ Cargo \in [Task -> SUBSET {"files", "empty", "void"}]
    /\ {"hand", "none"} \cap Task = {}

Types ==
    /\ MergeConstants
    /\ repo \in Tree /\ dirty \subseteq File /\ edited \subseteq File
    /\ base \in [Task -> Tree]
    /\ dispatch \in [Task -> DispatchState] /\ cargo \in [Task -> CargoState]
    /\ placed \subseteq Task /\ pending \in Seq(Task)
    /\ thr \in [Thread -> ThreadRec]
    /\ DOMAIN resolver = Task

\* A settled delivery with a change-set that may be merged
Good(t) == dispatch[t] = "done" /\ cargo[t] = "files"

\* Only such deliveries are in the files of a tree.
Clean(tree) == \A f \in DOMAIN tree : \A t \in tree[f] \cap Task : Good(t)

\* The changes of t are in the repository, or a commit of the resolver has left them out.
Holds(t) == \A f \in Edits[t] : t \in repo[f] \/ <<t, f>> \in given \cup overrun

\* The steps of merge_and_maybe_review behind Check
Past == {"take", "note", "gate", "defer", "merge", "finish", "settle", "park"}

TreesOK == Clean(repo) /\ \A t \in Task : Clean(base[t])

\* What thread w is working on
ThreadOK(w) ==
    /\ thr[w].pc \in Past \cup {"check"} => thr[w].task \in Task
    /\ thr[w].pc \in Past => dispatch[thr[w].task] = "done"
    /\ thr[w].pc = "finish" =>
          /\ cargo[thr[w].task] \in {"files", "empty"}
          /\ cargo[thr[w].task] = "files" => Holds(thr[w].task)

QueueOK == \A i \in DOMAIN pending : dispatch[pending[i]] = "done"

\* What the resolver of t holds
ResolverOK(t) ==
    /\ resolver[t].at = "solve" =>
          /\ Good(t)
          /\ DOMAIN resolver[t].ours \subseteq File
          /\ \A f \in DOMAIN resolver[t].ours : resolver[t].ours[f] \subseteq Merge!Author
          /\ Clean(resolver[t].ours)
    /\ resolver[t].at = "finish" => Good(t) /\ Holds(t)

ReportedOK ==
    \A t \in reported :
        /\ t \in Task /\ cargo[t] \in {"files", "empty"}
        /\ cargo[t] = "files" => Holds(t)

HandOK == \A f \in edited : "hand" \in Merge!Tip[f] \/ <<"hand", f>> \in given \cup overrun

MergeInv ==
    /\ Types
    /\ TreesOK
    /\ \A w \in Thread : ThreadOK(w)
    /\ QueueOK
    /\ \A t \in Task : ResolverOK(t)
    /\ ReportedOK
    /\ HandOK

-------------------------------------------------------------------------------
\* MergeInv implies RepositoryIsRight.
LEMMA InvImpliesRight == MergeInv => RepositoryIsRight
  BY DEF MergeInv, Types, Tree, TreesOK, Clean, Good, ReportedOK, Holds, HandOK, RepositoryIsRight,
     Tip,
     Merge!Tip

\* The constants are as asked.
LEMMA AskedOfConstants == MergeInv => MergeConstants
  BY DEF MergeInv, Types

\* A thread that does nothing is one.
LEMMA IdleIsTyped == Merge!Idle \in ThreadRec
  BY DEF Merge!Idle, ThreadRec, Pc, Kind

\* Init establishes MergeInv.
LEMMA InitHolds == Merge!Init => MergeInv
<1>. SUFFICES ASSUME Merge!Init PROVE MergeInv
  OBVIOUS
<1>0. MergeConstants
  BY EditsAssumption, CargoAssumption, NameAssumption DEF MergeConstants
<1>. USE DEF Merge!Init
<1>1. Types
  <2>1. repo \in Tree
    BY DEF Tree
  <2>2. base \in [Task -> Tree]
    BY <2>1
  <2>3. dispatch \in [Task -> DispatchState] /\ cargo \in [Task -> CargoState]
    BY DEF DispatchState, CargoState
  <2>4. thr \in [Thread -> ThreadRec]
    BY IdleIsTyped
  <2>5. pending \in Seq(Task) /\ DOMAIN resolver = Task
    OBVIOUS
  <2>. QED
    BY <1>0, <2>1, <2>2, <2>3, <2>4, <2>5 DEF Types
<1>2. TreesOK
  BY DEF TreesOK, Clean
<1>3. ASSUME NEW w \in Thread PROVE ThreadOK(w)
  BY <1>3 DEF ThreadOK, Past, Merge!Idle
<1>4. QueueOK /\ ReportedOK /\ HandOK
  BY DEF QueueOK, ReportedOK, HandOK
<1>5. ASSUME NEW t \in Task PROVE ResolverOK(t)
  BY <1>5 DEF ResolverOK, Merge!NoResolver
<1>. QED
  BY <1>1, <1>2, <1>3, <1>4, <1>5 DEF MergeInv

-------------------------------------------------------------------------------
(* What every step keeps *)

\* What is fixed once a delivery is settled and its record has landed
Stable ==
    /\ \A t \in Task : dispatch[t] = "done" => dispatch'[t] = "done"
    /\ \A t \in Task : cargo[t] # "none" => cargo'[t] = cargo[t]

\* What was merged stays, or a commit of the resolver tells what it left out.
Keeps == \A t \in Task : Holds(t) => Holds(t)'

\* A settled delivery stays one, and a clean tree stays clean.
LEMMA StableIsGood ==
    ASSUME Stable
    PROVE  /\ \A t \in Task : Good(t) => Good(t)'
           /\ \A tree : Clean(tree) => Clean(tree)'
  BY DEF Stable, Clean, Good

\* A step that leaves the repository alone keeps what holds of it.
LEMMA SameTrees ==
    ASSUME MergeInv, Stable, UNCHANGED <<repo, dirty, edited, base, given, overrun>>
    PROVE  TreesOK' /\ HandOK' /\ Keeps
<1>1. TreesOK'
  BY StableIsGood DEF MergeInv, TreesOK, Clean, Good, Stable
<1>2. HandOK' /\ Keeps
  BY DEF MergeInv, HandOK, Merge!Tip, Keeps, Holds
<1>. QED
  BY <1>1, <1>2

\* What a step has to show: whatever it has changed is right again.
LEMMA Frame ==
    ASSUME MergeInv, Types', Stable, Keeps, TreesOK', HandOK',
           \A v \in Thread : thr'[v] = thr[v] \/ ThreadOK(v)',
           \A t \in Task : resolver'[t] = resolver[t] \/ ResolverOK(t)',
           pending' = pending \/ QueueOK',
           \A t \in reported' \ reported :
              t \in Task /\ cargo'[t] \in {"files", "empty"} /\ (cargo'[t] = "files" => Holds(t)')
    PROVE  MergeInv'
<1>1. ASSUME NEW v \in Thread PROVE ThreadOK(v)'
  <2>1. CASE thr'[v] = thr[v]
    <3>1. ThreadOK(v)
      BY DEF MergeInv
    <3>. QED
      BY <2>1, <3>1 DEF ThreadOK, Past, Stable, Keeps
  <2>. QED
    BY <2>1
<1>2. ASSUME NEW t \in Task PROVE ResolverOK(t)'
  <2>1. CASE resolver'[t] = resolver[t]
    <3>1. ResolverOK(t)
      BY DEF MergeInv
    <3>. QED
      BY <2>1, <3>1, StableIsGood DEF ResolverOK, Keeps
  <2>. QED
    BY <2>1
<1>3. QueueOK'
  <2>1. CASE pending' = pending
    BY <2>1 DEF MergeInv, Types, QueueOK, Stable
  <2>. QED
    BY <2>1
<1>4. ReportedOK'
  BY DEF MergeInv, ReportedOK, Stable, Keeps
<1>. QED
  BY <1>1, <1>2, <1>3, <1>4 DEF MergeInv

-------------------------------------------------------------------------------
(* What a step does to its thread *)

\* The thread moves on with its task.
LEMMA Goes ==
    ASSUME Types, NEW w \in Thread, NEW pc \in Pc, Merge!Goto(w, pc)
    PROVE  /\ thr' \in [Thread -> ThreadRec]
           /\ \A v \in Thread : v # w => thr'[v] = thr[v]
           /\ thr'[w].pc = pc /\ thr'[w].task = thr[w].task
<1>1. thr \in [Thread -> ThreadRec] /\ thr[w] \in ThreadRec /\ thr' = [thr EXCEPT ![w].pc = pc]
  BY DEF Types, Merge!Goto
<1>2. thr'[w] = [thr[w] EXCEPT !.pc = pc]
  BY <1>1
<1>3. thr'[w] \in ThreadRec /\ thr'[w].pc = pc /\ thr'[w].task = thr[w].task
  BY <1>1, <1>2 DEF ThreadRec
<1>. QED
  BY <1>1, <1>3

\* The thread takes up task t.
LEMMA Begins ==
    ASSUME Types, NEW w \in Thread, NEW pc \in Pc, NEW kind \in Kind,
           NEW t \in Task \cup {"none"}, Merge!Begin(w, pc, t, kind)
    PROVE  /\ thr' \in [Thread -> ThreadRec]
           /\ \A v \in Thread : v # w => thr'[v] = thr[v]
           /\ thr'[w].pc = pc /\ thr'[w].task = t
  BY IdleIsTyped DEF Types, ThreadRec, Merge!Begin, Merge!Idle

\* The thread has nothing to do any more with its task.
LEMMA Returns ==
    ASSUME Types, NEW w \in Thread, Merge!Return(w)
    PROVE  /\ thr' \in [Thread -> ThreadRec]
           /\ \A v \in Thread : v # w => thr'[v] = thr[v]
           /\ ThreadOK(w)'
<1>. DEFINE new == CASE thr[w].kind = "watch"  -> [thr[w] EXCEPT !.pc = "next"]
                     [] thr[w].kind = "resume" -> [thr[w] EXCEPT !.pc = "pop"]
                     [] OTHER                  -> Merge!Idle
<1>1. thr' = [thr EXCEPT ![w] = new]
  BY DEF Merge!Return
<1>2. new \in ThreadRec /\ new.pc \in {"next", "pop", "idle"}
  <2>1. thr[w] \in ThreadRec
    BY DEF Types
  <2>2. CASE thr[w].kind = "watch"
    BY <2>1, <2>2 DEF ThreadRec, Pc
  <2>3. CASE thr[w].kind = "resume"
    BY <2>1, <2>3 DEF ThreadRec, Pc
  <2>4. CASE thr[w].kind \notin {"watch", "resume"}
    <3>1. new = Merge!Idle
      BY <2>4
    <3>. QED
      BY <3>1, IdleIsTyped DEF Merge!Idle
  <2>. QED
    BY <2>2, <2>3, <2>4
<1>. HIDE DEF new
<1>3. /\ thr' \in [Thread -> ThreadRec]
      /\ \A v \in Thread : v # w => thr'[v] = thr[v]
      /\ thr'[w].pc \in {"next", "pop", "idle"}
  BY <1>1, <1>2 DEF Types
<1>. QED
  BY <1>3 DEF ThreadOK, Past

\* A step of a thread that only changes queues, marks and what the thread does
LEMMA ThreadOnly ==
    ASSUME MergeInv, NEW w \in Thread,
           UNCHANGED <<repo, dirty, edited, base, given, overrun, dispatch, cargo, resolver, reported>>,
           placed' \subseteq Task,
           pending' \in Seq(Task),
           pending' = pending \/ QueueOK',
           thr' \in [Thread -> ThreadRec],
           \A v \in Thread : v # w => thr'[v] = thr[v],
           ThreadOK(w)'
    PROVE  MergeInv'
<1>1. Stable
  BY DEF Stable
<1>2. TreesOK' /\ HandOK' /\ Keeps
  BY <1>1, SameTrees
<1>3. Types'
  BY DEF MergeInv, Types
<1>. QED
  BY <1>1, <1>2, <1>3, Frame

-------------------------------------------------------------------------------
(* The steps of a thread that leave the repository alone *)

\* Check, Take, Note and Gate preserve the invariant: only a settled delivery gets past Check.
LEMMA EntryStep ==
    ASSUME MergeInv, NEW w \in Thread, Merge!Check(w) \/ Merge!Take(w) \/ Merge!Note(w) \/ Merge!Gate(w)
    PROVE  MergeInv'
<1>. DEFINE t == thr[w].task
<1>0. Types /\ ThreadOK(w)
  BY DEF MergeInv
<1>1. CASE Merge!Check(w)
  <2>1. UNCHANGED <<repo, dirty, edited, base, given, overrun, dispatch, cargo, resolver, reported, pending>>
    BY <1>1 DEF Merge!Check, Merge!disk
  <2>2. placed' \subseteq Task /\ pending' \in Seq(Task)
    BY <1>0, <1>1, <2>1 DEF Merge!Check, Types
  <2>3. CASE dispatch[t] = "done" /\ Merge!Goto(w, "take")
    <3>1. /\ thr' \in [Thread -> ThreadRec]
          /\ \A v \in Thread : v # w => thr'[v] = thr[v]
          /\ thr'[w].pc = "take" /\ thr'[w].task = t
      BY <1>0, <2>3, Goes DEF Pc
    <3>2. ThreadOK(w)'
      BY <1>0, <1>1, <2>1, <2>3, <3>1 DEF ThreadOK, Past, Merge!Check, Merge!At
    <3>. QED
      BY <2>1, <2>2, <3>1, <3>2, ThreadOnly
  <2>4. CASE Merge!Return(w)
    BY <1>0, <2>1, <2>2, <2>4, Returns, ThreadOnly
  <2>. QED
    BY <1>1, <2>3, <2>4 DEF Merge!Check
<1>2. CASE Merge!Take(w)
  <2>1. UNCHANGED <<repo, dirty, edited, base, given, overrun, dispatch, cargo, resolver, reported, pending>>
    BY <1>2 DEF Merge!Take, Merge!disk, Merge!history
  <2>2. placed' \subseteq Task /\ pending' \in Seq(Task)
    BY <1>0, <1>2, <2>1 DEF Merge!Take, Types
  <2>3. ASSUME NEW pc \in {"gate", "note"}, Merge!Goto(w, pc) PROVE MergeInv'
    <3>1. /\ thr' \in [Thread -> ThreadRec]
          /\ \A v \in Thread : v # w => thr'[v] = thr[v]
          /\ thr'[w].pc = pc /\ thr'[w].task = t
      BY <1>0, <2>3, Goes DEF Pc
    <3>2. ThreadOK(w)'
      BY <1>0, <1>2, <2>1, <3>1 DEF ThreadOK, Past, Merge!Take, Merge!At
    <3>. QED
      BY <2>1, <2>2, <3>1, <3>2, ThreadOnly
  <2>4. CASE Merge!Return(w)
    BY <1>0, <2>1, <2>2, <2>4, Returns, ThreadOnly
  <2>. QED
    BY <1>2, <2>3, <2>4 DEF Merge!Take
<1>3. CASE Merge!Note(w)
  <2>1. UNCHANGED <<repo, dirty, edited, base, given, overrun, dispatch, cargo, resolver, reported,
                      pending, placed>>
    BY <1>3 DEF Merge!Note, Merge!history
  <2>2. placed' \subseteq Task /\ pending' \in Seq(Task) /\ Merge!Return(w)
    BY <1>0, <1>3, <2>1 DEF Merge!Note, Types
  <2>. QED
    BY <1>0, <2>1, <2>2, Returns, ThreadOnly
<1>4. CASE Merge!Gate(w)
  <2>1. UNCHANGED <<repo, dirty, edited, base, given, overrun, dispatch, cargo, resolver, reported,
                      pending, placed>>
    BY <1>4 DEF Merge!Gate, Merge!disk, Merge!history
  <2>2. placed' \subseteq Task /\ pending' \in Seq(Task)
    BY <1>0, <2>1 DEF Types
  <2>3. PICK pc \in {"defer", "merge"} : Merge!Goto(w, pc)
    BY <1>4 DEF Merge!Gate
  <2>4. /\ thr' \in [Thread -> ThreadRec]
        /\ \A v \in Thread : v # w => thr'[v] = thr[v]
        /\ thr'[w].pc = pc /\ thr'[w].task = t
    BY <1>0, <2>3, Goes DEF Pc
  <2>5. ThreadOK(w)'
    BY <1>0, <1>4, <2>1, <2>4 DEF ThreadOK, Past, Merge!Gate, Merge!At
  <2>. QED
    BY <2>1, <2>2, <2>4, <2>5, ThreadOnly
<1>. QED
  BY <1>1, <1>2, <1>3, <1>4

\* Defer preserves it: only settled deliveries enter the queue.
LEMMA DeferStep ==
    ASSUME MergeInv, NEW w \in Thread, Merge!Defer(w)
    PROVE  MergeInv'
<1>. DEFINE t == thr[w].task
<1>0. Types /\ ThreadOK(w) /\ QueueOK
  BY DEF MergeInv
<1>1. UNCHANGED <<repo, dirty, edited, base, given, overrun, dispatch, cargo, resolver, reported, placed>>
  BY DEF Merge!Defer
<1>2. placed' \subseteq Task /\ Merge!Return(w)
  BY <1>0, <1>1 DEF Types, Merge!Defer
<1>3. t \in Task /\ dispatch[t] = "done"
  BY <1>0 DEF ThreadOK, Past, Merge!Defer, Merge!At
<1>4. pending' \in Seq(Task) /\ (pending' = pending \/ QueueOK')
  <2>1. CASE pending' = pending
    BY <1>0, <2>1 DEF Types
  <2>2. CASE pending' = Append(pending, t)
    BY <1>0, <1>1, <1>3, <2>2 DEF Types, QueueOK
  <2>. QED
    BY <2>1, <2>2 DEF Merge!Defer
<1>. QED
  BY <1>0, <1>1, <1>2, <1>4, Returns, ThreadOnly

\* Discard, Settle and Park preserve it: they only tell somebody.
LEMMA TellStep ==
    ASSUME MergeInv, NEW w \in Thread, Merge!Discard(w) \/ Merge!Settle(w) \/ Merge!Park(w)
    PROVE  MergeInv'
<1>0. Types
  BY DEF MergeInv
<1>1. UNCHANGED <<repo, dirty, edited, base, given, overrun, dispatch, cargo, resolver, reported,
                      pending, placed>>
  BY DEF Merge!Discard, Merge!Settle, Merge!Park, Merge!history
<1>2. placed' \subseteq Task /\ pending' \in Seq(Task)
  BY <1>0, <1>1 DEF Types
<1>3. CASE Merge!Return(w)
  BY <1>0, <1>1, <1>2, <1>3, Returns, ThreadOnly
<1>4. CASE thr' = [thr EXCEPT ![w] = Merge!Idle]
  <2>1. /\ thr' \in [Thread -> ThreadRec]
        /\ \A v \in Thread : v # w => thr'[v] = thr[v]
        /\ thr'[w] = Merge!Idle
    BY <1>0, <1>4, IdleIsTyped DEF Types
  <2>2. ThreadOK(w)'
    BY <2>1 DEF ThreadOK, Past, Merge!Idle
  <2>. QED
    BY <1>1, <1>2, <2>1, <2>2, ThreadOnly
<1>. QED
  BY <1>3, <1>4 DEF Merge!Discard, Merge!Settle, Merge!Park

\* Watch, WatchNext and Retry preserve it: a task that is taken up again has to pass Check.
LEMMA AgainStep ==
    ASSUME MergeInv, NEW w \in Thread,
           Merge!Watch(w) \/ Merge!WatchNext(w) \/ \E t \in Task : Merge!Retry(w, t)
    PROVE  MergeInv'
<1>0. Types
  BY DEF MergeInv
<1>1. UNCHANGED <<repo, dirty, edited, base, given, overrun, dispatch, cargo, resolver, reported, pending>>
  BY DEF Merge!Watch, Merge!WatchNext, Merge!Retry, Merge!disk, Merge!history
<1>2. placed' \subseteq Task /\ pending' \in Seq(Task)
  BY <1>0, <1>1 DEF Types, Merge!Watch, Merge!WatchNext, Merge!Retry
<1>. DEFINE Goal == /\ thr' \in [Thread -> ThreadRec]
                    /\ \A v \in Thread : v # w => thr'[v] = thr[v]
                    /\ ThreadOK(w)'
<1>. SUFFICES Goal
  BY <1>1, <1>2, ThreadOnly
<1>3. CASE thr' = thr
  BY <1>0, <1>1, <1>3 DEF MergeInv, Types, ThreadOK, Past, Holds
<1>4. ASSUME /\ thr' \in [Thread -> ThreadRec]
             /\ \A v \in Thread : v # w => thr'[v] = thr[v]
             /\ thr'[w].pc \in {"idle", "next"} \/ (thr'[w].pc = "check" /\ thr'[w].task \in Task)
      PROVE  Goal
  BY <1>4 DEF ThreadOK, Past
<1>5. CASE Merge!Watch(w)
  <2>. DEFINE r == [Merge!Idle EXCEPT !.pc = "next", !.kind = "watch", !.todo = placed]
  <2>1. r \in ThreadRec /\ r.pc = "next"
    BY <1>0 DEF Types, ThreadRec, Merge!Idle, Pc, Kind
  <2>2. CASE thr' = [thr EXCEPT ![w] = r]
    <3>. HIDE DEF r
    <3>. QED
      BY <1>0, <1>4, <2>1, <2>2 DEF Types
  <2>. QED
    BY <1>3, <1>5, <2>2 DEF Merge!Watch
<1>6. CASE Merge!WatchNext(w)
  <2>1. CASE thr' = [thr EXCEPT ![w] = Merge!Idle]
    <3>1. Merge!Idle.pc = "idle"
      BY DEF Merge!Idle
    <3>. QED
      BY <1>0, <1>4, <2>1, <3>1, IdleIsTyped DEF Types
  <2>2. CASE thr[w].todo # {}
    <3>1. PICK t \in thr[w].todo :
             thr' = [thr EXCEPT ![w].pc = "check", ![w].task = t, ![w].todo = @ \ {t}]
      BY <1>6, <2>2 DEF Merge!WatchNext
    <3>. DEFINE r == [thr[w] EXCEPT !.pc = "check", !.task = t, !.todo = @ \ {t}]
    <3>2. thr[w] \in ThreadRec /\ t \in Task
      BY <1>0 DEF Types, ThreadRec
    <3>3. thr' = [thr EXCEPT ![w] = r]
      BY <1>0, <3>1, <3>2 DEF Types, ThreadRec
    <3>4. r \in ThreadRec /\ r.pc = "check" /\ r.task \in Task
      BY <3>2 DEF ThreadRec, Pc
    <3>. HIDE DEF r
    <3>. QED
      BY <1>0, <1>4, <3>3, <3>4 DEF Types
  <2>. QED
    BY <1>6, <2>1, <2>2 DEF Merge!WatchNext
<1>7. ASSUME NEW t \in Task, Merge!Retry(w, t) PROVE Goal
  <2>1. Merge!Begin(w, "check", t, "retry")
    BY <1>7 DEF Merge!Retry
  <2>2. /\ thr' \in [Thread -> ThreadRec]
        /\ \A v \in Thread : v # w => thr'[v] = thr[v]
        /\ thr'[w].pc = "check" /\ thr'[w].task = t
    BY <1>0, <2>1, Begins DEF Pc, Kind
  <2>. QED
    BY <1>4, <2>2
<1>. QED
  BY <1>5, <1>6, <1>7

\* Pop preserves it: what leaves the queue is a settled delivery, and so is the rest.
LEMMA PopStep ==
    ASSUME MergeInv, NEW w \in Thread, Merge!Pop(w)
    PROVE  MergeInv'
<1>0. Types /\ QueueOK
  BY DEF MergeInv
<1>1. UNCHANGED <<repo, dirty, edited, base, given, overrun, dispatch, cargo, resolver, reported, placed>>
  BY DEF Merge!Pop, Merge!history
<1>2. placed' \subseteq Task
  BY <1>0, <1>1 DEF Types
<1>3. CASE pending = <<>>
  <2>1. pending' = pending /\ thr' = [thr EXCEPT ![w] = Merge!Idle]
    BY <1>3 DEF Merge!Pop
  <2>2. pending' \in Seq(Task)
    BY <1>0, <2>1 DEF Types
  <2>3. /\ thr' \in [Thread -> ThreadRec]
        /\ \A v \in Thread : v # w => thr'[v] = thr[v]
        /\ thr'[w] = Merge!Idle
    BY <1>0, <2>1, IdleIsTyped DEF Types
  <2>4. ThreadOK(w)'
    BY <2>3 DEF ThreadOK, Past, Merge!Idle
  <2>. QED
    BY <1>1, <1>2, <2>1, <2>2, <2>3, <2>4, ThreadOnly
<1>4. CASE pending # <<>>
  <2>. DEFINE h == Head(pending)
  <2>1. pending' = Tail(pending) /\ thr' = [thr EXCEPT ![w].pc = "merge", ![w].task = h]
    BY <1>4 DEF Merge!Pop
  <2>2. h \in Task /\ dispatch[h] = "done" /\ pending' \in Seq(Task)
    BY <1>0, <1>4, <2>1 DEF Types, QueueOK
  <2>3. QueueOK'
    <3>1. ASSUME NEW i \in DOMAIN pending' PROVE i + 1 \in DOMAIN pending /\ pending'[i] = pending[i + 1]
      BY <1>0, <1>4, <2>1, <3>1 DEF Types
    <3>. QED
      BY <1>0, <1>1, <3>1 DEF QueueOK
  <2>. HIDE DEF h
  <2>4. /\ thr' \in [Thread -> ThreadRec]
        /\ \A v \in Thread : v # w => thr'[v] = thr[v]
        /\ thr'[w].pc = "merge" /\ thr'[w].task = h
    <3>. DEFINE r == [thr[w] EXCEPT !.pc = "merge", !.task = h]
    <3>1. thr' = [thr EXCEPT ![w] = r]
      BY <1>0, <2>1 DEF Types, ThreadRec
    <3>2. r \in ThreadRec /\ r.pc = "merge" /\ r.task = h
      BY <1>0, <2>2 DEF Types, ThreadRec, Pc
    <3>. HIDE DEF r
    <3>. QED
      BY <1>0, <3>1, <3>2 DEF Types
  <2>5. ThreadOK(w)'
    BY <1>1, <2>2, <2>4 DEF ThreadOK, Past
  <2>. QED
    BY <1>1, <1>2, <2>2, <2>3, <2>4, <2>5, ThreadOnly
<1>. QED
  BY <1>3, <1>4

\* WriteBack and Land preserve it: they settle what was active, and bring what was not there.
LEMMA ArrivalStep ==
    ASSUME MergeInv, NEW w \in Thread, NEW t \in Task,
           Merge!Land(w, t) \/ \E outcome \in {"done", "failed"} : Merge!WriteBack(w, t, outcome)
    PROVE  MergeInv'
<1>0. Types
  BY DEF MergeInv
<1>1. UNCHANGED <<repo, dirty, edited, base, given, overrun, resolver, reported, pending>>
  BY DEF Merge!Land, Merge!WriteBack, Merge!history
<1>2. /\ Stable
      /\ dispatch' \in [Task -> DispatchState] /\ cargo' \in [Task -> CargoState]
      /\ placed' \subseteq Task
  <2>1. CASE Merge!Land(w, t)
    BY <1>0, <2>1, AskedOfConstants DEF MergeConstants, Types, Merge!Land, Stable, CargoState
  <2>2. ASSUME NEW outcome \in {"done", "failed"}, Merge!WriteBack(w, t, outcome)
        PROVE  Stable /\ dispatch' \in [Task -> DispatchState] /\ UNCHANGED <<cargo, placed>>
    BY <1>0, <2>2 DEF Types, Merge!WriteBack, Stable, DispatchState
  <2>. QED
    BY <1>0, <2>1, <2>2 DEF Types
<1>3. TreesOK' /\ HandOK' /\ Keeps
  BY <1>1, <1>2, SameTrees
<1>. DEFINE Goal == /\ thr' \in [Thread -> ThreadRec]
                    /\ \A v \in Thread : thr'[v] = thr[v] \/ ThreadOK(v)'
<1>4. Goal
  <2>1. CASE thr' = thr
    BY <1>0, <2>1 DEF Types
  <2>2. ASSUME NEW kind \in {"land", "write"}, Merge!Begin(w, "check", t, kind) PROVE Goal
    <3>1. /\ thr' \in [Thread -> ThreadRec]
          /\ \A v \in Thread : v # w => thr'[v] = thr[v]
          /\ thr'[w].pc = "check" /\ thr'[w].task = t
      BY <1>0, <2>2, Begins DEF Pc, Kind
    <3>. QED
      BY <3>1 DEF ThreadOK, Past
  <2>. QED
    BY <2>1, <2>2 DEF Merge!Land, Merge!WriteBack
<1>5. Types'
  BY <1>0, <1>1, <1>2, <1>4 DEF Types
<1>. QED
  BY <1>1, <1>2, <1>3, <1>4, <1>5, Frame

-------------------------------------------------------------------------------
(* The other steps that leave the repository alone *)

\* Dispatch preserves it: the baseline of a task is as clean as the repository.
LEMMA DispatchStep ==
    ASSUME MergeInv, NEW t \in Task, Merge!Dispatch(t)
    PROVE  MergeInv'
<1>0. Types /\ TreesOK
  BY DEF MergeInv
<1>1. /\ UNCHANGED <<repo, dirty, edited, given, overrun, cargo, resolver, reported, pending, placed, thr>>
      /\ base' = [base EXCEPT ![t] = repo]
  BY DEF Merge!Dispatch, Merge!memory, Merge!history
<1>2. Stable /\ dispatch' \in [Task -> DispatchState]
  BY <1>0, <1>1 DEF Types, Merge!Dispatch, Stable, DispatchState
<1>3. TreesOK'
  <2>1. \A tree : Clean(tree) => Clean(tree)'
    BY <1>2, StableIsGood
  <2>2. ASSUME NEW u \in Task PROVE base'[u] = repo \/ base'[u] = base[u]
    BY <1>0, <1>1 DEF Types
  <2>. QED
    BY <1>0, <1>1, <2>1, <2>2 DEF TreesOK
<1>4. HandOK' /\ Keeps
  BY <1>1 DEF MergeInv, HandOK, Merge!Tip, Keeps, Holds
<1>5. Types'
  BY <1>0, <1>1, <1>2 DEF Types
<1>. QED
  BY <1>1, <1>2, <1>3, <1>4, <1>5, Frame

\* Cancel, Stall, Engage and Release preserve it.
LEMMA OutsideStep ==
    ASSUME MergeInv, (\E t \in Task : Merge!Cancel(t) \/ Merge!Stall(t)) \/ Merge!Engage \/ Merge!Release
    PROVE  MergeInv'
<1>0. Types
  BY DEF MergeInv
<1>1. UNCHANGED <<repo, dirty, edited, base, given, overrun, cargo, resolver, reported, pending, placed, thr>>
  BY DEF Merge!Cancel, Merge!Stall, Merge!Engage, Merge!Release, Merge!disk, Merge!memory,
     Merge!history
<1>2. Stable /\ dispatch' \in [Task -> DispatchState]
  BY <1>0, <1>1 DEF Types, Merge!Cancel, Merge!Stall, Merge!Engage, Merge!Release, Merge!disk,
     Stable, DispatchState
<1>3. TreesOK' /\ HandOK' /\ Keeps
  BY <1>1, <1>2, SameTrees
<1>4. Types'
  BY <1>0, <1>1, <1>2 DEF Types
<1>. QED
  BY <1>1, <1>2, <1>3, <1>4, Frame

\* Edit preserves it: what is written by hand is in the working copy.
LEMMA EditStep ==
    ASSUME MergeInv, NEW f \in File, Merge!Edit(f)
    PROVE  MergeInv'
<1>0. Types /\ TreesOK /\ HandOK
  BY DEF MergeInv
<1>1. /\ UNCHANGED <<repo, base, given, overrun, dispatch, cargo, resolver, reported, pending, placed, thr>>
      /\ dirty' = dirty \cup {f} /\ edited' = edited \cup {f}
  BY DEF Merge!Edit, Merge!memory
<1>2. Stable /\ Keeps
  BY <1>1 DEF Stable, Keeps, Holds
<1>3. TreesOK'
  BY <1>0, <1>1, <1>2, StableIsGood DEF TreesOK
<1>4. HandOK'
  BY <1>0, <1>1 DEF Types, HandOK, Merge!Tip
<1>5. Types'
  BY <1>0, <1>1 DEF Types
<1>. QED
  BY <1>1, <1>2, <1>3, <1>4, <1>5, Frame

\* Crash preserves it: memory is lost, and with it all that was about to be done.
LEMMA CrashHolds ==
    ASSUME MergeInv, Merge!Crash
    PROVE  MergeInv'
<1>0. Types
  BY DEF MergeInv
<1>1. /\ UNCHANGED <<repo, dirty, edited, base, given, overrun, dispatch, cargo, reported, pending>>
      /\ placed' = {} /\ thr' = [w \in Thread |-> Merge!Idle] /\ resolver' = [t \in Task |-> Merge!NoResolver]
  BY DEF Merge!Crash, Merge!disk
<1>2. Stable
  BY <1>1 DEF Stable
<1>3. TreesOK' /\ HandOK' /\ Keeps
  BY <1>1, <1>2, SameTrees
<1>4. Types'
  BY <1>0, <1>1, IdleIsTyped DEF Types
<1>5. ASSUME NEW v \in Thread PROVE ThreadOK(v)'
  BY <1>1 DEF ThreadOK, Past, Merge!Idle
<1>6. ASSUME NEW t \in Task PROVE ResolverOK(t)'
  BY <1>1 DEF ResolverOK, Merge!NoResolver
<1>. QED
  BY <1>1, <1>2, <1>3, <1>4, <1>5, <1>6, Frame

-------------------------------------------------------------------------------
(* Merge, Conflict, Resume and Finish *)

\* What commit_worktree makes of the repository is clean: nobody's task is called "hand".
LEMMA TipIsClean ==
    ASSUME MergeInv
    PROVE  Merge!Tip \in Tree /\ Clean(Merge!Tip) /\ \A f \in File : repo[f] \subseteq Merge!Tip[f]
  BY AskedOfConstants DEF MergeConstants, MergeInv, Types, TreesOK, Tree, Merge!Author, Merge!Tip,
     Clean

\* A commit on top of the working copy keeps all that is there.
LEMMA Grows ==
    ASSUME MergeInv, UNCHANGED <<edited, base, given, overrun, dispatch, cargo>>,
           repo' \in Tree, Clean(repo'), dirty' = {},
           \A f \in File : Merge!Tip[f] \subseteq repo'[f]
    PROVE  Stable /\ TreesOK' /\ HandOK' /\ Keeps
<1>0. Types /\ TreesOK /\ HandOK
  BY DEF MergeInv
<1>1. Stable
  BY DEF Stable
<1>2. TreesOK'
  <2>1. \A tree : Clean(tree) => Clean(tree)'
    BY <1>1, StableIsGood
  <2>2. Clean(repo)'
    BY DEF Clean, Good
  <2>. QED
    BY <1>0, <2>1, <2>2 DEF TreesOK
<1>3. \A f \in File : repo[f] \subseteq repo'[f] /\ Merge!Tip'[f] = repo'[f]
  BY <1>0, TipIsClean DEF Merge!Tip
<1>4. HandOK'
  BY <1>0, <1>3 DEF Types, HandOK
<1>5. Keeps
  BY <1>3, AskedOfConstants DEF MergeConstants, Keeps, Holds
<1>. QED
  BY <1>1, <1>2, <1>4, <1>5

\* Merge preserves it.
LEMMA MergeStep ==
    ASSUME MergeInv, NEW w \in Thread, Merge!Merge(w)
    PROVE  MergeInv'
<1>. DEFINE t == thr[w].task
<1>0. Types /\ ThreadOK(w)
  BY DEF MergeInv
<1>1. UNCHANGED <<edited, base, given, overrun, dispatch, cargo, resolver, reported,
                      pending, placed>>
  BY DEF Merge!Merge, Merge!history
<1>2. t \in Task /\ dispatch[t] = "done"
  BY <1>0 DEF Merge!Merge, Merge!At, ThreadOK, Past
<1>3. /\ thr' \in [Thread -> ThreadRec]
      /\ \A v \in Thread : v # w => thr'[v] = thr[v]
      /\ thr'[w].pc = "finish" /\ thr'[w].task = t
  BY <1>0, Goes DEF Merge!Merge, Pc
<1>4. CASE cargo[t] = "empty" /\ UNCHANGED <<repo, dirty>>
  <2>1. Stable
    BY <1>1 DEF Stable
  <2>2. TreesOK' /\ HandOK' /\ Keeps
    BY <1>1, <1>4, <2>1, SameTrees
  <2>3. ThreadOK(w)'
    BY <1>1, <1>2, <1>3, <1>4 DEF ThreadOK, Past
  <2>4. Types'
    BY <1>0, <1>1, <1>3, <1>4 DEF Types
  <2>. QED
    BY <1>1, <1>3, <2>1, <2>2, <2>3, <2>4, Frame
<1>5. CASE cargo[t] = "files" /\ repo' = Merge!MergedTree(t) /\ dirty' = {}
  <2>0. t \in Merge!Author /\ Good(t) /\ Edits[t] \subseteq File
    BY <1>2, <1>5, AskedOfConstants DEF MergeConstants, Merge!Author, Good
  <2>1. repo' \in Tree
    BY <1>5, <2>0, TipIsClean DEF Merge!MergedTree, Tree
  <2>2. Clean(repo')
    <3>1. ASSUME NEW f \in File, NEW u \in repo'[f] \cap Task PROVE u = t \/ u \in Merge!Tip[f]
      BY <1>5, <2>0, <3>1 DEF Merge!MergedTree
    <3>2. DOMAIN repo' = File /\ DOMAIN Merge!Tip = File
      BY <2>1 DEF Tree, Merge!Tip
    <3>. QED
      BY <2>0, <3>1, <3>2, TipIsClean DEF Clean
  <2>3. \A f \in File : Merge!Tip[f] \subseteq repo'[f]
    BY <1>5 DEF Merge!MergedTree
  <2>4. Stable /\ TreesOK' /\ HandOK' /\ Keeps
    BY <1>1, <1>5, <2>1, <2>2, <2>3, Grows
  <2>5. \A f \in Edits[t] : t \in repo'[f]
    BY <1>5, <2>0 DEF Merge!MergedTree
  <2>6. ThreadOK(w)'
    BY <1>1, <1>2, <1>3, <1>5, <2>5 DEF ThreadOK, Past, Holds
  <2>7. Types'
    BY <1>0, <1>1, <1>3, <1>5, <2>1 DEF Types
  <2>. QED
    BY <1>1, <1>3, <2>4, <2>6, <2>7, Frame
<1>. QED
  BY <1>4, <1>5 DEF Merge!Merge

\* Conflict preserves it: the resolver gets sides of a clean tree.
LEMMA ConflictStep ==
    ASSUME MergeInv, NEW w \in Thread, Merge!Conflict(w)
    PROVE  MergeInv'
<1>0. Types /\ ThreadOK(w)
  BY DEF MergeInv
<1>t. PICK t \in Task : t = thr[w].task
  BY <1>0 DEF Merge!Conflict, Merge!At, ThreadOK, Past
<1>1. /\ UNCHANGED <<edited, base, given, overrun, dispatch, cargo, reported, pending, placed>>
      /\ repo' = Merge!Tip /\ dirty' = {} /\ cargo[t] = "files"
  BY <1>t DEF Merge!Conflict, Merge!history
<1>2. dispatch[t] = "done"
  BY <1>0, <1>t DEF Merge!Conflict, Merge!At, ThreadOK, Past
<1>3. Stable /\ TreesOK' /\ HandOK' /\ Keeps
  BY <1>1, TipIsClean, Grows
<1>4. PICK files \in Merge!Collisions(t) \ {{}} :
          \/ frozen' = TRUE /\ Merge!Goto(w, "park") /\ UNCHANGED resolver
          \/ /\ thr[w].kind # "resume"
             /\ resolver' = [resolver EXCEPT ![t] = [at |-> "solve", ours |-> [f \in files |-> Merge!Tip[f]]]]
             /\ Merge!Return(w)
             /\ UNCHANGED frozen
  BY <1>t DEF Merge!Conflict
<1>5. CASE Merge!Goto(w, "park") /\ UNCHANGED resolver
  <2>1. /\ thr' \in [Thread -> ThreadRec]
        /\ \A v \in Thread : v # w => thr'[v] = thr[v]
        /\ thr'[w].pc = "park" /\ thr'[w].task = t
    BY <1>0, <1>t, <1>5, Goes DEF Pc
  <2>2. ThreadOK(w)'
    BY <1>1, <1>2, <2>1 DEF ThreadOK, Past
  <2>3. Types'
    BY <1>0, <1>1, <1>5, <2>1, TipIsClean DEF Types
  <2>. QED
    BY <1>1, <1>3, <1>5, <2>1, <2>2, <2>3, Frame
<1>6. CASE /\ resolver' = [resolver EXCEPT ![t] = [at |-> "solve", ours |-> [f \in files |-> Merge!Tip[f]]]]
           /\ Merge!Return(w)
  <2>0. PICK ours : ours = [f \in files |-> Merge!Tip[f]]
    OBVIOUS
  <2>1. /\ thr' \in [Thread -> ThreadRec]
        /\ \A v \in Thread : v # w => thr'[v] = thr[v]
        /\ ThreadOK(w)'
    BY <1>0, <1>6, Returns
  <2>2. files \subseteq File
    BY AskedOfConstants DEF MergeConstants, Merge!Collisions
  <2>3. /\ resolver'[t].at = "solve" /\ resolver'[t].ours = ours
        /\ \A u \in Task : u # t => resolver'[u] = resolver[u]
        /\ DOMAIN resolver' = Task
    BY <1>0, <1>6, <2>0 DEF Types
  <2>4. DOMAIN ours = files /\ \A f \in files : ours[f] = Merge!Tip[f]
    BY <2>0
  <2>5. \A f \in files : ours[f] \subseteq Merge!Author
    BY <2>2, <2>4, TipIsClean DEF Tree
  <2>6. Clean(ours)
    <3>1. DOMAIN Merge!Tip = File
      BY TipIsClean DEF Tree
    <3>. QED
      BY <2>2, <2>4, <3>1, TipIsClean DEF Clean
  <2>7. Good(t)' /\ Clean(ours)'
    BY <1>1, <1>2, <2>6 DEF Clean, Good
  <2>8. ResolverOK(t)'
    BY <2>2, <2>3, <2>4, <2>5, <2>7 DEF ResolverOK, Clean, Good
  <2>9. Types'
    BY <1>0, <1>1, <2>1, <2>3, TipIsClean DEF Types
  <2>. QED
    BY <1>1, <1>3, <2>1, <2>3, <2>8, <2>9, Frame
<1>. QED
  BY <1>4, <1>5, <1>6

\* Resume preserves it.
LEMMA ResumeStep ==
    ASSUME MergeInv, NEW w \in Thread, Merge!Resume(w)
    PROVE  MergeInv'
<1>0. Types
  BY DEF MergeInv
<1>1. /\ UNCHANGED <<edited, base, given, overrun, dispatch, cargo, resolver, reported,
                      pending, placed>>
      /\ repo' = Merge!Tip /\ dirty' = {}
  BY DEF Merge!Resume, Merge!history
<1>2. Stable /\ TreesOK' /\ HandOK' /\ Keeps
  BY <1>1, TipIsClean, Grows
<1>3. /\ thr' \in [Thread -> ThreadRec]
      /\ \A v \in Thread : v # w => thr'[v] = thr[v]
      /\ thr'[w].pc = "pop"
  BY <1>0, Begins DEF Merge!Resume, Pc, Kind
<1>4. ThreadOK(w)'
  BY <1>3 DEF ThreadOK, Past
<1>5. Types'
  BY <1>0, <1>1, <1>3, TipIsClean DEF Types
<1>. QED
  BY <1>1, <1>2, <1>3, <1>4, <1>5, Frame

\* Finish preserves it: MERGE_SERIAL or not, what the thread has merged is still there.
LEMMA FinishStep ==
    ASSUME MergeInv, NEW w \in Thread, Merge!Finish(w)
    PROVE  MergeInv'
<1>. DEFINE t == thr[w].task
<1>0. Types /\ ThreadOK(w)
  BY DEF MergeInv
<1>1. /\ UNCHANGED <<repo, dirty, edited, base, given, overrun, dispatch, cargo, resolver, pending, placed>>
      /\ reported' = reported \cup {t}
  BY DEF Merge!Finish
<1>2. /\ t \in Task /\ dispatch[t] = "done" /\ cargo[t] \in {"files", "empty"}
      /\ cargo[t] = "files" => Holds(t)
  BY <1>0 DEF Merge!Finish, Merge!At, ThreadOK, Past
<1>3. Stable
  BY <1>1 DEF Stable
<1>4. TreesOK' /\ HandOK' /\ Keeps
  BY <1>1, <1>3, SameTrees
<1>5. /\ thr' \in [Thread -> ThreadRec]
      /\ \A v \in Thread : v # w => thr'[v] = thr[v]
      /\ thr'[w].pc = "settle" /\ thr'[w].task = t
  BY <1>0, Goes DEF Merge!Finish, Pc
<1>6. ThreadOK(w)'
  BY <1>1, <1>2, <1>5 DEF ThreadOK, Past
<1>7. Types'
  BY <1>0, <1>1, <1>5 DEF Types
<1>8. \A u \in reported' \ reported :
         u \in Task /\ cargo'[u] \in {"files", "empty"} /\ (cargo'[u] = "files" => Holds(u)')
  BY <1>1, <1>2, <1>4 DEF Keeps
<1>. QED
  BY <1>1, <1>3, <1>4, <1>5, <1>6, <1>7, <1>8, Frame

-------------------------------------------------------------------------------
(* The resolver *)

\* The steps of the resolver that commit nothing preserve the invariant.
LEMMA ResolverEndStep ==
    ASSUME MergeInv, NEW t \in Task,
           Merge!ResolverGivesUp(t) \/ Merge!ResolverRedispatches(t) \/ Merge!ResolverFinishes(t)
    PROVE  MergeInv'
<1>0. Types /\ ResolverOK(t)
  BY DEF MergeInv
<1>1. /\ UNCHANGED <<repo, dirty, edited, base, given, overrun, dispatch, cargo, pending, placed, thr>>
      /\ resolver' = [resolver EXCEPT ![t] = Merge!NoResolver]
  BY DEF Merge!ResolverGivesUp, Merge!ResolverRedispatches, Merge!ResolverFinishes, Merge!history
<1>2. Stable
  BY <1>1 DEF Stable
<1>3. TreesOK' /\ HandOK' /\ Keeps
  BY <1>1, <1>2, SameTrees
<1>4. Types'
  BY <1>0, <1>1 DEF Types
<1>5. ASSUME NEW u \in Task PROVE resolver'[u] = resolver[u] \/ ResolverOK(u)'
  BY <1>0, <1>1 DEF Types, ResolverOK, Merge!NoResolver
<1>6. reported' = reported \/ (reported' = reported \cup {t} /\ resolver[t].at = "finish")
  BY DEF Merge!ResolverGivesUp, Merge!ResolverRedispatches, Merge!ResolverFinishes, Merge!history
<1>7. \A u \in reported' \ reported :
         u \in Task /\ cargo'[u] \in {"files", "empty"} /\ (cargo'[u] = "files" => Holds(u)')
  BY <1>0, <1>1, <1>3, <1>6 DEF ResolverOK, Good, Keeps
<1>. QED
  BY <1>1, <1>2, <1>3, <1>4, <1>5, <1>7, Frame

\* A commit of the resolver preserves it: what it leaves out is told by `given' and `overrun'.
LEMMA ResolverCommitStep ==
    ASSUME MergeInv, NEW t \in Task, Merge!ResolverCommits(t)
    PROVE  MergeInv'
<1>0. Types /\ TreesOK /\ HandOK /\ ResolverOK(t)
  BY DEF MergeInv
<1>1. /\ UNCHANGED <<edited, base, dispatch, cargo, reported, pending, placed, thr>>
      /\ resolver' = [resolver EXCEPT ![t] = [at |-> "finish", ours |-> <<>>]]
      /\ resolver[t].at = "solve"
  BY DEF Merge!ResolverCommits
<1>. DEFINE files == DOMAIN resolver[t].ours
<1>2. /\ Good(t) /\ files \subseteq File /\ t \in Merge!Author /\ Edits[t] \subseteq File
      /\ \A f \in files : resolver[t].ours[f] \subseteq Merge!Author
      /\ Clean(resolver[t].ours)
  BY <1>0, <1>1, AskedOfConstants DEF MergeConstants, ResolverOK, Merge!Author
<1>3. PICK action \in [files -> {"merge", "ours", "theirs"}] :
         LET new  == [f \in File |-> IF f \in files THEN Merge!Resolution(t, f, action[f]) ELSE repo[f]]
             kept == IF new = repo THEN Merge!Tip ELSE new
             seen == {x \in Merge!Author \X files : x[1] \in resolver[t].ours[x[2]] \cup {t}}
             lost == {x \in Merge!Author \X File :
                         \/ x[1] \in Merge!Tip[x[2]] \ kept[x[2]]
                         \/ x[1] = t /\ x[2] \in Edits[t] /\ t \notin new[x[2]]}
         IN  /\ repo' = new
             /\ dirty' = IF new = repo THEN dirty ELSE {}
             /\ given' = given \cup (lost \cap seen)
             /\ overrun' = overrun \cup (lost \ seen)
  BY DEF Merge!ResolverCommits
<1>. DEFINE new  == [f \in File |-> IF f \in files THEN Merge!Resolution(t, f, action[f]) ELSE repo[f]]
            kept == IF new = repo THEN Merge!Tip ELSE new
            lost == {x \in Merge!Author \X File :
                        \/ x[1] \in Merge!Tip[x[2]] \ kept[x[2]]
                        \/ x[1] = t /\ x[2] \in Edits[t] /\ t \notin new[x[2]]}
<1>4. /\ repo' = new
      /\ dirty' = IF new = repo THEN dirty ELSE {}
      /\ given' \cup overrun' = given \cup overrun \cup lost
  BY <1>3
<1>5. ASSUME NEW f \in files
      PROVE  /\ Merge!Resolution(t, f, action[f]) \subseteq Merge!Author
             /\ \A u \in Merge!Resolution(t, f, action[f]) \cap Task : Good(u)
  <2>1. /\ base[t][f] \subseteq Merge!Author
        /\ \A u \in base[t][f] \cap Task : Good(u)
        /\ \A u \in resolver[t].ours[f] \cap Task : Good(u)
    BY <1>0, <1>2, <1>5 DEF Types, Tree, TreesOK, Clean
  <2>2. action[f] \in {"merge", "ours", "theirs"}
    BY <1>5
  <2>. QED
    BY <1>2, <1>5, <2>1, <2>2 DEF Merge!Resolution
<1>6. new \in Tree /\ Clean(new)
  <2>1. ASSUME NEW f \in File PROVE new[f] \subseteq Merge!Author /\ \A u \in new[f] \cap Task : Good(u)
    BY <1>0, <1>5 DEF Types, Tree, TreesOK, Clean
  <2>2. DOMAIN new = File /\ new = [f \in File |-> new[f]]
    OBVIOUS
  <2>. HIDE DEF new
  <2>. QED
    BY <2>1, <2>2 DEF Tree, Clean
<1>. HIDE DEF new
<1>7. ASSUME NEW a \in Merge!Author, NEW f \in File, a \in Merge!Tip[f], new # repo
      PROVE  a \in new[f] \/ <<a, f>> \in lost
  BY <1>7
<1>8. ASSUME NEW f \in Edits[t] PROVE t \in new[f] \/ <<t, f>> \in lost
  BY <1>2, <1>8
<1>. HIDE DEF lost
<1>9. Stable
  BY <1>1 DEF Stable
<1>10. TreesOK'
  <2>1. \A tree : Clean(tree) => Clean(tree)'
    BY <1>9, StableIsGood
  <2>2. Clean(repo')
    BY <1>4, <1>6
  <2>3. Clean(repo)'
    BY <1>1, <2>2 DEF Clean, Good
  <2>. QED
    BY <1>0, <1>1, <2>1, <2>3 DEF TreesOK
<1>11. Keeps
  <2>1. SUFFICES ASSUME NEW u \in Task, Holds(u), NEW f \in Edits[u]
                 PROVE  u \in repo'[f] \/ <<u, f>> \in given' \cup overrun'
    BY DEF Keeps, Holds
  <2>2. u \in Merge!Author /\ f \in File /\ repo[f] \subseteq Merge!Tip[f]
    BY AskedOfConstants, TipIsClean DEF MergeConstants, Merge!Author
  <2>. QED
    BY <1>4, <1>7, <2>1, <2>2 DEF Holds
<1>12. HandOK'
  <2>1. SUFFICES ASSUME NEW f \in edited
                 PROVE  "hand" \in Merge!Tip'[f] \/ <<"hand", f>> \in given' \cup overrun'
    BY <1>1 DEF HandOK
  <2>2. f \in File /\ "hand" \in Merge!Author
    BY <1>0 DEF Types, Merge!Author
  <2>3. CASE new = repo
    BY <1>0, <1>4, <2>1, <2>2, <2>3 DEF HandOK, Merge!Tip
  <2>4. CASE new # repo
    <3>1. Merge!Tip'[f] = new[f]
      BY <1>4, <2>2, <2>4 DEF Merge!Tip
    <3>. QED
      BY <1>0, <1>4, <1>7, <2>1, <2>2, <2>4, <3>1 DEF HandOK
  <2>. QED
    BY <2>3, <2>4
<1>13. ResolverOK(t)'
  <2>1. Holds(t)' /\ Good(t)'
    BY <1>1, <1>2, <1>4, <1>8 DEF Holds, Good
  <2>2. resolver'[t].at = "finish"
    BY <1>0, <1>1 DEF Types
  <2>. QED
    BY <2>1, <2>2 DEF ResolverOK
<1>14. DOMAIN resolver' = Task /\ \A u \in Task : u # t => resolver'[u] = resolver[u]
  BY <1>0, <1>1 DEF Types
<1>15. Types'
  BY <1>0, <1>1, <1>4, <1>6, <1>14 DEF Types
<1>. QED
  BY <1>1, <1>9, <1>10, <1>11, <1>12, <1>13, <1>14, <1>15, Frame

-------------------------------------------------------------------------------
\* MergeInv is inductive.
LEMMA StepHolds == MergeInv /\ [Merge!Next]_(Merge!vars) => MergeInv'
<1>. SUFFICES ASSUME MergeInv, [Merge!Next]_(Merge!vars) PROVE MergeInv'
  OBVIOUS
<1>1. ASSUME NEW w \in Thread, Merge!ThreadStep(w) PROVE MergeInv'
  BY <1>1, EntryStep, DeferStep, TellStep, MergeStep, ConflictStep, FinishStep, AgainStep, PopStep
     DEF Merge!ThreadStep
<1>2. ASSUME NEW w \in Thread, Merge!Watch(w) \/ Merge!Resume(w) PROVE MergeInv'
  BY <1>2, AgainStep, ResumeStep
<1>3. ASSUME NEW w \in Thread, NEW t \in Task,
             \/ Merge!Land(w, t) \/ Merge!Retry(w, t)
             \/ \E outcome \in {"done", "failed"} : Merge!WriteBack(w, t, outcome)
      PROVE  MergeInv'
  BY <1>3, ArrivalStep, AgainStep
<1>4. ASSUME NEW t \in Task,
             Merge!Dispatch(t) \/ Merge!Cancel(t) \/ Merge!ResolverStep(t) \/ Merge!Stall(t)
      PROVE  MergeInv'
  BY <1>4, DispatchStep, OutsideStep, ResolverEndStep, ResolverCommitStep DEF Merge!ResolverStep
<1>5. ASSUME NEW f \in File, Merge!Edit(f) PROVE MergeInv'
  BY <1>5, EditStep
<1>6. CASE Merge!Engage \/ Merge!Release \/ Merge!Crash
  BY <1>6, OutsideStep, CrashHolds
<1>7. CASE UNCHANGED Merge!vars
  <2>1. /\ UNCHANGED <<repo, dirty, edited, base, given, overrun, dispatch, cargo>>
        /\ UNCHANGED <<resolver, reported, pending, placed, thr>>
    BY <1>7 DEF Merge!vars, Merge!disk, Merge!memory, Merge!history
  <2>2. Stable
    BY <2>1 DEF Stable
  <2>3. TreesOK' /\ HandOK' /\ Keeps
    BY <2>1, <2>2, SameTrees
  <2>4. Types'
    BY <2>1 DEF MergeInv, Types
  <2>. QED
    BY <2>1, <2>2, <2>3, <2>4, Frame
<1>. QED
  BY <1>1, <1>2, <1>3, <1>4, <1>5, <1>6, <1>7 DEF Merge!Next

\* The repository of a project holds only settled deliveries, and keeps what was reported as
\* merged and what was written by hand, but for what a commit of the resolver left out.
THEOREM RepositoryStaysRight == Merge!Spec => []RepositoryIsRight
<1>1. MergeInv /\ [Merge!Next]_(Merge!vars) => MergeInv'
  BY StepHolds
<1>. QED
  BY <1>1, InitHolds, InvImpliesRight, PTL DEF Merge!Spec
================================================================================
