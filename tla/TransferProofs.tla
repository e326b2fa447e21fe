---------------------------- MODULE TransferProofs ----------------------------
(***************************************************************************)
(* The transfer of execution records implements Delivery, for any number   *)
(* of versions, chunks, threads, attempts and faults.  The promise is void *)
(* from the moment on at which two threads of the master are at work on    *)
(* the same directory (crossed): then TLC finds versions lost.             *)
(*                                                                         *)
(* Which step of the promise a step takes depends on facts about both      *)
(* nodes, which WireInv collects: only one thread is inside transfer_end,  *)
(* it works on the version that the outbox still has, its directory is     *)
(* neither swept nor emptied behind its back, and from the rename on the   *)
(* master has that version.  The delicate part is the index: a push that   *)
(* finds its hash there is confirmed without a transfer, so the index must *)
(* not speak of a version that was replaced since (IndexIsTrue).           *)
(***************************************************************************)
EXTENDS Transfer, TLAPS

\* What is asked of the constants
WireConstants ==
    /\ MaxFaults \in Nat
    /\ MaxContent \in Nat \ {0} /\ MaxAttempts \in Nat \ {0} /\ Chunks \in Nat \ {0}

EntryState == {"none", "pending", "pushing", "over_limit", "dead"}
EntryType == [state : EntryState, content : 0..MaxContent, attempts : 0..MaxAttempts, old : BOOLEAN]
PushType == [at : {"idle", "begin", "send", "await"}, have : SUBSET Chunk, thread : Thread \cup {""}]
StagingType == [made : BOOLEAN, chunk : [Chunk -> {"none", "short", "garbled", "whole"}],
                outMade : BOOLEAN, out : SUBSET Chunk]
InboxType == [made : BOOLEAN, content : 0..MaxContent, hasFiles : BOOLEAN, files : SUBSET Chunk,
              receipt : 0..MaxContent]
EndStage == {"idle", "open", "assemble", "verify", "replace", "rename", "receipt", "index", "clean",
             "mark", "announce", "remove", "replied"}
EndType == [at : EndStage, content : 0..MaxContent, ok : BOOLEAN, of : 0..MaxContent]

\* The kinds of the variables that the promise speaks of.
WireKinds ==
    /\ WireConstants
    /\ log \in 0..MaxContent /\ dedup \in 0..MaxContent
    /\ entry \in EntryType /\ push \in PushType
    /\ staging \in [Content -> StagingType] /\ inbox \in InboxType
    /\ ends \in [Thread -> EndType]
    /\ placed \subseteq Content /\ discarded \subseteq Content
    /\ inbox.hasFiles => inbox.content # 0

\* The versions that the master has: in the dossier, deleted from it by hand, in the inbox.
Kept == placed \cup discarded \cup (IF Whole THEN {inbox.content} ELSE {})

\* A thread that is inside transfer_end.
Running(e) == ends[e].at \notin {"idle", "replied"}

\* An entry has a version; the loop is at work exactly when the entry says so, and then it has an
\* attempt left.
Entries ==
    /\ entry.state = "none" <=> entry.content = 0
    /\ push.at # "idle" <=> entry.state = "pushing"
    /\ entry.state = "pushing" => entry.attempts < MaxAttempts

\* One thread at a time is at work, on the version that the outbox still has.
OneEnd ==
    /\ \A e \in Thread : Running(e) =>
          /\ ends[e].content = entry.content /\ entry.content # 0
          /\ push.at # "send"
          /\ push.at = "await" => push.thread = e
    /\ \A e, f \in Thread : Running(e) /\ Running(f) => e = f

\* Nothing is swept away or written to behind its back.
Undisturbed ==
    /\ push.at = "send" => staging[entry.content].made
    /\ \A e \in Thread : Running(e) /\ ends[e].at \notin {"mark", "announce", "remove"} =>
          staging[entry.content].made
    /\ \A e \in Thread : ends[e].at \in {"replace", "rename"} =>
          staging[entry.content].outMade /\ staging[entry.content].out = Chunk
    /\ \A e \in Thread : ends[e].at = "rename" => inbox = NoInbox

\* After the rename the master has the version, after the index the index knows it.
Landed ==
    /\ \A e \in Thread : ends[e].at \in {"receipt", "index", "clean", "mark", "announce", "remove"} =>
          entry.content \in Kept
    /\ \A e \in Thread : ends[e].at \in {"clean", "mark", "announce", "remove"} => dedup = entry.content

\* The worker waits for a thread, and what that thread confirms is there.
Awaited ==
    push.at = "await" =>
        /\ push.thread \in Thread /\ ends[push.thread].at # "idle"
        /\ ends[push.thread].at = "replied" /\ ends[push.thread].ok =>
              entry.content \in Kept /\ dedup = entry.content

\* The index speaks the truth about a version that may be pushed, or is being pushed, while the
\* inbox has a receipt.  Between a receipt and the index of a newer version it does not.
IndexIsTrue ==
    inbox.receipt # 0 /\ dedup # 0 /\ entry.content \in {0, dedup} => dedup \in Kept

WireInv == WireKinds /\ Entries /\ OneEnd /\ Undisturbed /\ Landed /\ Awaited /\ IndexIsTrue

\* The part that is about both nodes.
Both == OneEnd /\ Undisturbed /\ Landed /\ Awaited /\ IndexIsTrue

\* What an ingestion has copied is in the dossier, or was.
InDossier == {0} \cup placed \cup discarded
Copies == sweep.of \in InDossier /\ \A e \in Thread : ends[e].of \in InDossier

\* As long as no two threads have met, the step is one of the promise, or none.
Calm == crossed = FALSE /\ crossed' = FALSE
Simulates == Calm => [D!Next]_(D!vars)

-------------------------------------------------------------------------------
(* How the parts of the state are written. *)

\* The ways in which an entry of the outbox is written
LEMMA EntryWrites ==
    ASSUME WireConstants, entry \in EntryType
    PROVE  /\ NoEntry \in EntryType /\ NoEntry.state = "none" /\ NoEntry.content = 0
           /\ \A v \in 0..MaxContent :
                 /\ NewEntry(v) \in EntryType /\ NewEntry(v).state = "pending" /\ NewEntry(v).content = v
           /\ \A s \in EntryState :
                 /\ [entry EXCEPT !.state = s] \in EntryType
                 /\ [entry EXCEPT !.state = s].state = s
                 /\ [entry EXCEPT !.state = s].content = entry.content
                 /\ [entry EXCEPT !.state = s].attempts = entry.attempts
           /\ \A old \in BOOLEAN :
                 /\ [entry EXCEPT !.state = "dead", !.old = old] \in EntryType
                 /\ [entry EXCEPT !.state = "dead", !.old = old].state = "dead"
                 /\ [entry EXCEPT !.state = "dead", !.old = old].content = entry.content
<1>1. 0 \in 0..MaxContent /\ 0 \in 0..MaxAttempts
  BY DEF WireConstants
<1> QED BY <1>1 DEF EntryType, EntryState, NoEntry, NewEntry

\* A failed push: the entry stays, one attempt further.
LEMMA FailedPush ==
    ASSUME WireConstants, entry \in EntryType, entry.attempts < MaxAttempts, Failed
    PROVE  /\ entry' \in EntryType /\ entry'.state = "pending" /\ entry'.content = entry.content
           /\ push' \in PushType /\ push'.at = "idle"
<1>1. entry.attempts + 1 \in 0..MaxAttempts
  BY DEF EntryType, WireConstants
<1> QED BY <1>1 DEF Failed, EntryType, EntryState, PushType, IdlePush

\* The ways in which the push loop moves
LEMMA PushWrites ==
    ASSUME push \in PushType
    PROVE  /\ IdlePush \in PushType /\ IdlePush.at = "idle"
           /\ [IdlePush EXCEPT !.at = "begin"] \in PushType /\ [IdlePush EXCEPT !.at = "begin"].at = "begin"
           /\ \A H \in SUBSET Chunk :
                 /\ [push EXCEPT !.at = "send", !.have = H] \in PushType
                 /\ [push EXCEPT !.at = "send", !.have = H].at = "send"
                 /\ [push EXCEPT !.have = H] \in PushType
                 /\ [push EXCEPT !.have = H].at = push.at
                 /\ [push EXCEPT !.have = H].thread = push.thread
           /\ \A e \in Thread :
                 /\ [push EXCEPT !.at = "await", !.thread = e] \in PushType
                 /\ [push EXCEPT !.at = "await", !.thread = e].at = "await"
                 /\ [push EXCEPT !.at = "await", !.thread = e].thread = e
BY DEF PushType, IdlePush

\* transfer_end goes to another stage, or answers.
LEMMA EndWrites ==
    ASSUME ends \in [Thread -> EndType], NEW e \in Thread, NEW s \in EndStage, NEW ok \in BOOLEAN
    PROVE  /\ EndAt(e, s) => /\ ends' \in [Thread -> EndType]
                             /\ \A f \in Thread : f # e => ends'[f] = ends[f]
                             /\ ends'[e].at = s /\ ends'[e].content = ends[e].content
           /\ Answer(e, ok) => /\ ends' \in [Thread -> EndType]
                               /\ \A f \in Thread : f # e => ends'[f] = ends[f]
                               /\ ends'[e].at = "replied" /\ ends'[e].ok = ok
BY DEF EndType, EndStage, EndAt, Answer

\* Enqueue, and the sweep of the outbox at the start, keep the version or give a first one.
Posts == \/ entry'.content = entry.content
         \/ entry.content = 0 /\ entry'.content \in Content

\* enqueue leaves the version that is there, or posts a new one.
LEMMA EnqueuedEntry ==
    ASSUME WireKinds, Entries, entry' = Enqueued
    PROVE  /\ entry' \in EntryType /\ Posts
           /\ entry'.state = "none" <=> entry'.content = 0
           /\ entry'.state = "pushing" <=> entry.state = "pushing"
           /\ entry'.attempts < MaxAttempts \/ entry'.attempts = entry.attempts
<1>1. CASE entry.state # "none" \/ log = 0
  BY <1>1 DEF Enqueued, WireKinds, Entries, Posts
<1>2. CASE entry.state = "none" /\ log # 0
  <2>1. entry' = NewEntry(log) /\ log \in 0..MaxContent /\ log \in Content
    BY <1>2 DEF Enqueued, WireKinds, Content, WireConstants
  <2>2. entry'.attempts = 0 /\ 0 < MaxAttempts
    BY <2>1 DEF NewEntry, WireKinds, WireConstants
  <2>3. entry' \in EntryType /\ entry'.state = "pending" /\ entry'.content = log
    BY <2>1, EntryWrites DEF WireKinds
  <2> QED BY <1>2, <2>1, <2>2, <2>3 DEF Entries, Posts
<1> QED BY <1>1, <1>2

\* The sweep at start-up keeps the version.
LEMMA SweptEntry ==
    ASSUME WireKinds, Entries, NEW old \in BOOLEAN, entry' = Swept(old)
    PROVE  /\ entry' \in EntryType /\ Posts
           /\ entry'.state = "none" <=> entry'.content = 0
           /\ entry'.state # "pushing"
<1>1. CASE entry.state = "pushing" \/ (entry.state = "over_limit" /\ fits["worker"])
  <2>1. entry' = [entry EXCEPT !.state = "pending"] /\ "pending" \in EntryState /\ entry.state # "none"
    BY <1>1 DEF Swept, EntryState
  <2>2. entry' \in EntryType /\ entry'.state = "pending" /\ entry'.content = entry.content
    BY <2>1, EntryWrites DEF WireKinds
  <2> QED BY <2>1, <2>2 DEF Entries, Posts
<1>2. CASE ~(entry.state = "pushing" \/ (entry.state = "over_limit" /\ fits["worker"]))
  <2>1. CASE old
    BY <1>2, <2>1 DEF Swept, WireKinds, Entries, Posts
  <2>2. CASE ~old
    <3>1. entry' = Enqueued
      BY <1>2, <2>2 DEF Swept
    <3> QED BY <1>2, <3>1, EnqueuedEntry
  <2> QED BY <2>1, <2>2
<1> QED BY <1>1, <1>2

\* Staging directories stay, and what is assembled in them.
Stages ==
    \A v \in Content :
        /\ staging[v].made => staging'[v].made
        /\ staging[v].made => staging'[v].outMade = staging[v].outMade /\ staging'[v].out = staging[v].out

\* transfer_begin makes a staging directory or resumes it.
LEMMA StagedDir ==
    ASSUME staging \in [Content -> StagingType], NEW v \in Content, staging' = Staged(v)
    PROVE  staging' \in [Content -> StagingType] /\ staging'[v].made /\ Stages
<1>1. [NoStaging EXCEPT !.made = TRUE] \in StagingType /\ [NoStaging EXCEPT !.made = TRUE].made
  BY DEF NoStaging, StagingType
<1>2. CASE staging[v].made
  BY <1>2 DEF Staged, Stages
<1>3. CASE ~staging[v].made
  BY <1>1, <1>3 DEF Staged, Stages
<1> QED BY <1>2, <1>3

\* A chunk is written, or torn by a crash.
LEMMA ChunkWrite ==
    ASSUME staging \in [Content -> StagingType], NEW v \in Content, NEW c \in Chunk,
           NEW k \in {"short", "garbled", "whole"}, staging' = [staging EXCEPT ![v].chunk[c] = k]
    PROVE  staging' \in [Content -> StagingType] /\ Stages
<1>1. [staging[v] EXCEPT !.chunk[c] = k] \in StagingType
  BY DEF StagingType
<1>2. /\ [staging[v] EXCEPT !.chunk[c] = k].made = staging[v].made
      /\ [staging[v] EXCEPT !.chunk[c] = k].outMade = staging[v].outMade
      /\ [staging[v] EXCEPT !.chunk[c] = k].out = staging[v].out
  BY DEF StagingType
<1>3. staging'[v] = [staging[v] EXCEPT !.chunk[c] = k] /\ \A w \in Content : w # v => staging'[w] = staging[w]
  OBVIOUS
<1>4. staging' \in [Content -> StagingType]
  BY <1>1, <1>3
<1> QED BY <1>2, <1>3, <1>4 DEF Stages

\* out/ is made, filled or renamed.
LEMMA OutWrite ==
    ASSUME staging \in [Content -> StagingType], NEW v \in Content, NEW b \in BOOLEAN,
           NEW out \in SUBSET Chunk, staging' = [staging EXCEPT ![v].outMade = b, ![v].out = out]
    PROVE  /\ staging' \in [Content -> StagingType] /\ staging'[v].outMade = b /\ staging'[v].out = out
           /\ \A w \in Content : staging'[w].made = staging[w].made
BY DEF StagingType

\* A staging directory is removed.
LEMMA StagingGone ==
    ASSUME staging \in [Content -> StagingType], NEW v \in Content,
           staging' = [staging EXCEPT ![v] = NoStaging]
    PROVE  /\ staging' \in [Content -> StagingType]
           /\ \A w \in Content : w # v => staging'[w] = staging[w]
<1>1. NoStaging \in StagingType
  BY DEF NoStaging, StagingType
<1> QED BY <1>1

\* Ingestion copies a version from the inbox to the dossier.
LEMMA CopyKeeps ==
    ASSUME WireKinds, Copied, UNCHANGED <<inbox, discarded>>
    PROVE  placed' \subseteq Content /\ Kept' = Kept /\ Taken \in InDossier'
<1>1. inbox.hasFiles => inbox.content \in Content
  BY DEF WireKinds, InboxType, Content, WireConstants
<1>2. placed' = (IF Whole THEN placed \cup {inbox.content} ELSE placed) /\ placed \subseteq Content
  BY DEF Copied, WireKinds
<1>3. Whole => inbox.hasFiles
  BY DEF Whole
<1>4. Whole' <=> Whole
  BY DEF Whole
<1> QED BY <1>1, <1>2, <1>3, <1>4 DEF Kept, Taken, InDossier

\* Then it removes what it has copied, or two threads have met.
LEMMA RemoveKeeps ==
    ASSUME WireKinds, NEW v \in InDossier, RemoveInbox(v), crossed' = FALSE,
           UNCHANGED <<placed, discarded>>
    PROVE  /\ inbox' \in InboxType /\ Kept' = Kept /\ inbox' = NoInbox
           /\ inbox'.receipt = 0 /\ ~inbox'.hasFiles
<1>1. NoInbox \in InboxType /\ ~NoInbox.hasFiles /\ NoInbox.receipt = 0
  BY DEF NoInbox, InboxType, WireKinds, WireConstants
<1>2. inbox' = NoInbox /\ (Whole => inbox.content = v)
  BY DEF RemoveInbox
<1>3. Whole => inbox.content # 0
  BY DEF WireKinds, Whole
<1>4. ~Whole'
  BY <1>1, <1>2 DEF Whole
<1>5. Kept' = Kept
  BY <1>2, <1>3, <1>4 DEF Kept, InDossier
<1> QED BY <1>1, <1>2, <1>5

-------------------------------------------------------------------------------
(* The steps of the promise. *)

\* A version is posted, or nothing happens.
LEMMA PostStep ==
    ASSUME Posts, Kept' = Kept
    PROVE  Simulates
<1>1. CASE entry'.content = entry.content
  BY <1>1 DEF Simulates, Calm, D!vars, Kept
<1>2. CASE entry.content = 0 /\ entry'.content \in Content
  BY <1>2 DEF Simulates, Calm, D!Next, D!Post, Kept
<1> QED BY <1>1, <1>2 DEF Posts

\* The outbox lets go of a version that the master has.
LEMMA ClearStep ==
    ASSUME entry.content \in Kept, entry'.content = 0, Kept' = Kept
    PROVE  Simulates
BY DEF Simulates, Calm, D!Next, D!Clear, Kept

\* The version of the outbox arrives.
LEMMA ArriveStep ==
    ASSUME entry.content # 0, entry'.content = entry.content, Kept' = Kept \cup {entry.content}
    PROVE  Simulates
BY DEF Simulates, Calm, D!Next, D!Arrive, Kept

\* Versions go while the outbox has one.
LEMMA ReplaceStep ==
    ASSUME entry.content # 0, entry'.content = entry.content,
           NEW S \in SUBSET Content, Kept' = Kept \ S
    PROVE  Simulates
BY DEF Simulates, Calm, D!Next, D!Replace, Kept

-------------------------------------------------------------------------------
(* Classes of steps. *)

\* The worker waits for no other thread, begins no sending of chunks; the master has what it had.
Rests == push'.at \in {"idle", "begin"} \/ (push'.at = push.at /\ push'.thread = push.thread)

\* A step of the worker leaves alone what is about both nodes.
LEMMA WorkerKeeps ==
    ASSUME WireInv, Posts, Rests, Stages, UNCHANGED <<inbox, dedup, ends, placed, discarded>>
    PROVE  Both' /\ Kept' = Kept
<1> USE DEF WireInv
<1>1. Kept' = Kept
  BY DEF Kept, Whole
<1>2. entry'.content # entry.content => /\ push.at = "idle" /\ \A e \in Thread : ~Running(e)
                                       /\ entry.content = 0 /\ entry'.content # 0
  <2>1. entry.content = 0 => push.at = "idle"
    BY DEF Entries
  <2>2. entry.content = 0 => \A e \in Thread : ~Running(e)
    BY DEF OneEnd
  <2>3. 0 \notin Content
    BY DEF Content
  <2> QED BY <2>1, <2>2, <2>3 DEF Posts
<1>3. \A e \in Thread : Running(e)' <=> Running(e)
  BY DEF Running
<1>4. OneEnd'
  BY <1>2, <1>3 DEF OneEnd, Rests
<1>5. entry.content # 0 => entry.content \in Content
  BY DEF WireKinds, EntryType, Content, WireConstants
<1>6. Undisturbed'
  <2>1. push'.at = "send" => staging'[entry'.content].made
    BY <1>2, <1>5 DEF Rests, Undisturbed, Stages, Entries
  <2>2. ASSUME NEW e \in Thread, Running(e)', ends'[e].at \notin {"mark", "announce", "remove"}
        PROVE  staging'[entry'.content].made
    BY <1>2, <1>3, <1>5, <2>2 DEF Undisturbed, Stages, OneEnd
  <2>3. ASSUME NEW e \in Thread, ends'[e].at \in {"replace", "rename"}
        PROVE  staging'[entry'.content].outMade /\ staging'[entry'.content].out = Chunk
    <3>1. Running(e) /\ ends[e].at \notin {"mark", "announce", "remove"}
            /\ ends[e].at \in {"replace", "rename"}
      BY <2>3 DEF Running
    <3>2. entry'.content = entry.content /\ entry.content \in Content
      BY <1>2, <1>5, <3>1 DEF OneEnd
    <3> QED BY <3>1, <3>2 DEF Undisturbed, Stages
  <2> QED BY <2>1, <2>2, <2>3 DEF Undisturbed
<1>7. Landed'
  <2>1. \A e \in Thread :
            ends[e].at \in {"receipt", "index", "clean", "mark", "announce", "remove"} => Running(e)
    BY DEF Running
  <2> QED BY <1>1, <1>2, <2>1 DEF Landed
<1>8. Awaited'
  <2>1. push'.at = "await" => push.at = "await" /\ push'.thread = push.thread
    BY DEF Rests
  <2>2. push'.at = "await" => entry'.content = entry.content
    BY <1>2, <2>1
  <2> QED BY <1>1, <2>1, <2>2 DEF Awaited
<1>9. IndexIsTrue'
  BY <1>1, <1>2 DEF IndexIsTrue
<1> QED BY <1>1, <1>4, <1>6, <1>7, <1>8, <1>9 DEF Both

\* A step of the worker
LEMMA WorkerStep ==
    ASSUME WireInv, Posts, Rests, Stages, UNCHANGED <<inbox, dedup, ends, placed, discarded>>,
           log' \in 0..MaxContent, entry' \in EntryType, push' \in PushType,
           staging' \in [Content -> StagingType], Entries'
    PROVE  WireInv' /\ Simulates
<1>1. WireKinds'
  BY DEF WireInv, WireKinds, WireConstants, EntryType, PushType, StagingType, InboxType, EndType,
     Content
<1>2. Both' /\ Kept' = Kept
  BY WorkerKeeps
<1> QED BY <1>1, <1>2, PostStep DEF WireInv, Both

\* Nothing that the promise is about changes.
LEMMA NothingStep ==
    ASSUME WireInv, UNCHANGED <<entry, push, staging, inbox, dedup, ends, placed, discarded>>,
           log' \in 0..MaxContent
    PROVE  WireInv' /\ Simulates
<1>1. Posts /\ Rests /\ Stages
  BY DEF Posts, Rests, Stages
<1>2. Entries'
  BY DEF WireInv, Entries
<1>3. entry' \in EntryType /\ push' \in PushType /\ staging' \in [Content -> StagingType]
  BY DEF WireInv, WireKinds
<1> QED BY <1>1, <1>2, <1>3, WorkerStep

-------------------------------------------------------------------------------
(* The worker. *)

\* Recording, the settlement of the dispatch and a new size limit
LEMMA RecordKeeps ==
    ASSUME WireInv, Record \/ SettleDispatch \/ \E n \in {"worker", "master"} : SetLimit(n)
    PROVE  WireInv' /\ Simulates
<1>1. UNCHANGED <<entry, push, staging, inbox, dedup, ends, placed, discarded>>
  BY DEF Record, SettleDispatch, SetLimit, worker, master, history
<1>2. log' \in 0..MaxContent
  BY DEF Record, SettleDispatch, SetLimit, worker, WireInv, WireKinds, WireConstants
<1> QED BY <1>1, <1>2, NothingStep

\* The end of the task and the pull enqueue.
LEMMA EnqueueKeeps ==
    ASSUME WireInv, Terminal \/ Pull
    PROVE  WireInv' /\ Simulates
<1>1. /\ entry' = Enqueued /\ log' = log
      /\ UNCHANGED <<push, staging, inbox, dedup, ends, placed, discarded>>
  BY DEF Terminal, Pull, master, history
<1>2. WireKinds /\ Entries
  BY DEF WireInv
<1>3. /\ entry' \in EntryType /\ Posts
      /\ entry'.state = "none" <=> entry'.content = 0
      /\ entry'.state = "pushing" <=> entry.state = "pushing"
      /\ entry'.attempts < MaxAttempts \/ entry'.attempts = entry.attempts
  BY <1>1, <1>2, EnqueuedEntry
<1>4. Entries'
  BY <1>1, <1>2, <1>3 DEF Entries
<1>5. Rests /\ Stages
  BY <1>1 DEF Rests, Stages
<1>6. log' \in 0..MaxContent /\ push' \in PushType /\ staging' \in [Content -> StagingType]
  BY <1>1, <1>2 DEF WireKinds
<1> QED BY <1>1, <1>3, <1>4, <1>5, <1>6, WorkerStep

\* The gates of process_once and the replay of a dead letter.
LEMMA GateKeeps ==
    ASSUME WireInv, Park \/ StartPush \/ Replay
    PROVE  WireInv' /\ Simulates
<1>1. UNCHANGED <<log, staging, inbox, dedup, ends, placed, discarded>>
  BY DEF Park, StartPush, Replay, master, history
<1>2. WireConstants /\ entry \in EntryType /\ push \in PushType
  BY DEF WireInv, WireKinds
<1>3. /\ entry' \in EntryType /\ push' \in PushType /\ entry'.content = entry.content
      /\ entry.state # "none" /\ entry'.state # "none" /\ (push'.at # "idle" <=> entry'.state = "pushing")
      /\ entry'.state = "pushing" => entry'.attempts < MaxAttempts
      /\ Rests
  <2>1. CASE Park
    <3>1. PICK old \in BOOLEAN : entry' = [entry EXCEPT !.state = "dead", !.old = old]
      BY <2>1 DEF Park
    <3>2. push' = push /\ push.at = "idle" /\ entry.state = "pending"
      BY <2>1 DEF Park
    <3> QED BY <1>2, <3>1, <3>2, EntryWrites DEF Rests
  <2>2. CASE StartPush
    <3>1. push.at = "idle" /\ entry.state = "pending" /\ entry.attempts < MaxAttempts
      BY <1>2, <2>2 DEF StartPush, Due, EntryType, WireConstants
    <3>2. CASE fits["worker"]
      <4>1. /\ entry' = [entry EXCEPT !.state = "pushing"] /\ push' = [IdlePush EXCEPT !.at = "begin"]
            /\ "pushing" \in EntryState
        BY <2>2, <3>2 DEF StartPush, EntryState
      <4>2. entry' \in EntryType /\ entry'.state = "pushing" /\ entry'.content = entry.content
            /\ entry'.attempts = entry.attempts
        BY <1>2, <4>1, EntryWrites
      <4>3. push' \in PushType /\ push'.at = "begin"
        BY <1>2, <4>1, PushWrites
      <4> QED BY <3>1, <4>2, <4>3 DEF Rests
    <3>3. CASE ~fits["worker"]
      <4>1. entry' = [entry EXCEPT !.state = "over_limit"] /\ push' = push /\ "over_limit" \in EntryState
        BY <2>2, <3>3 DEF StartPush, EntryState
      <4>2. entry' \in EntryType /\ entry'.state = "over_limit" /\ entry'.content = entry.content
        BY <1>2, <4>1, EntryWrites
      <4> QED BY <1>2, <3>1, <4>1, <4>2 DEF Rests
    <3> QED BY <3>2, <3>3
  <2>3. CASE Replay
    <3>1. entry' = NewEntry(entry.content) /\ push' = push /\ entry.state = "dead"
      BY <2>3 DEF Replay
    <3>2. entry.content \in 0..MaxContent
      BY <1>2 DEF EntryType
    <3>3. entry' \in EntryType /\ entry'.state = "pending" /\ entry'.content = entry.content
      BY <1>2, <3>1, <3>2, EntryWrites
    <3>4. push.at = "idle"
      BY <3>1 DEF WireInv, Entries
    <3> QED BY <1>2, <3>1, <3>3, <3>4 DEF Rests
  <2> QED BY <2>1, <2>2, <2>3
<1>4. Entries'
  BY <1>3 DEF WireInv, Entries
<1>5. Posts /\ Stages
  BY <1>1, <1>3 DEF Posts, Stages
<1>6. log' \in 0..MaxContent /\ staging' \in [Content -> StagingType]
  BY <1>1 DEF WireInv, WireKinds
<1> QED BY <1>1, <1>3, <1>4, <1>5, <1>6, WorkerStep

\* A push that fails, whatever the call left in the staging directory.
LEMMA FailureKeeps ==
    ASSUME WireInv, push.at # "idle", Failed, Stages, staging' \in [Content -> StagingType],
           UNCHANGED <<log, inbox, dedup, ends, placed, discarded>>
    PROVE  WireInv' /\ Simulates
<1>1. WireConstants /\ entry \in EntryType /\ entry.state = "pushing" /\ entry.attempts < MaxAttempts
  BY DEF WireInv, WireKinds, Entries
<1>2. /\ entry' \in EntryType /\ entry'.state = "pending" /\ entry'.content = entry.content
      /\ push' \in PushType /\ push'.at = "idle"
  BY <1>1, FailedPush
<1>3. Entries' /\ Posts /\ Rests
  BY <1>1, <1>2 DEF WireInv, Entries, Posts, Rests
<1>4. log' \in 0..MaxContent
  BY DEF WireInv, WireKinds
<1> QED BY <1>2, <1>3, <1>4, WorkerStep

\* The worker crashes: its entry is swept.
LEMMA CrashWorkerKeeps ==
    ASSUME WireInv, CrashWorker
    PROVE  WireInv' /\ Simulates
<1>1. PICK old \in BOOLEAN : entry' = Swept(old)
  BY DEF CrashWorker
<1>2. push' = IdlePush /\ UNCHANGED <<log, staging, inbox, dedup, ends, placed, discarded>>
  BY DEF CrashWorker, master, history
<1>3. WireKinds /\ Entries
  BY DEF WireInv
<1>4. /\ entry' \in EntryType /\ Posts
      /\ entry'.state = "none" <=> entry'.content = 0
      /\ entry'.state # "pushing"
  BY <1>1, <1>3, SweptEntry
<1>5. push' \in PushType /\ push'.at = "idle"
  BY <1>2, <1>3, PushWrites DEF WireKinds
<1>6. Entries' /\ Rests /\ Stages
  BY <1>2, <1>4, <1>5 DEF Entries, Rests, Stages
<1>7. log' \in 0..MaxContent /\ staging' \in [Content -> StagingType]
  BY <1>2, <1>3 DEF WireKinds
<1> QED BY <1>2, <1>4, <1>5, <1>6, <1>7, WorkerStep

\* The version of an entry that is pushed.
LEMMA PushedVersion ==
    ASSUME WireInv, push.at # "idle"
    PROVE  entry.content \in Content /\ entry.state = "pushing"
BY DEF WireInv, WireKinds, Entries, EntryType, Content, WireConstants

\* A chunk arrives.
LEMMA SendChunkKeeps ==
    ASSUME WireInv, NEW c \in Chunk, SendChunk(c)
    PROVE  WireInv' /\ Simulates
<1>1. push.at = "send" /\ UNCHANGED <<log, inbox, dedup, ends, placed, discarded>>
  BY DEF SendChunk, history
<1>2. entry.content \in Content /\ staging \in [Content -> StagingType] /\ push \in PushType
  BY <1>1, PushedVersion DEF WireInv, WireKinds
<1>3. CASE staging[entry.content].made
  <2>1. /\ staging' = [staging EXCEPT ![entry.content].chunk[c] = "whole"]
        /\ push' = [push EXCEPT !.have = @ \cup {c}] /\ entry' = entry
    BY <1>3 DEF SendChunk, Written
  <2>2. staging' \in [Content -> StagingType] /\ Stages
    BY <1>2, <2>1, ChunkWrite
  <2>3. push.have \cup {c} \in SUBSET Chunk
    BY <1>2 DEF PushType
  <2>4. push' = [push EXCEPT !.have = push.have \cup {c}]
    BY <2>1
  <2>5. push' \in PushType /\ push'.at = push.at /\ push'.thread = push.thread
    BY <1>2, <2>3, <2>4, PushWrites
  <2>6. Posts /\ Rests /\ Entries'
    BY <2>1, <2>5 DEF Posts, Rests, WireInv, Entries
  <2>7. log' \in 0..MaxContent /\ entry' \in EntryType
    BY <1>1, <2>1 DEF WireInv, WireKinds
  <2> QED BY <1>1, <2>2, <2>5, <2>6, <2>7, WorkerStep
<1>4. CASE ~staging[entry.content].made
  BY <1>1, <1>2, <1>4, FailureKeeps DEF SendChunk, Stages
<1> QED BY <1>3, <1>4

\* A call or its answer is lost.
LEMMA LostKeeps ==
    ASSUME WireInv, NEW arrived \in BOOLEAN,
           BeginLost(arrived) \/ \E c \in Chunk : ChunkLost(c, arrived)
    PROVE  WireInv' /\ Simulates
<1>1. push.at # "idle" /\ Failed /\ UNCHANGED <<log, inbox, dedup, ends, placed, discarded>>
  BY DEF BeginLost, ChunkLost, history
<1>2. entry.content \in Content /\ staging \in [Content -> StagingType]
  BY <1>1, PushedVersion DEF WireInv, WireKinds
<1>3. staging' \in [Content -> StagingType] /\ Stages
  <2>1. CASE staging' = staging
    BY <1>2, <2>1 DEF Stages
  <2>2. CASE staging' = Staged(entry.content)
    BY <1>2, <2>2, StagedDir
  <2>3. ASSUME NEW c \in Chunk, staging' = Written(entry.content, c)
        PROVE  staging' \in [Content -> StagingType] /\ Stages
    BY <1>2, <2>3, ChunkWrite DEF Written
  <2> QED BY <2>1, <2>2, <2>3 DEF BeginLost, ChunkLost
<1> QED BY <1>1, <1>3, FailureKeeps

-------------------------------------------------------------------------------
(* transfer_end. *)

\* What holds while thread e is at work.
LEMMA AtWork ==
    ASSUME WireInv, NEW e \in Thread, Running(e)
    PROVE  /\ entry.content \in Content /\ ends[e].content = entry.content
           /\ push.at # "send" /\ (push.at = "await" => push.thread = e)
           /\ \A f \in Thread : f # e => ~Running(f)
           /\ ends[e].at \notin {"mark", "announce", "remove"} => staging[entry.content].made
<1>1. entry.content # 0 => entry.content \in Content
  BY DEF WireInv, WireKinds, EntryType, Content, WireConstants
<1> QED BY <1>1 DEF WireInv, OneEnd, Undisturbed

\* A step of thread e, by what it leaves behind.
Leaves(e) ==
    LET v == entry.content
        s == ends'[e].at
    IN
    /\ s # "idle" /\ (s # "replied" => ends'[e].content = v)
    /\ s \notin {"mark", "announce", "remove", "replied"} => staging'[v].made
    /\ s \in {"replace", "rename"} => staging'[v].outMade /\ staging'[v].out = Chunk
    /\ s = "rename" => inbox' = NoInbox
    /\ s \in {"receipt", "index", "clean", "mark", "announce", "remove"} => v \in Kept'
    /\ s \in {"clean", "mark", "announce", "remove"} => dedup' = v
    /\ s = "replied" /\ ends'[e].ok => v \in Kept' /\ dedup' = v

\* A step of transfer_end after which the facts of its new stage hold
LEMMA EndTurn ==
    ASSUME WireInv, NEW e \in Thread, Running(e), UNCHANGED <<log, entry, push>>, Leaves(e),
           ends' \in [Thread -> EndType], \A f \in Thread : f # e => ends'[f] = ends[f],
           staging' \in [Content -> StagingType], inbox' \in InboxType,
           inbox'.hasFiles => inbox'.content # 0, dedup' \in 0..MaxContent,
           placed' \subseteq Content, discarded' \subseteq Content, IndexIsTrue'
    PROVE  WireInv'
<1>1. WireKinds'
  BY DEF WireInv, WireKinds, WireConstants, EntryType, PushType, StagingType, InboxType, EndType,
     Content
<1>2. Entries'
  BY DEF WireInv, Entries
<1>3. /\ entry.content \in Content /\ push.at # "send" /\ (push.at = "await" => push.thread = e)
      /\ \A f \in Thread : f # e => ~Running(f)
  BY AtWork
<1>4. \A f \in Thread : f # e => ~Running(f)' /\ ends'[f].at \in {"idle", "replied"}
  BY <1>3 DEF Running
<1>5. ends'[e].at = "replied" \/ (Running(e)' /\ ends'[e].content = entry.content)
  BY DEF Leaves, Running
<1>6. Running(e)' => ends'[e].at # "replied"
  BY DEF Running
<1>7. entry.content # 0
  BY <1>3 DEF Content
<1>8. OneEnd'
  BY <1>3, <1>4, <1>5, <1>6, <1>7 DEF OneEnd
<1>9. Undisturbed'
  <2>1. push'.at # "send"
    BY <1>3
  <2>2. \A f \in Thread :
            Running(f)' /\ ends'[f].at \notin {"mark", "announce", "remove"} => staging'[entry'.content].made
    BY <1>4, <1>6 DEF Leaves
  <2>3. \A f \in Thread : ends'[f].at \in {"replace", "rename"} =>
           staging'[entry'.content].outMade /\ staging'[entry'.content].out = Chunk
    BY <1>4 DEF Leaves
  <2>4. \A f \in Thread : ends'[f].at = "rename" => inbox' = NoInbox
    BY <1>4 DEF Leaves
  <2> QED BY <2>1, <2>2, <2>3, <2>4 DEF Undisturbed
<1>10. Landed'
  BY <1>4 DEF Leaves, Landed
<1>11. Awaited'
  BY <1>3 DEF Leaves, Awaited
<1> QED BY <1>1, <1>2, <1>8, <1>9, <1>10, <1>11 DEF WireInv

\* The files are compared with the plan and with the manifest.
LEMMA CheckKeeps ==
    ASSUME WireInv, NEW e \in Thread, EndOpen(e) \/ EndAssemble(e) \/ EndVerify(e)
    PROVE  WireInv' /\ Simulates
<1> DEFINE v == entry.content
<1>1. /\ ends[e].at \in {"open", "assemble", "verify"}
      /\ UNCHANGED <<log, entry, push, inbox, dedup, placed, discarded>>
  BY DEF EndOpen, EndAssemble, EndVerify, worker, history
<1>2. Running(e) /\ ends[e].at \notin {"mark", "announce", "remove"}
  BY <1>1 DEF Running
<1>3. v \in Content /\ ends[e].content = v /\ staging[v].made
  BY <1>2, AtWork
<1>4. /\ ends \in [Thread -> EndType] /\ staging \in [Content -> StagingType] /\ inbox \in InboxType
      /\ dedup \in 0..MaxContent /\ placed \subseteq Content /\ discarded \subseteq Content
      /\ inbox.hasFiles => inbox.content # 0
  BY DEF WireInv, WireKinds
<1>5. /\ staging' \in [Content -> StagingType] /\ staging'[v].made
      /\ \/ \E s \in {"assemble", "verify"} : EndAt(e, s)
         \/ EndAt(e, "replace") /\ staging'[v].outMade /\ staging'[v].out = Chunk
         \/ Answer(e, FALSE)
  <2>1. CASE EndOpen(e)
    <3>1. staging' = [staging EXCEPT ![v].outMade = TRUE, ![v].out = {}] /\ EndAt(e, "assemble")
      BY <1>3, <2>1 DEF EndOpen
    <3>2. {} \in SUBSET Chunk
      OBVIOUS
    <3> QED BY <1>3, <1>4, <3>1, <3>2, OutWrite
  <2>2. CASE EndAssemble(e)
    <3>1. CASE Assembled(v)
      <4>1. PICK out \in SUBSET Chunk : staging' = [staging EXCEPT ![v].outMade = TRUE, ![v].out = out]
        BY <1>3, <2>2, <3>1 DEF EndAssemble
      <4>2. EndAt(e, "verify")
        BY <1>3, <2>2, <3>1 DEF EndAssemble
      <4> QED BY <1>3, <1>4, <4>1, <4>2, OutWrite
    <3>2. CASE ~Assembled(v)
      BY <1>3, <1>4, <2>2, <3>2 DEF EndAssemble
    <3> QED BY <3>1, <3>2
  <2>3. CASE EndVerify(e)
    BY <1>3, <1>4, <2>3 DEF EndVerify, Verified
  <2> QED BY <2>1, <2>2, <2>3
<1>6. /\ ends' \in [Thread -> EndType] /\ \A f \in Thread : f # e => ends'[f] = ends[f]
      /\ \/ ends'[e].at \in {"assemble", "verify"} /\ ends'[e].content = v
         \/ ends'[e].at = "replace" /\ ends'[e].content = v /\ staging'[v].outMade /\ staging'[v].out = Chunk
         \/ ends'[e].at = "replied" /\ ~ends'[e].ok
  <2>1. {"assemble", "verify", "replace"} \subseteq EndStage /\ FALSE \in BOOLEAN
    BY DEF EndStage
  <2>2. ASSUME NEW s \in {"assemble", "verify"}, EndAt(e, s)
        PROVE  /\ ends' \in [Thread -> EndType] /\ \A f \in Thread : f # e => ends'[f] = ends[f]
               /\ ends'[e].at = s /\ ends'[e].content = v
    BY <1>3, <1>4, <2>1, <2>2, EndWrites
  <2>3. ASSUME EndAt(e, "replace")
        PROVE  /\ ends' \in [Thread -> EndType] /\ \A f \in Thread : f # e => ends'[f] = ends[f]
               /\ ends'[e].at = "replace" /\ ends'[e].content = v
    BY <1>3, <1>4, <2>1, <2>3, EndWrites
  <2>4. ASSUME Answer(e, FALSE)
        PROVE  /\ ends' \in [Thread -> EndType] /\ \A f \in Thread : f # e => ends'[f] = ends[f]
               /\ ends'[e].at = "replied" /\ ends'[e].ok = FALSE
    BY <1>4, <2>1, <2>4, EndWrites
  <2> QED BY <1>5, <2>2, <2>3, <2>4
<1>7. Kept' = Kept
  BY <1>1 DEF Kept, Whole
<1>8. IndexIsTrue'
  BY <1>1, <1>7 DEF WireInv, IndexIsTrue
<1>9. Leaves(e)
  BY <1>5, <1>6 DEF Leaves
<1>10. WireInv'
  BY <1>1, <1>2, <1>4, <1>5, <1>6, <1>8, <1>9, EndTurn
<1> QED BY <1>1, <1>7, <1>10, PostStep DEF Posts

\* What every step of thread e has at hand.
LEMMA EndFacts ==
    ASSUME WireInv, NEW e \in Thread, Running(e)
    PROVE  /\ ends \in [Thread -> EndType] /\ staging \in [Content -> StagingType] /\ inbox \in InboxType
           /\ dedup \in 0..MaxContent /\ placed \subseteq Content /\ discarded \subseteq Content
           /\ inbox.hasFiles => inbox.content # 0
           /\ entry.content \in Content /\ entry.content \in 0..MaxContent /\ entry.content # 0
           /\ ends[e].content = entry.content
           /\ NoInbox \in InboxType /\ ~NoInbox.hasFiles /\ NoInbox.receipt = 0
<1>1. NoInbox \in InboxType /\ ~NoInbox.hasFiles /\ NoInbox.receipt = 0
  BY DEF WireInv, WireKinds, WireConstants, NoInbox, InboxType
<1>2. entry.content \in Content /\ ends[e].content = entry.content
  BY AtWork
<1>3. entry.content \in 0..MaxContent /\ entry.content # 0
  BY <1>2 DEF Content, WireInv, WireKinds, WireConstants
<1> QED BY <1>1, <1>2, <1>3 DEF WireInv, WireKinds

\* Thread e goes on.
LEMMA EndGoes ==
    ASSUME WireInv, NEW e \in Thread, Running(e), NEW s \in EndStage, EndAt(e, s)
    PROVE  /\ ends' \in [Thread -> EndType] /\ \A f \in Thread : f # e => ends'[f] = ends[f]
           /\ ends'[e].at = s /\ ends'[e].content = entry.content
<1>1. ends \in [Thread -> EndType] /\ ends[e].content = entry.content /\ FALSE \in BOOLEAN
  BY EndFacts
<1> QED BY <1>1, EndWrites

\* Thread e answers.
LEMMA EndReplies ==
    ASSUME WireInv, NEW e \in Thread, Running(e), NEW ok \in BOOLEAN, Answer(e, ok)
    PROVE  /\ ends' \in [Thread -> EndType] /\ \A f \in Thread : f # e => ends'[f] = ends[f]
           /\ ends'[e].at = "replied" /\ ends'[e].ok = ok
<1>1. ends \in [Thread -> EndType] /\ "idle" \in EndStage
  BY EndFacts DEF EndStage
<1> QED BY <1>1, EndWrites

\* The inbox is emptied: a version may go, while the outbox has one.
LEMMA EndReplaceKeeps ==
    ASSUME WireInv, NEW e \in Thread, EndReplace(e)
    PROVE  WireInv' /\ Simulates
<1>1. /\ ends[e].at = "replace" /\ inbox' = NoInbox /\ EndAt(e, "rename") /\ "rename" \in EndStage
      /\ UNCHANGED <<log, entry, push, staging, dedup, placed, discarded>>
  BY DEF EndReplace, worker, history, EndStage
<1>2. Running(e)
  BY <1>1 DEF Running
<1>3. /\ ends' \in [Thread -> EndType] /\ \A f \in Thread : f # e => ends'[f] = ends[f]
      /\ ends'[e].at = "rename" /\ ends'[e].content = entry.content
  BY <1>1, <1>2, EndGoes
<1>4. staging[entry.content].made /\ staging[entry.content].outMade /\ staging[entry.content].out = Chunk
  BY <1>1, <1>2 DEF WireInv, Undisturbed
<1>5. Leaves(e)
  BY <1>1, <1>3, <1>4 DEF Leaves
<1>6. IndexIsTrue'
  BY <1>1, <1>2, EndFacts DEF IndexIsTrue
<1>7. WireInv'
  BY <1>1, <1>2, <1>3, <1>5, <1>6, EndFacts, EndTurn
<1>8. PICK S \in SUBSET Content : Kept' = Kept \ S
  <2>1. Kept' = placed \cup discarded
    BY <1>1, <1>2, EndFacts DEF Kept, Whole
  <2>2. Kept \subseteq Content
    BY <1>2, EndFacts DEF Kept, Whole, Content, InboxType
  <2>3. Kept' = Kept \ (Kept \ Kept') /\ Kept \ Kept' \in SUBSET Content
    BY <2>1, <2>2 DEF Kept
  <2> QED BY <2>3
<1> QED BY <1>1, <1>2, <1>7, <1>8, EndFacts, ReplaceStep

\* The rename: the version arrives.
LEMMA EndRenameKeeps ==
    ASSUME WireInv, NEW e \in Thread, EndRename(e)
    PROVE  WireInv' /\ Simulates
<1> DEFINE v == entry.content
<1>1. ends[e].at = "rename" /\ UNCHANGED <<log, entry, push, dedup, placed, discarded>> /\ "receipt" \in EndStage
  BY DEF EndRename, worker, history, EndStage
<1>2. Running(e)
  BY <1>1 DEF Running
<1>3. staging[v].made /\ staging[v].outMade /\ staging[v].out = Chunk /\ inbox = NoInbox
  BY <1>1, <1>2 DEF WireInv, Undisturbed
<1>4. ends[e].content = v /\ v \in Content /\ v \in 0..MaxContent /\ v # 0
  BY <1>2, EndFacts
<1>5. /\ inbox' = [made |-> TRUE, content |-> v, hasFiles |-> TRUE, files |-> Chunk, receipt |-> 0]
      /\ staging' = [staging EXCEPT ![v].outMade = FALSE, ![v].out = {}]
      /\ EndAt(e, "receipt")
  BY <1>3, <1>4 DEF EndRename
<1>6. /\ inbox' \in InboxType /\ inbox'.hasFiles /\ inbox'.files = Chunk /\ inbox'.content = v
      /\ inbox'.receipt = 0
  <2>1. 0 \in 0..MaxContent
    BY DEF WireInv, WireKinds, WireConstants
  <2> QED BY <1>4, <1>5, <2>1 DEF InboxType
<1>7. staging' \in [Content -> StagingType] /\ \A w \in Content : staging'[w].made = staging[w].made
  <2>1. staging \in [Content -> StagingType] /\ {} \in SUBSET Chunk /\ FALSE \in BOOLEAN
    BY <1>2, EndFacts
  <2> QED BY <1>4, <1>5, <2>1, OutWrite
<1>8. Kept' = Kept \cup {v}
  <2>1. Whole' /\ ~Whole
    BY <1>2, <1>3, <1>6, EndFacts DEF Whole
  <2> QED BY <1>1, <1>6, <2>1 DEF Kept
<1>9. /\ ends' \in [Thread -> EndType] /\ \A f \in Thread : f # e => ends'[f] = ends[f]
      /\ ends'[e].at = "receipt" /\ ends'[e].content = entry.content
  BY <1>1, <1>2, <1>5, EndGoes
<1>10. Leaves(e)
  BY <1>3, <1>4, <1>7, <1>8, <1>9 DEF Leaves
<1>11. IndexIsTrue'
  BY <1>6 DEF IndexIsTrue
<1>12. WireInv'
  BY <1>1, <1>2, <1>4, <1>6, <1>7, <1>9, <1>10, <1>11, EndFacts, EndTurn
<1> QED BY <1>1, <1>4, <1>8, <1>12, ArriveStep

\* Receipt, index, removal of the staging directory and marker follow.
LEMMA EndTailKeeps ==
    ASSUME WireInv, NEW e \in Thread, EndReceipt(e) \/ EndIndex(e) \/ EndClean(e) \/ EndMark(e)
    PROVE  WireInv' /\ Simulates
<1> DEFINE v == entry.content
<1>1. /\ ends[e].at \in {"receipt", "index", "clean", "mark"}
      /\ UNCHANGED <<log, entry, push, placed, discarded>>
  BY DEF EndReceipt, EndIndex, EndClean, EndMark, worker, history
<1>2. Running(e)
  BY <1>1 DEF Running
<1>3. ends[e].content = v /\ v \in Content /\ v \in 0..MaxContent /\ v # 0 /\ v \in Kept
  BY <1>1, <1>2, EndFacts DEF WireInv, Landed
<1>4. {"index", "clean", "mark", "announce", "remove"} \subseteq EndStage
  BY DEF EndStage
<1>5. CASE EndReceipt(e)
  <2>1. /\ inbox' = [inbox EXCEPT !.made = TRUE, !.receipt = v] /\ EndAt(e, "index")
        /\ UNCHANGED <<staging, dedup>> /\ ends[e].at = "receipt"
    BY <1>3, <1>5 DEF EndReceipt
  <2>2. /\ inbox' \in InboxType /\ inbox'.hasFiles = inbox.hasFiles /\ inbox'.files = inbox.files
        /\ inbox'.content = inbox.content /\ inbox'.receipt = v
    BY <1>2, <1>3, <2>1, EndFacts DEF InboxType
  <2>3. Kept' = Kept
    BY <1>1, <2>2 DEF Kept, Whole
  <2>4. /\ ends' \in [Thread -> EndType] /\ \A f \in Thread : f # e => ends'[f] = ends[f]
        /\ ends'[e].at = "index" /\ ends'[e].content = entry.content
    BY <1>2, <1>4, <2>1, EndGoes
  <2>5. staging[v].made
    BY <1>2, <2>1, AtWork
  <2>6. Leaves(e)
    BY <1>3, <2>1, <2>3, <2>4, <2>5 DEF Leaves
  <2>7. IndexIsTrue'
    BY <1>1, <1>3, <2>1, <2>3 DEF IndexIsTrue
  <2>8. WireInv'
    BY <1>1, <1>2, <2>1, <2>2, <2>4, <2>6, <2>7, EndFacts, EndTurn
  <2> QED BY <1>1, <2>3, <2>8, PostStep DEF Posts
<1>6. CASE EndIndex(e)
  <2>1. dedup' = v /\ EndAt(e, "clean") /\ UNCHANGED <<staging, inbox>> /\ ends[e].at = "index"
    BY <1>3, <1>6 DEF EndIndex
  <2>2. Kept' = Kept
    BY <1>1, <2>1 DEF Kept, Whole
  <2>3. /\ ends' \in [Thread -> EndType] /\ \A f \in Thread : f # e => ends'[f] = ends[f]
        /\ ends'[e].at = "clean" /\ ends'[e].content = entry.content
    BY <1>2, <1>4, <2>1, EndGoes
  <2>4. staging[v].made
    BY <1>2, <2>1, AtWork
  <2>5. Leaves(e)
    BY <1>3, <2>1, <2>2, <2>3, <2>4 DEF Leaves
  <2>6. IndexIsTrue'
    BY <1>3, <2>1, <2>2 DEF IndexIsTrue
  <2>7. WireInv'
    BY <1>1, <1>2, <1>3, <2>1, <2>3, <2>5, <2>6, EndFacts, EndTurn
  <2> QED BY <1>1, <2>2, <2>7, PostStep DEF Posts
<1>7. CASE EndClean(e) \/ EndMark(e)
  <2>1. /\ UNCHANGED <<inbox, dedup>> /\ ends[e].at \in {"clean", "mark"}
        /\ \E s \in {"mark", "announce", "remove"} : EndAt(e, s)
    BY <1>7 DEF EndClean, EndMark
  <2>2. Kept' = Kept
    BY <1>1, <2>1 DEF Kept, Whole
  <2>3. /\ ends' \in [Thread -> EndType] /\ \A f \in Thread : f # e => ends'[f] = ends[f]
        /\ ends'[e].at \in {"mark", "announce", "remove"} /\ ends'[e].content = entry.content
    BY <1>2, <1>4, <2>1, EndGoes
  <2>4. dedup = v
    BY <2>1 DEF WireInv, Landed
  <2>5. Leaves(e)
    BY <1>3, <2>1, <2>2, <2>3, <2>4 DEF Leaves
  <2>6. IndexIsTrue'
    BY <1>3, <2>1, <2>2, <2>4 DEF IndexIsTrue
  <2>7. staging' \in [Content -> StagingType]
    <3>1. staging \in [Content -> StagingType]
      BY <1>2, EndFacts
    <3>2. staging' = staging \/ staging' = [staging EXCEPT ![v] = NoStaging]
      BY <1>3, <1>7 DEF EndClean, EndMark
    <3> QED BY <1>3, <3>1, <3>2, StagingGone
  <2>8. WireInv'
    BY <1>1, <1>2, <2>1, <2>3, <2>5, <2>6, <2>7, EndFacts, EndTurn
  <2> QED BY <1>1, <2>2, <2>8, PostStep DEF Posts
<1> QED BY <1>5, <1>6, <1>7

\* on_landed copies, or there is no dossier.
LEMMA EndAnnounceKeeps ==
    ASSUME WireInv, NEW e \in Thread, EndAnnounce(e)
    PROVE  WireInv' /\ Simulates
<1> DEFINE v == entry.content
<1>1. /\ ends[e].at = "announce" /\ TRUE \in BOOLEAN
      /\ UNCHANGED <<log, entry, push, staging, inbox, dedup, discarded>>
      /\ Copied \/ UNCHANGED placed
      /\ Answer(e, TRUE) \/ ends' = [ends EXCEPT ![e].at = "remove", ![e].of = Taken]
  BY DEF EndAnnounce, worker, history
<1>2. Running(e)
  BY <1>1 DEF Running
<1>3. WireKinds
  BY DEF WireInv
<1>4. placed' \subseteq Content /\ Kept' = Kept
  <2>1. CASE Copied
    BY <1>1, <1>3, <2>1, CopyKeeps
  <2>2. CASE UNCHANGED placed
    BY <1>1, <1>3, <2>2 DEF Kept, Whole, WireKinds
  <2> QED BY <1>1, <2>1, <2>2
<1>5. /\ ends' \in [Thread -> EndType] /\ \A f \in Thread : f # e => ends'[f] = ends[f]
      /\ \/ ends'[e].at = "replied" /\ ends'[e].ok = TRUE
         \/ ends'[e].at = "remove" /\ ends'[e].content = v
  <2>1. CASE Answer(e, TRUE)
    BY <1>1, <1>2, <2>1, EndReplies
  <2>2. CASE ends' = [ends EXCEPT ![e].at = "remove", ![e].of = Taken]
    <3>1. Taken \in 0..MaxContent
      BY <1>3 DEF Taken, WireKinds, WireConstants, InboxType
    <3>2. ends \in [Thread -> EndType] /\ ends[e].content = v /\ "remove" \in EndStage
      BY <1>2, EndFacts DEF EndStage
    <3> QED BY <2>2, <3>1, <3>2 DEF EndType
  <2> QED BY <1>1, <2>1, <2>2
<1>6. v \in Kept /\ dedup = v
  BY <1>1 DEF WireInv, Landed
<1>7. Leaves(e)
  BY <1>1, <1>4, <1>5, <1>6 DEF Leaves
<1>8. IndexIsTrue'
  BY <1>1, <1>4, <1>6 DEF IndexIsTrue
<1>9. WireInv'
  BY <1>1, <1>2, <1>3, <1>4, <1>5, <1>7, <1>8, EndTurn DEF WireKinds
<1> QED BY <1>1, <1>4, <1>9, PostStep DEF Posts

\* The inbox directory is removed, and transfer_end answers.
LEMMA EndRemoveKeeps ==
    ASSUME WireInv, Copies, NEW e \in Thread, EndRemove(e), crossed' = FALSE
    PROVE  WireInv' /\ Simulates
<1> DEFINE v == entry.content
<1>1. /\ ends[e].at = "remove" /\ Answer(e, TRUE) /\ TRUE \in BOOLEAN /\ RemoveInbox(ends[e].of)
      /\ UNCHANGED <<log, entry, push, staging, dedup, placed, discarded>>
  BY DEF EndRemove, worker
<1>2. Running(e)
  BY <1>1 DEF Running
<1>3. WireKinds /\ ends[e].of \in InDossier
  BY DEF WireInv, Copies
<1>4. inbox' \in InboxType /\ Kept' = Kept /\ ~inbox'.hasFiles /\ inbox'.receipt = 0
  BY <1>1, <1>3, RemoveKeeps
<1>5. /\ ends' \in [Thread -> EndType] /\ \A f \in Thread : f # e => ends'[f] = ends[f]
      /\ ends'[e].at = "replied" /\ ends'[e].ok = TRUE
  BY <1>1, <1>2, EndReplies
<1>6. v \in Kept /\ dedup = v
  BY <1>1 DEF WireInv, Landed
<1>7. Leaves(e)
  BY <1>1, <1>4, <1>5, <1>6 DEF Leaves
<1>8. IndexIsTrue'
  BY <1>4 DEF IndexIsTrue
<1>9. WireInv'
  BY <1>1, <1>2, <1>3, <1>4, <1>5, <1>7, <1>8, EndTurn DEF WireKinds
<1> QED BY <1>1, <1>4, <1>9, PostStep DEF Posts

-------------------------------------------------------------------------------
(* The calls and their answers. *)

\* A confirmed push deletes the entry: the promise is kept by what the master has.
LEMMA DeliveredKeeps ==
    ASSUME WireInv, Delivered, entry.content \in Kept, dedup = entry.content,
           \A e \in Thread : ~Running(e)', ends' \in [Thread -> EndType],
           UNCHANGED <<log, staging, inbox, dedup, placed, discarded>>
    PROVE  WireInv' /\ Simulates
<1>1. entry' \in EntryType /\ entry'.state = "none" /\ entry'.content = 0
  BY EntryWrites DEF Delivered, WireInv, WireKinds
<1>2. push' \in PushType /\ push'.at = "idle"
  BY PushWrites DEF Delivered, WireInv, WireKinds
<1>3. Kept' = Kept
  BY DEF Kept, Whole
<1>4. WireKinds'
  BY <1>1, <1>2 DEF WireInv, WireKinds, WireConstants, EntryType, PushType, StagingType, InboxType,
     EndType, Content
<1>5. Entries' /\ OneEnd'
  BY <1>1, <1>2 DEF Entries, OneEnd
<1>6. \A e \in Thread : ends'[e].at \in {"idle", "replied"}
  BY DEF Running
<1>7. Undisturbed' /\ Landed' /\ Awaited'
  BY <1>2, <1>6 DEF Undisturbed, Landed, Awaited
<1>8. IndexIsTrue'
  BY <1>3 DEF IndexIsTrue
<1> QED BY <1>1, <1>3, <1>4, <1>5, <1>7, <1>8, ClearStep DEF WireInv

\* transfer_begin: the index says that the version is there, or it is staged.
LEMMA BeginKeeps ==
    ASSUME WireInv, Begin, crossed' = FALSE
    PROVE  WireInv' /\ Simulates
<1> DEFINE v == entry.content
<1>1. /\ push.at = "begin" /\ UNCHANGED <<log, inbox, dedup, ends, placed, discarded>>
  BY DEF Begin
<1>2. Overlap => \A e \in Thread : ~Running(e)
  BY DEF Overlap, EndRunning, Running
<1>3. v \in Content /\ v # 0 /\ entry.state = "pushing" /\ staging \in [Content -> StagingType]
      /\ entry \in EntryType /\ push \in PushType /\ WireConstants /\ log \in 0..MaxContent
  <2>1. v \in Content /\ entry.state = "pushing"
    BY <1>1, PushedVersion
  <2> QED BY <2>1 DEF WireInv, WireKinds, Content
<1>4. CASE entry' = [entry EXCEPT !.state = "over_limit"] /\ push' = IdlePush /\ UNCHANGED staging
  <2>1. "over_limit" \in EntryState
    BY DEF EntryState
  <2>2. entry' \in EntryType /\ entry'.state = "over_limit" /\ entry'.content = entry.content
    BY <1>3, <1>4, <2>1, EntryWrites
  <2>3. push' \in PushType /\ push'.at = "idle"
    BY <1>3, <1>4, PushWrites
  <2>4. Entries' /\ Posts /\ Rests /\ Stages
    BY <1>3, <1>4, <2>2, <2>3 DEF Entries, Posts, Rests, Stages
  <2> QED BY <1>1, <1>3, <1>4, <2>2, <2>3, <2>4, WorkerStep
<1>5. CASE Overlap /\ Duplicate(v) /\ Delivered /\ UNCHANGED staging
  <2>1. dedup = v /\ inbox.receipt # 0
    BY <1>5 DEF Duplicate
  <2>2. v \in Kept
    BY <1>3, <2>1 DEF WireInv, IndexIsTrue
  <2>3. \A e \in Thread : ~Running(e)'
    BY <1>1, <1>2, <1>5 DEF Running
  <2>4. ends' \in [Thread -> EndType]
    BY <1>1 DEF WireInv, WireKinds
  <2> QED BY <1>1, <1>5, <2>1, <2>2, <2>3, <2>4, DeliveredKeeps
<1>6. CASE /\ Overlap /\ staging' = Staged(v) /\ push' = [push EXCEPT !.at = "send", !.have = Received(v)]
           /\ entry' = entry
  <2>1. staging' \in [Content -> StagingType] /\ staging'[v].made /\ Stages
    BY <1>3, <1>6, StagedDir
  <2>2. Received(v) \in SUBSET Chunk
    BY DEF Received
  <2>3. push' \in PushType /\ push'.at = "send"
    BY <1>3, <1>6, <2>2, PushWrites
  <2>4. Kept' = Kept
    BY <1>1 DEF Kept, Whole
  <2>5. WireKinds'
    BY <1>1, <1>6, <2>1, <2>3 DEF WireInv, WireKinds, WireConstants, EntryType, PushType,
       StagingType, InboxType, EndType, Content
  <2>6. Entries'
    BY <1>1, <1>3, <1>6, <2>3 DEF WireInv, Entries
  <2>7. OneEnd'
    BY <1>1, <1>2, <1>6 DEF OneEnd, Running
  <2>8. \A e \in Thread : ends'[e].at \in {"idle", "replied"}
    BY <1>1, <1>2, <1>6 DEF Running
  <2>9. Undisturbed' /\ Landed' /\ Awaited'
    BY <1>6, <2>1, <2>3, <2>8 DEF Undisturbed, Landed, Awaited, Running
  <2>10. IndexIsTrue'
    BY <1>1, <1>6, <2>4 DEF WireInv, IndexIsTrue
  <2> QED BY <1>6, <2>4, <2>5, <2>6, <2>7, <2>9, <2>10, PostStep DEF WireInv, Posts
<1> QED BY <1>4, <1>5, <1>6 DEF Begin

\* transfer_end is called.
LEMMA CallEndKeeps ==
    ASSUME WireInv, NEW e \in Thread, CallEnd(e)
    PROVE  WireInv' /\ Simulates
<1> DEFINE v == entry.content
<1>1. /\ push.at = "send" /\ ends[e].at = "idle"
      /\ ends' = [ends EXCEPT ![e] = [at |-> "open", content |-> v, ok |-> FALSE, of |-> 0]]
      /\ push' = [push EXCEPT !.at = "await", !.thread = e]
      /\ UNCHANGED <<log, entry, staging, inbox, dedup, placed, discarded>>
  BY DEF CallEnd, history
<1>2. /\ v \in Content /\ v # 0 /\ entry.state = "pushing" /\ v \in 0..MaxContent
      /\ ends \in [Thread -> EndType] /\ push \in PushType
  <2>1. v \in Content /\ entry.state = "pushing"
    BY <1>1, PushedVersion
  <2> QED BY <2>1 DEF WireInv, WireKinds, Content, EntryType
<1>3. /\ ends' \in [Thread -> EndType] /\ \A f \in Thread : f # e => ends'[f] = ends[f]
      /\ ends'[e].at = "open" /\ ends'[e].content = v
  <2>1. 0 \in 0..MaxContent
    BY DEF WireInv, WireKinds, WireConstants
  <2> QED BY <1>1, <1>2, <2>1 DEF EndType, EndStage
<1>4. push' \in PushType /\ push'.at = "await" /\ push'.thread = e
  BY <1>1, <1>2, PushWrites
<1>5. \A f \in Thread : ~Running(f)
  BY <1>1 DEF WireInv, OneEnd
<1>6. \A f \in Thread : f # e => ends'[f].at \in {"idle", "replied"} /\ ~Running(f)'
  BY <1>3, <1>5 DEF Running
<1>7. staging[v].made
  BY <1>1 DEF WireInv, Undisturbed
<1>8. Kept' = Kept
  BY <1>1 DEF Kept, Whole
<1>9. WireKinds'
  BY <1>1, <1>3, <1>4 DEF WireInv, WireKinds, WireConstants, EntryType, PushType, StagingType,
     InboxType, EndType, Content
<1>10. Entries'
  BY <1>1, <1>4 DEF WireInv, Entries
<1>11. OneEnd'
  BY <1>1, <1>2, <1>3, <1>4, <1>6 DEF OneEnd
<1>12. Undisturbed' /\ Landed'
  BY <1>1, <1>3, <1>4, <1>6, <1>7 DEF Undisturbed, Landed
<1>13. Awaited'
  BY <1>3, <1>4 DEF Awaited
<1>14. IndexIsTrue'
  BY <1>1, <1>8 DEF WireInv, IndexIsTrue
<1> QED BY <1>1, <1>8, <1>9, <1>10, <1>11, <1>12, <1>13, <1>14, PostStep DEF WireInv, Posts

\* A thread becomes idle that was not at work; nobody waits for it any more.
LEMMA EndIdles ==
    ASSUME WireInv, NEW e \in Thread, ends' = [ends EXCEPT ![e] = IdleEnd]
    PROVE  /\ ends' \in [Thread -> EndType] /\ ends'[e].at = "idle"
           /\ \A f \in Thread : f # e => ends'[f] = ends[f]
<1>1. IdleEnd \in EndType /\ IdleEnd.at = "idle"
  BY DEF IdleEnd, EndType, EndStage, WireInv, WireKinds, WireConstants
<1> QED BY <1>1 DEF WireInv, WireKinds

\* A thread is through, or was never reached: the worker goes on without it.
LEMMA ThreadsRest ==
    ASSUME WireInv, ends' \in [Thread -> EndType],
           \A f \in Thread : ends'[f] = ends[f] \/ ends'[f].at = "idle",
           push'.at # "send", push'.at = "await" => push' = push /\ ends'[push.thread] = ends[push.thread],
           log' \in 0..MaxContent, entry' \in EntryType, push' \in PushType, Entries',
           staging' \in [Content -> StagingType], Stages, entry'.content = entry.content,
           UNCHANGED <<inbox, dedup, placed, discarded>>
    PROVE  WireInv' /\ Simulates
<1>1. Kept' = Kept
  BY DEF Kept, Whole
<1>2. WireKinds'
  BY DEF WireInv, WireKinds, WireConstants, EntryType, PushType, StagingType, InboxType, EndType,
     Content
<1>3. \A f \in Thread : Running(f)' => Running(f) /\ ends'[f] = ends[f]
  BY DEF Running
<1>4. OneEnd'
  BY <1>3 DEF WireInv, OneEnd
<1>5. \A f \in Thread : Running(f)' => entry.content \in Content
  BY <1>3, AtWork
<1>6. \A f \in Thread : ends'[f].at \notin {"idle", "replied"} => Running(f)'
  BY DEF Running
<1>7. Undisturbed'
  <2>1. ASSUME NEW f \in Thread, Running(f)', ends'[f].at \notin {"mark", "announce", "remove"}
        PROVE  /\ staging'[entry'.content].made
               /\ ends'[f].at \in {"replace", "rename"} =>
                     staging'[entry'.content].outMade /\ staging'[entry'.content].out = Chunk
               /\ ends'[f].at = "rename" => inbox' = NoInbox
    BY <1>3, <1>5, <2>1 DEF WireInv, Undisturbed, Stages
  <2> QED BY <1>6, <2>1 DEF Undisturbed
<1>8. Landed'
  BY <1>1, <1>3, <1>6 DEF WireInv, Landed
<1>9. Awaited'
  BY <1>1 DEF WireInv, Awaited
<1>10. IndexIsTrue'
  BY <1>1 DEF WireInv, IndexIsTrue
<1> QED BY <1>1, <1>2, <1>4, <1>7, <1>8, <1>9, <1>10, PostStep DEF WireInv, Posts

\* The answer of transfer_end arrives.
LEMMA EndAnsweredKeeps ==
    ASSUME WireInv, NEW e \in Thread, EndAnswered(e)
    PROVE  WireInv' /\ Simulates
<1>1. /\ ends[e].at = "replied" /\ ends' = [ends EXCEPT ![e] = IdleEnd]
      /\ UNCHANGED <<log, staging, inbox, dedup, placed, discarded>>
  BY DEF EndAnswered
<1>2. /\ ends' \in [Thread -> EndType] /\ ends'[e].at = "idle"
      /\ \A f \in Thread : f # e => ends'[f] = ends[f]
  BY <1>1, EndIdles
<1>3. /\ log' \in 0..MaxContent /\ staging' \in [Content -> StagingType] /\ Stages
      /\ entry \in EntryType /\ push \in PushType /\ WireConstants /\ Entries
  BY <1>1 DEF WireInv, WireKinds, Stages
<1>4. CASE push.at = "await" /\ push.thread = e /\ ends[e].ok /\ Delivered
  <2>1. \A f \in Thread : ~Running(f)'
    BY <1>1, <1>2, <1>4 DEF WireInv, OneEnd, Running
  <2>2. entry.content \in Kept /\ dedup = entry.content
    BY <1>1, <1>4 DEF WireInv, Awaited
  <2> QED BY <1>1, <1>2, <1>4, <2>1, <2>2, DeliveredKeeps
<1>5. CASE push.at = "await" /\ push.thread = e /\ ~ends[e].ok /\ Failed
  <2>1. entry.state = "pushing" /\ entry.attempts < MaxAttempts
    BY <1>3, <1>5 DEF Entries
  <2>2. /\ entry' \in EntryType /\ entry'.state = "pending" /\ entry'.content = entry.content
        /\ push' \in PushType /\ push'.at = "idle"
    BY <1>3, <1>5, <2>1, FailedPush
  <2>3. Entries'
    BY <1>3, <2>1, <2>2 DEF Entries
  <2> QED BY <1>1, <1>2, <1>3, <2>2, <2>3, ThreadsRest
<1>6. CASE ~(push.at = "await" /\ push.thread = e) /\ UNCHANGED <<entry, push>>
  <2>1. CASE push.at = "send"
    <3>1. \A f \in Thread : ~Running(f) /\ ~Running(f)' /\ ends'[f].at \in {"idle", "replied"}
      BY <1>1, <1>2, <2>1 DEF WireInv, OneEnd, Running
    <3>2. Kept' = Kept
      BY <1>1 DEF Kept, Whole
    <3>3. WireKinds' /\ Entries'
      BY <1>1, <1>2, <1>6 DEF WireInv, WireKinds, WireConstants, EntryType, PushType, StagingType,
         InboxType, EndType, Content, Entries
    <3>4. OneEnd' /\ Undisturbed' /\ Landed' /\ Awaited'
      BY <1>1, <1>6, <2>1, <3>1 DEF WireInv, OneEnd, Undisturbed, Landed, Awaited
    <3>5. IndexIsTrue'
      BY <1>1, <1>6, <3>2 DEF WireInv, IndexIsTrue
    <3> QED BY <1>6, <3>2, <3>3, <3>4, <3>5, PostStep DEF WireInv, Posts
  <2>2. CASE push.at # "send"
    <3>1. push.at = "await" => push.thread \in Thread /\ push.thread # e
      BY <1>6 DEF WireInv, Awaited
    <3>2. Entries'
      BY <1>3, <1>6 DEF Entries
    <3> QED BY <1>1, <1>2, <1>3, <1>6, <2>2, <3>1, <3>2, ThreadsRest
  <2> QED BY <2>1, <2>2
<1> QED BY <1>4, <1>5, <1>6 DEF EndAnswered

\* The answer of transfer_end is lost.
LEMMA EndLostKeeps ==
    ASSUME WireInv, EndLost
    PROVE  WireInv' /\ Simulates
<1>1. /\ push.at = "await" /\ Failed
      /\ ends' = [ends EXCEPT ![push.thread] = IdleEnd] \/ UNCHANGED ends
      /\ UNCHANGED <<log, staging, inbox, dedup, placed, discarded>>
  BY DEF EndLost, history
<1>2. push.thread \in Thread /\ ends \in [Thread -> EndType]
  BY <1>1 DEF WireInv, WireKinds, Awaited
<1>3. /\ ends' \in [Thread -> EndType]
      /\ \A f \in Thread : ends'[f] = ends[f] \/ ends'[f].at = "idle"
  BY <1>1, <1>2, EndIdles
<1>4. /\ log' \in 0..MaxContent /\ staging' \in [Content -> StagingType] /\ Stages
      /\ entry \in EntryType /\ WireConstants /\ entry.state = "pushing" /\ entry.attempts < MaxAttempts
  BY <1>1 DEF WireInv, WireKinds, Stages, Entries
<1>5. /\ entry' \in EntryType /\ entry'.state = "pending" /\ entry'.content = entry.content
      /\ push' \in PushType /\ push'.at = "idle"
  BY <1>1, <1>4, FailedPush
<1>6. Entries'
  BY <1>4, <1>5 DEF WireInv, Entries
<1> QED BY <1>1, <1>3, <1>4, <1>5, <1>6, ThreadsRest

-------------------------------------------------------------------------------
(* The sweeps, the dossier and the restart of the master. *)

\* The sweep of the inbox copies what lies there ...
LEMMA SweepInboxKeeps ==
    ASSUME WireInv, SweepInbox
    PROVE  WireInv' /\ Simulates
<1>1. Copied /\ UNCHANGED <<log, entry, push, staging, inbox, dedup, ends, discarded>>
  BY DEF SweepInbox, worker, history
<1>2. placed' \subseteq Content /\ Kept' = Kept
  BY <1>1, CopyKeeps DEF WireInv
<1>3. WireKinds' /\ Entries'
  BY <1>1, <1>2 DEF WireInv, WireKinds, WireConstants, EntryType, PushType, StagingType, InboxType,
     EndType, Content, Entries
<1>4. OneEnd' /\ Undisturbed'
  BY <1>1, <1>2 DEF WireInv, OneEnd, Undisturbed, Running
<1>5. Landed' /\ Awaited'
  BY <1>1, <1>2 DEF WireInv, Landed, Awaited
<1>6. IndexIsTrue'
  BY <1>1, <1>2 DEF WireInv, IndexIsTrue
<1> QED BY <1>1, <1>2, <1>3, <1>4, <1>5, <1>6, PostStep DEF WireInv, Posts

\* ... and removes it.
LEMMA SweepRemoveKeeps ==
    ASSUME WireInv, Copies, SweepRemove, crossed' = FALSE
    PROVE  WireInv' /\ Simulates
<1>1. RemoveInbox(sweep.of) /\ UNCHANGED <<log, entry, push, staging, dedup, ends, placed, discarded>>
  BY DEF SweepRemove, worker
<1>2. inbox' \in InboxType /\ Kept' = Kept /\ inbox' = NoInbox /\ inbox'.receipt = 0 /\ ~inbox'.hasFiles
  BY <1>1, RemoveKeeps DEF WireInv, Copies
<1>3. WireKinds' /\ Entries'
  BY <1>1, <1>2 DEF WireInv, WireKinds, WireConstants, EntryType, PushType, StagingType, InboxType,
     EndType, Content, Entries
<1>4. OneEnd' /\ Undisturbed'
  BY <1>1, <1>2 DEF WireInv, OneEnd, Undisturbed, Running
<1>5. Landed' /\ Awaited'
  BY <1>1, <1>2 DEF WireInv, Landed, Awaited
<1>6. IndexIsTrue'
  BY <1>2 DEF IndexIsTrue
<1> QED BY <1>1, <1>2, <1>3, <1>4, <1>5, <1>6, PostStep DEF WireInv, Posts

\* A record is deleted from the dossier by hand.
LEMMA DiscardKeeps ==
    ASSUME WireInv, DiscardDossier
    PROVE  WireInv' /\ Simulates
<1>1. /\ placed' = {} /\ discarded' = discarded \cup placed
      /\ UNCHANGED <<log, entry, push, staging, inbox, dedup, ends>>
  BY DEF DiscardDossier, worker
<1>2. Kept' = Kept
  BY <1>1 DEF Kept, Whole
<1>3. WireKinds' /\ Entries'
  BY <1>1 DEF WireInv, WireKinds, WireConstants, EntryType, PushType, StagingType, InboxType,
     EndType, Content, Entries
<1>4. OneEnd' /\ Undisturbed'
  BY <1>1 DEF WireInv, OneEnd, Undisturbed, Running
<1>5. Landed' /\ Awaited'
  BY <1>1, <1>2 DEF WireInv, Landed, Awaited
<1>6. IndexIsTrue'
  BY <1>1, <1>2 DEF WireInv, IndexIsTrue
<1> QED BY <1>1, <1>2, <1>3, <1>4, <1>5, <1>6, PostStep DEF WireInv, Posts

\* The sweep of old staging directories
LEMMA SweepStagingKeeps ==
    ASSUME WireInv, NEW v \in Content, SweepStaging(v)
    PROVE  WireInv' /\ Simulates
<1>1. /\ staging' = [staging EXCEPT ![v] = NoStaging]
      /\ UNCHANGED <<log, entry, push, inbox, dedup, ends, placed, discarded>>
      /\ entry.content # v \/ entry.state \in {"dead", "over_limit"}
  BY DEF SweepStaging, worker, history
<1>2. \A e \in Thread : ~Running(e)
  BY DEF SweepStaging, EndRunning, Running
<1>3. staging' \in [Content -> StagingType] /\ \A w \in Content : w # v => staging'[w] = staging[w]
  BY <1>1, StagingGone DEF WireInv, WireKinds
<1>4. Kept' = Kept
  BY <1>1 DEF Kept, Whole
<1>5. push.at = "send" => staging'[entry.content].made
  <2>1. push.at = "send" => entry.content \in Content /\ entry.state = "pushing" /\ staging[entry.content].made
    BY PushedVersion DEF WireInv, Undisturbed
  <2> QED BY <1>1, <1>3, <2>1
<1>6. WireKinds' /\ Entries'
  BY <1>1, <1>3 DEF WireInv, WireKinds, WireConstants, EntryType, PushType, StagingType, InboxType,
     EndType, Content, Entries
<1>7. \A e \in Thread : ~Running(e)' /\ ends'[e].at \in {"idle", "replied"}
  BY <1>1, <1>2 DEF Running
<1>8. OneEnd' /\ Undisturbed' /\ Landed'
  BY <1>1, <1>5, <1>7 DEF OneEnd, Undisturbed, Landed
<1>9. Awaited' /\ IndexIsTrue'
  BY <1>1, <1>4 DEF WireInv, Awaited, IndexIsTrue
<1> QED BY <1>1, <1>4, <1>6, <1>8, <1>9, PostStep DEF WireInv, Posts

\* The master crashes: its threads are gone.
LEMMA CrashMasterKeeps ==
    ASSUME WireInv, CrashMaster
    PROVE  WireInv' /\ Simulates
<1>1. /\ ends' = [e \in Thread |-> IdleEnd] /\ UNCHANGED <<log, inbox, dedup, placed, discarded>>
      /\ IF push.at \in {"send", "await"} THEN Failed ELSE UNCHANGED <<entry, push>>
  BY DEF CrashMaster, history
<1>2. ends' \in [Thread -> EndType] /\ \A e \in Thread : ends'[e].at = "idle"
  BY <1>1 DEF IdleEnd, EndType, EndStage, WireInv, WireKinds, WireConstants
<1>3. staging' \in [Content -> StagingType] /\ Stages
  <2>1. staging \in [Content -> StagingType]
    BY DEF WireInv, WireKinds
  <2>2. CASE staging' = staging
    BY <2>1, <2>2 DEF Stages
  <2>3. ASSUME NEW c \in Chunk, push.at = "send", NEW torn \in {"short", "garbled"},
               staging' = [staging EXCEPT ![entry.content].chunk[c] = torn]
        PROVE  staging' \in [Content -> StagingType] /\ Stages
    <3>1. entry.content \in Content /\ torn \in {"short", "garbled", "whole"}
      BY <2>3, PushedVersion
    <3> QED BY <2>1, <2>3, <3>1, ChunkWrite
  <2> QED BY <2>2, <2>3 DEF CrashMaster
<1>4. /\ entry' \in EntryType /\ push' \in PushType /\ entry'.content = entry.content /\ Entries'
      /\ push'.at \notin {"send", "await"}
  <2>1. WireConstants /\ entry \in EntryType /\ push \in PushType /\ Entries
    BY DEF WireInv, WireKinds
  <2>2. CASE push.at \in {"send", "await"}
    <3>1. entry.state = "pushing" /\ entry.attempts < MaxAttempts /\ Failed
      BY <1>1, <2>1, <2>2 DEF Entries
    <3>2. /\ entry' \in EntryType /\ entry'.state = "pending" /\ entry'.content = entry.content
          /\ push' \in PushType /\ push'.at = "idle"
      BY <2>1, <3>1, FailedPush
    <3> QED BY <2>1, <3>1, <3>2 DEF Entries
  <2>3. CASE push.at \notin {"send", "await"}
    BY <1>1, <2>1, <2>3 DEF Entries
  <2> QED BY <2>2, <2>3
<1>5. log' \in 0..MaxContent
  BY <1>1 DEF WireInv, WireKinds
<1> QED BY <1>1, <1>2, <1>3, <1>4, <1>5, ThreadsRest

-------------------------------------------------------------------------------
\* What was copied stays in the dossier, or was deleted from it by hand.
LEMMA CopiesKept ==
    ASSUME WireKinds, Copies, [Next]_vars
    PROVE  Copies'
<1>1. ends \in [Thread -> EndType]
  BY DEF WireKinds
<1>2. 0 \in InDossier /\ 0 \in InDossier'
  BY DEF InDossier
<1>3. ASSUME InDossier \subseteq InDossier',
             sweep'.of \in InDossier' \/ sweep' = sweep,
             \A e \in Thread : ends'[e].of \in InDossier' \/ ends'[e].of = ends[e].of
      PROVE  Copies'
  BY <1>3 DEF Copies
<1>4. CASE UNCHANGED <<sweep, ends, placed, discarded>>
  BY <1>4 DEF Copies, InDossier
<1>5. ASSUME NEW e \in Thread, EndStep(e) PROVE Copies'
  <2>1. CASE EndAnnounce(e)
    <3>1. UNCHANGED <<inbox, discarded, sweep>> /\ (Copied \/ UNCHANGED placed)
      BY <2>1 DEF EndAnnounce, history
    <3>2. InDossier \subseteq InDossier'
      BY <3>1 DEF Copied, InDossier
    <3>3. Copied => Taken \in InDossier'
      BY <3>1, CopyKeeps
    <3>4. \A f \in Thread : ends'[f].of \in InDossier' \/ ends'[f].of = ends[f].of
      BY <1>1, <2>1, <3>3 DEF EndAnnounce, Answer, EndType
    <3> QED BY <1>3, <3>1, <3>2, <3>4
  <2>2. CASE ~EndAnnounce(e)
    <3>1. UNCHANGED <<sweep, placed, discarded>>
      BY <1>5, <2>2 DEF EndStep, EndOpen, EndAssemble, EndVerify, EndReplace, EndRename, EndReceipt,
         EndIndex, EndClean, EndMark, EndRemove, EndAnswered, history
    <3>2. \/ ends' = [ends EXCEPT ![e] = IdleEnd]
          \/ \E s \in EndStage : EndAt(e, s)
          \/ \E ok \in {TRUE, FALSE, ends[e].content \in done} : Answer(e, ok)
      BY <1>5, <2>2 DEF EndStep, EndOpen, EndAssemble, EndVerify, EndReplace, EndRename, EndReceipt,
         EndIndex, EndClean, EndMark, EndRemove, EndAnswered, EndStage
    <3>3. \A f \in Thread : ends'[f].of = 0 \/ ends'[f].of = ends[f].of
      BY <1>1, <3>2 DEF IdleEnd, EndAt, Answer, EndType
    <3> QED BY <1>2, <1>3, <3>1, <3>3 DEF InDossier
  <2> QED BY <2>1, <2>2
<1>6. CASE SweepInbox
  <2>1. Copied /\ UNCHANGED <<inbox, ends, discarded>>
    BY <1>6 DEF SweepInbox, history
  <2>2. InDossier \subseteq InDossier' /\ Taken \in InDossier'
    BY <2>1, CopyKeeps DEF Copied, InDossier
  <2>3. sweep'.of \in InDossier' \/ sweep' = sweep
    BY <1>6, <2>2 DEF SweepInbox
  <2> QED BY <1>3, <2>1, <2>2, <2>3
<1>7. CASE SweepRemove
  BY <1>2, <1>3, <1>7 DEF SweepRemove, IdleSweep, InDossier
<1>8. CASE DiscardDossier
  BY <1>3, <1>8 DEF DiscardDossier, InDossier
<1>9. CASE CrashMaster
  <2>1. sweep'.of = 0 /\ \A e \in Thread : ends'[e].of = 0
    BY <1>9 DEF CrashMaster, IdleEnd, IdleSweep
  <2> QED BY <1>2, <1>3, <1>9, <2>1 DEF CrashMaster, InDossier, history
<1>10. CASE EndLost \/ \E e \in Thread : CallEnd(e)
  <2>1. \A f \in Thread : ends'[f].of = 0 \/ ends'[f].of = ends[f].of
    <3>1. CASE EndLost
      BY <1>1, <3>1 DEF EndLost, IdleEnd, EndType
    <3>2. ASSUME NEW e \in Thread, CallEnd(e)
          PROVE  \A f \in Thread : ends'[f].of = 0 \/ ends'[f].of = ends[f].of
      BY <1>1, <3>2 DEF CallEnd
    <3> QED BY <1>10, <3>1, <3>2
  <2>2. UNCHANGED <<sweep, placed, discarded>>
    BY <1>10 DEF EndLost, CallEnd, history
  <2> QED BY <1>2, <1>3, <2>1, <2>2 DEF InDossier
<1>11. CASE \/ Record \/ Terminal \/ Park \/ StartPush \/ Begin \/ SettleDispatch \/ Pull \/ Replay
            \/ CrashWorker
  BY <1>4, <1>11 DEF Record, Terminal, Park, StartPush, Begin, SettleDispatch, Pull, Replay,
     CrashWorker, master, history
<1>12. ASSUME NEW c \in Chunk, NEW arrived \in BOOLEAN,
              SendChunk(c) \/ BeginLost(arrived) \/ ChunkLost(c, arrived)
       PROVE  Copies'
  BY <1>4, <1>12 DEF SendChunk, BeginLost, ChunkLost, history
<1>13. ASSUME NEW arrived \in BOOLEAN, BeginLost(arrived) PROVE Copies'
  BY <1>4, <1>13 DEF BeginLost, history
<1>14. ASSUME NEW v \in Content, SweepStaging(v) PROVE Copies'
  BY <1>4, <1>14 DEF SweepStaging, history
<1>15. ASSUME NEW n \in {"worker", "master"}, SetLimit(n) PROVE Copies'
  BY <1>4, <1>15 DEF SetLimit, master, history
<1>16. CASE UNCHANGED vars
  BY <1>4, <1>16 DEF vars, master, history
<1> QED
  BY <1>5, <1>6, <1>7, <1>8, <1>9, <1>10, <1>11, <1>12, <1>13, <1>14, <1>15, <1>16
     DEF Next, PushStep, Losses

\* Every step of the two nodes is a step of the promise, as long as no two threads meet.
LEMMA WireStep ==
    ASSUME WireInv, Copies, Next, crossed' = FALSE
    PROVE  WireInv' /\ Simulates
<1>1. CASE PushStep
  BY <1>1, GateKeeps, BeginKeeps, SendChunkKeeps, CallEndKeeps DEF PushStep
<1>2. ASSUME NEW e \in Thread, EndStep(e) PROVE WireInv' /\ Simulates
  BY <1>2, CheckKeeps, EndReplaceKeeps, EndRenameKeeps, EndTailKeeps, EndAnnounceKeeps,
     EndRemoveKeeps, EndAnsweredKeeps
     DEF EndStep
<1>3. CASE Losses
  BY <1>3, LostKeeps, EndLostKeeps DEF Losses
<1> QED
  BY <1>1, <1>2, <1>3, RecordKeeps, EnqueueKeeps, GateKeeps, SweepInboxKeeps, SweepRemoveKeeps,
     SweepStagingKeeps, DiscardKeeps, CrashWorkerKeeps, CrashMasterKeeps DEF Next

\* That two threads have met is never forgotten.
LEMMA CrossedStays ==
    ASSUME crossed \in BOOLEAN, [Next]_vars
    PROVE  crossed' \in BOOLEAN /\ (crossed => crossed')
<1>1. crossed' = crossed \/ crossed' = TRUE \/ \E v : RemoveInbox(v)
  <2>1. CASE UNCHANGED history
    BY <2>1 DEF history
  <2>2. CASE Begin
    BY <2>2 DEF Begin, Overlap
  <2>3. CASE DiscardDossier \/ \E e \in Thread : EndAnswered(e)
    BY <2>3 DEF DiscardDossier, EndAnswered
  <2>4. CASE SweepRemove \/ \E e \in Thread : EndRemove(e)
    BY <2>4 DEF SweepRemove, EndRemove
  <2> QED
    BY <2>1, <2>2, <2>3, <2>4 DEF Next, PushStep, EndStep, Losses, Record, Terminal, Park, StartPush,
       SettleDispatch, Pull, Replay, CrashWorker, SendChunk, BeginLost, ChunkLost, SweepStaging,
       SetLimit, EndLost, CallEnd, EndOpen, EndAssemble, EndVerify, EndReplace, EndRename, EndReceipt,
       EndIndex, EndClean, EndMark, EndAnnounce, SweepInbox, CrashMaster, vars
<1>2. ASSUME NEW v, RemoveInbox(v) PROVE crossed' \in BOOLEAN /\ (crossed => crossed')
  BY <1>2, Zenon DEF RemoveInbox
<1> QED BY <1>1, <1>2

\* WireInv holds at first, and the initial states are initial states of the promise.
LEMMA WireStart ==
    ASSUME WireConstants, Init
    PROVE  WireInv /\ Copies /\ crossed = FALSE /\ D!Init
<1>1. entry = NoEntry /\ push = IdlePush /\ inbox = NoInbox /\ dedup = 0 /\ log = 0
      /\ staging = [v \in Content |-> NoStaging] /\ ends = [e \in Thread |-> IdleEnd]
      /\ placed = {} /\ discarded = {} /\ crossed = FALSE /\ sweep = IdleSweep
  BY DEF Init
<1>2. 0 \in 0..MaxContent /\ 0 \in 0..MaxAttempts
  BY DEF WireConstants
<1>3. entry \in EntryType /\ entry.state = "none" /\ entry.content = 0
  BY <1>1, <1>2 DEF NoEntry, EntryType, EntryState
<1>4. push \in PushType /\ push.at = "idle"
  BY <1>1 DEF IdlePush, PushType
<1>5. inbox \in InboxType /\ ~inbox.hasFiles /\ inbox.receipt = 0
  BY <1>1, <1>2 DEF NoInbox, InboxType
<1>6. staging \in [Content -> StagingType]
  BY <1>1 DEF NoStaging, StagingType
<1>7. ends \in [Thread -> EndType] /\ \A e \in Thread : ends[e].at = "idle"
  BY <1>1, <1>2 DEF IdleEnd, EndType, EndStage
<1>8. WireKinds
  BY <1>1, <1>2, <1>3, <1>4, <1>5, <1>6, <1>7 DEF WireKinds
<1>9. Entries /\ OneEnd /\ Undisturbed /\ Landed /\ Awaited /\ IndexIsTrue
  BY <1>3, <1>4, <1>5, <1>7 DEF Entries, OneEnd, Undisturbed, Landed, Awaited, IndexIsTrue, Running
<1>10. D!Init
  BY <1>1, <1>3, <1>5 DEF D!Init, Whole
<1>11. Copies
  BY <1>1 DEF Copies, InDossier, IdleSweep, IdleEnd
<1> QED BY <1>1, <1>8, <1>9, <1>10, <1>11 DEF WireInv

\* Whatever is lost, repeated or interrupted, the worker deletes its entry only when the master has
\* every byte of that version, and the master gives up a version only while the worker keeps one to
\* put in its place: every step of outbox, sink, ingestion and sweeps is a step of Delivery or none.
\* It is so until a transfer_begin is served while an earlier transfer_end is at work, or an ingestion
\* removes a record that it has not copied.
THEOREM TransferImplementsDelivery == Spec => TransferDelivers
<1> DEFINE Inv == crossed \in BOOLEAN /\ (crossed = FALSE => WireInv /\ Copies)
<1>0. WireConstants
  BY ContentAssumption, BoundAssumption DEF WireConstants
<1>1. Init => Inv /\ D!Init
  BY <1>0, WireStart
<1>2. Inv /\ [Next]_vars => Inv' /\ [D!Next]_(D!vars)
  <2> SUFFICES ASSUME Inv, [Next]_vars PROVE Inv' /\ [D!Next]_(D!vars)
    OBVIOUS
  <2>0. crossed' \in BOOLEAN /\ (crossed => crossed')
    BY CrossedStays
  <2>1. CASE crossed'
    BY <2>0, <2>1 DEF D!Next, D!Meet
  <2>2. CASE ~crossed'
    <3>1. crossed = FALSE /\ crossed' = FALSE
      BY <2>0, <2>2
    <3>2. WireInv /\ Copies /\ WireKinds
      BY <3>1 DEF WireInv
    <3>3. Copies'
      BY <3>2, CopiesKept
    <3>4. WireInv' /\ Simulates
      <4>1. CASE UNCHANGED vars
        <5>1. UNCHANGED <<log, entry, push, staging, inbox, dedup, ends, placed, discarded>>
          BY <4>1 DEF vars, worker, master, history
        <5>2. log' \in 0..MaxContent
          BY <3>2, <5>1 DEF WireKinds
        <5> QED BY <3>2, <5>1, <5>2, NothingStep
      <4> QED BY <3>1, <3>2, <4>1, WireStep
    <3> QED BY <3>1, <3>3, <3>4 DEF Simulates, Calm
  <2> QED BY <2>1, <2>2
<1> QED BY <1>1, <1>2, PTL DEF Spec, TransferDelivers, D!Spec
===============================================================================
