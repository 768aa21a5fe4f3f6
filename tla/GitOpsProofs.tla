----------------------------- MODULE GitOpsProofs -----------------------------
(***************************************************************************)
(* Proofs about GitOps, for any tiers, reconciler and automated set: what  *)
(* Git, the cluster, the pods, the syncs and a run of up.sh can hold, and  *)
(* what a sync writes, whatever merges, edits and syncs of older revisions *)
(* come in between.                                                        *)
(***************************************************************************)
EXTENDS GitOps, SequenceTheorems, TLAPS

AnyContent == {"canonical", "open", "forged", None}

\* What the object of a file can be, if it is there at all.
Held(f) == Contents(f) \cup {None}

Syncs(a) == [rev : [FilesOf(a) -> AnyContent], todo : SUBSET FilesOf(a)]

UpRuns == {SubSeq(UpOrder, i, Len(UpOrder)) : i \in 1 .. Len(UpOrder) + 1}

MasterHeld(m) == m \in [Files -> AnyContent] /\ \A f \in Files : m[f] \in Contents(f)
FilesHeld(m) == m \in [Files -> AnyContent] /\ \A f \in Files : m[f] \in Held(f)

\* Like master, the revision a sync works from holds contents of the file they
\* are for.
SyncHeld(a, s) ==
    s # None => s \in Syncs(a) /\ \A f \in FilesOf(a) : s.rev[f] \in Contents(f)

\* What a sync has still to write is what master says, but for the files that
\* were overtaken.
Current(a, s) == s # None => \A f \in s.todo \ overtaken : s.rev[f] = git[f]

\* A sync writes what it took from master, a pod runs what a Deployment said.
IInv ==
    /\ MasterHeld(git) /\ FilesHeld(live)
    /\ pods \in Contents("workload")
    /\ sync = [a \in Applications |-> sync[a]]
    /\ \A a \in Applications : SyncHeld(a, sync[a]) /\ Current(a, sync[a])
    /\ up \in UpRuns /\ failed \in BOOLEAN
    /\ overtaken \subseteq Files

-----------------------------------------------------------------------------
\* The files of an Application are files; one is never empty of contents.
LEMMA FileFacts ==
    /\ \A a \in Applications : FilesOf(a) \subseteq Files
    /\ \A f \in Files : Contents(f) \subseteq AnyContent /\ "canonical" \in Contents(f)
    /\ \A f \in Files : Contents(f) \subseteq Held(f)
    /\ Held("workload") = Contents("workload") /\ None \in Contents("workload")
  BY DEF Applications, FilesOf, Files, Contents, AnyContent, Held

\* A file put keeps the objects those of their files.
LEMMA PutKeeps ==
    ASSUME FilesHeld(live), NEW f \in Files, NEW c \in Held(f), Put(f, c)
    PROVE  FilesHeld(live')
  BY FileFacts DEF FilesHeld, Put, Held, AnyContent

\* What up.sh has left is a suffix of its list, and loses its head.
LEMMA UpTail ==
    ASSUME up \in UpRuns, up # <<>>
    PROVE  Head(up) \in Files /\ Tail(up) \in UpRuns
<1>1. PICK i \in 1 .. 5 : up = SubSeq(UpOrder, i, 4)
  BY DEF UpRuns, UpOrder
<1>2. i # 5
  BY <1>1 DEF UpOrder
<1>3. Head(up) = UpOrder[i] /\ Tail(up) = SubSeq(UpOrder, i + 1, 4)
  BY <1>1, <1>2 DEF UpOrder
<1> QED BY <1>1, <1>2, <1>3 DEF UpRuns, UpOrder, Files

\* The three runs that are empty at first.
LEMMA InitEstablishes == Init => IInv
<1> SUFFICES ASSUME Init PROVE IInv
  OBVIOUS
<1>1. MasterHeld(git) /\ FilesHeld(live)
  BY FileFacts DEF Init, MasterHeld, FilesHeld, Held, AnyContent
<1>2. up \in UpRuns
  <2>1. SubSeq(UpOrder, 5, 4) = <<>> /\ Len(UpOrder) = 4
    BY DEF UpOrder
  <2> QED BY <2>1 DEF UpRuns, Init
<1> QED BY <1>1, <1>2, FileFacts DEF Init, IInv, SyncHeld, Current

\* Every step keeps the invariant.
LEMMA StepPreserves == IInv /\ [Next]_vars => IInv'
<1> SUFFICES ASSUME IInv, [Next]_vars PROVE IInv'
  OBVIOUS
<1> USE DEF IInv, Current
<1>1. CASE StartUp
  <2>1. UpOrder \in UpRuns
    <3>1. UpOrder \in Seq(Files) /\ Len(UpOrder) = 4
      BY DEF UpOrder, Files
    <3>2. SubSeq(UpOrder, 1, Len(UpOrder)) = UpOrder
      BY <3>1, SubSeqFull
    <3> QED BY <3>1, <3>2 DEF UpRuns
  <2> QED BY <1>1, <2>1 DEF StartUp
<1>2. CASE UpApply
  <2>1. Head(up) \in Files /\ Tail(up) \in UpRuns
    BY <1>2, UpTail DEF UpApply
  <2>2. <<>> \in UpRuns
    <3>1. SubSeq(UpOrder, 5, 4) = <<>> /\ Len(UpOrder) = 4
      BY DEF UpOrder
    <3> QED BY <3>1 DEF UpRuns
  <2>3. "canonical" \in Held(Head(up))
    BY <2>1, FileFacts DEF Held
  <2>4. FilesHeld(live')
    <3>1. CASE Put(Head(up), "canonical")
      BY <3>1, <2>1, <2>3, PutKeeps
    <3>2. CASE UNCHANGED live
      BY <3>2
    <3> QED BY <1>2, <3>1, <3>2 DEF UpApply
  <2>5. up' \in UpRuns /\ failed' \in BOOLEAN
    BY <1>2, <2>1, <2>2 DEF UpApply
  <2>6. UNCHANGED <<git, pods, sync, overtaken>>
    BY <1>2 DEF UpApply
  <2> QED BY <2>4, <2>5, <2>6
<1>3. ASSUME NEW f \in Files, NEW c \in Contents(f), Merge(f, c) PROVE IInv'
  <2>1. MasterHeld(git')
    BY <1>3, FileFacts DEF Merge, MasterHeld
  <2>2. /\ \A g \in Files : g # f => git'[g] = git[g]
        /\ UNCHANGED <<live, pods, sync, up, failed>>
    BY <1>3 DEF Merge, MasterHeld
  <2>3. ASSUME NEW a \in Applications PROVE Current(a, sync[a])'
    <3> SUFFICES ASSUME sync[a] # None, NEW g \in sync[a].todo \ overtaken'
                 PROVE  sync[a].rev[g] = git'[g]
      BY <2>2
    <3>1. g # f /\ g \notin overtaken
      BY <1>3 DEF Merge
    <3>2. g \in Files
      BY FileFacts DEF SyncHeld, Syncs
    <3> QED BY <2>2, <3>1, <3>2
  <2>4. overtaken' \subseteq Files
    BY <1>3 DEF Merge
  <2> QED BY <2>1, <2>2, <2>3, <2>4
<1>4. ASSUME NEW f \in Files, NEW c \in Contents(f), Drift(f, c) PROVE IInv'
  <2>1. FilesHeld(live')
    BY <1>4, PutKeeps DEF Drift, Held
  <2> QED BY <1>4, <2>1 DEF Drift
<1>5. CASE RollOut
  <2>1. live["workload"] \in Contents("workload")
    BY FileFacts DEF FilesHeld, Files
  <2> QED BY <1>5, <2>1 DEF RollOut
<1>6. ASSUME NEW a \in Applications, StartSync(a) PROVE IInv'
  <2> DEFINE s == [rev |-> [f \in FilesOf(a) |-> git[f]], todo |-> FilesOf(a)]
  <2>1. SyncHeld(a, s)
    <3>1. [f \in FilesOf(a) |-> git[f]] \in [FilesOf(a) -> AnyContent]
      BY FileFacts DEF MasterHeld
    <3>2. \A f \in FilesOf(a) : s.rev[f] \in Contents(f)
      BY FileFacts DEF MasterHeld
    <3> QED BY <3>1, <3>2 DEF SyncHeld, Syncs
  <2>2. sync' = [sync EXCEPT ![a] = s] /\ UNCHANGED <<git, live, pods, up, failed, overtaken>>
    BY <1>6 DEF StartSync
  <2>3. \A f \in s.todo : s.rev[f] = git[f]
    OBVIOUS
  <2> HIDE DEF s
  <2> QED BY <2>1, <2>2, <2>3
<1>7. ASSUME NEW a \in Applications, NEW f \in FilesOf(a), SyncFile(a, f) PROVE IInv'
  <2> DEFINE s == Rest(sync[a], f)
  <2>1. /\ sync[a] \in Syncs(a)
        /\ \A g \in FilesOf(a) : sync[a].rev[g] \in Contents(g)
    BY <1>7 DEF SyncFile, SyncHeld
  <2>2. SyncHeld(a, s)
    BY <2>1 DEF SyncHeld, Syncs, Rest
  <2>3. FilesHeld(live')
    <3>1. CASE Put(f, sync[a].rev[f])
      BY <3>1, <2>1, PutKeeps, FileFacts
    <3>2. CASE UNCHANGED live
      BY <3>2
    <3> QED BY <1>7, <3>1, <3>2 DEF SyncFile
  <2>4. /\ sync' = [sync EXCEPT ![a] = s] /\ overtaken' = overtaken \ {f}
        /\ UNCHANGED <<git, pods, up, failed>>
    BY <1>7 DEF SyncFile
  <2>5. s # None => \A g \in s.todo \ overtaken' : s.rev[g] = git[g]
    BY <1>7, <2>4 DEF SyncFile, Rest
  <2>6. ASSUME NEW b \in Applications, b # a PROVE Current(b, sync[b])'
    <3>1. f \notin FilesOf(b)
      BY <2>6 DEF FilesOf, Applications
    <3>2. sync'[b] = sync[b] /\ (sync[b] # None => sync[b].todo \subseteq FilesOf(b))
      BY <2>4, <2>6 DEF SyncHeld, Syncs
    <3> QED BY <2>4, <3>1, <3>2
  <2> HIDE DEF s
  <2> QED BY <2>2, <2>3, <2>4, <2>5, <2>6
<1>8. CASE UNCHANGED vars
  BY <1>8 DEF vars
<1> HIDE DEF IInv, Current
<1> QED BY <1>1, <1>2, <1>3, <1>4, <1>5, <1>6, <1>7, <1>8
        DEF Next, ReconcileStep, SyncStep

\* The invariant holds throughout.
LEMMA Invariance == Spec => []IInv
<1> QED BY InitEstablishes, StepPreserves, PTL DEF Spec

\* Merges, drift, syncs of older revisions and up.sh keep each file, in Git and
\* in the cluster, at contents of its own and the pods at contents of the
\* workload; a sync works on its Application's files, with contents of their own.
THEOREM TypeCorrect == Spec => []TypeOK
<1>1. IInv => TypeOK
  BY DEF IInv, TypeOK, MasterHeld, FilesHeld, Held, SyncHeld, Syncs, UpRuns
<1> QED BY <1>1, Invariance, PTL

-----------------------------------------------------------------------------
\* What a sync writes is what master says, but for a file that was overtaken.
LEMMA SyncWrites ==
    ASSUME IInv, NEW a \in Applications, NEW f \in FilesOf(a), SyncFile(a, f),
           NEW g \in Files \ overtaken
    PROVE  live'[g] \in {live[g], git'[g]}
<1>1. CASE Put(f, sync[a].rev[f])
  <2>1. live'[g] = IF g = f THEN sync[a].rev[f] ELSE live[g]
    BY <1>1 DEF Put, IInv, FilesHeld
  <2>2. g = f => sync[a].rev[f] = git[f]
    BY DEF SyncFile, IInv, Current
  <2>3. git' = git
    BY DEF SyncFile
  <2> QED BY <2>1, <2>2, <2>3
<1>2. CASE UNCHANGED live
  BY <1>2
<1> QED BY <1>1, <1>2 DEF SyncFile

\* Whatever was merged, edited live or applied by up.sh since a sync began, it
\* writes what master says now, unless master changed that very file since.
THEOREM SyncsAreMasters == Spec => SyncsFollowMaster
<1>1. IInv /\ [Next]_vars =>
          [ReconcileStep =>
              \A f \in Files \ overtaken : live'[f] \in {live[f], git'[f]}]_vars
  <2> SUFFICES ASSUME IInv, ReconcileStep, NEW f \in Files \ overtaken
               PROVE  live'[f] \in {live[f], git'[f]}
    OBVIOUS
  <2>1. CASE RollOut
    BY <2>1 DEF RollOut
  <2>2. ASSUME NEW a \in Applications, StartSync(a) PROVE live' = live
    BY <2>2 DEF StartSync
  <2>3. ASSUME NEW a \in Applications, NEW g \in FilesOf(a), SyncFile(a, g)
        PROVE  live'[f] \in {live[f], git'[f]}
    BY <2>3, SyncWrites
  <2> QED BY <2>1, <2>2, <2>3 DEF ReconcileStep, SyncStep
<1> QED BY <1>1, Invariance, PTL DEF Spec, SyncsFollowMaster

=============================================================================
