---------------------------- MODULE SecretsProofs ----------------------------
(***************************************************************************)
(* Proofs about SecretsAtRest, for any Secrets and any keys: types, and    *)
(* that only the early answer to a rotation's wait loses a Secret, and     *)
(* only the early answer to the script's makes its PASS untrue.            *)
(***************************************************************************)
EXTENDS SecretsAtRest, TLAPS

Types ==
    /\ file \in Seq(Keys)
    /\ server \in [up: BOOLEAN, keys: Seq(Keys)]
    /\ flagged \in BOOLEAN
    /\ etcd \in [Secrets -> Keys \cup {Plain, None}]
    /\ script \in {"start", "skipped", "key", "manifest", "wait", "reencrypt",
                   "passed", "failed"}
    /\ rotation \in {"off", "both", "rewrite"}
    /\ todo \subseteq Secrets
    /\ early \subseteq {"script", "rotation"}

Loaded == server.keys # <<>>

\* Where the script and a rotation are, and what they have done by then.
Progress ==
    /\ script \in {"key", "manifest"} => ~flagged
    /\ script \in {"wait", "reencrypt", "passed"} => flagged
    /\ script = "manifest" \/ flagged => file # <<>>
    /\ rotation # "off" => flagged /\ script \in {"start", "skipped", "failed", "passed"}

\* A server that has not been given the flag has no key and used none.
NotFlagged == ~flagged => server.keys = <<>> /\ \A s \in Secrets : etcd[s] \in {Plain, None}

\* Where no rotation was answered early, what the server writes can be read
\* after a restart; in the last part of a rotation it writes under the first
\* key of the file, and has done so to all but the Secrets still to be rewritten.
WritesReadable ==
    /\ flagged /\ Loaded => Head(server.keys) \in Range(file)
    /\ rotation = "rewrite" =>
           /\ Loaded /\ Head(server.keys) = Head(file)
           /\ \A s \in Secrets \ todo : etcd[s] \in {Head(file), Plain, None}

\* Where the script was not answered early: once it re-encrypts, the server has
\* a key, and only Secrets still to be rewritten are in clear.
Rewritten ==
    /\ script \in {"reencrypt", "passed"} => Loaded
    /\ script = "reencrypt" => \A s \in Secrets \ todo : etcd[s] # Plain
    /\ script = "passed" => \A s \in Secrets : etcd[s] # Plain

IInv ==
    /\ Types /\ Progress /\ NotFlagged
    /\ "rotation" \notin early => WritesReadable /\ NoSecretLost
    /\ "script" \notin early => Rewritten

-----------------------------------------------------------------------------
\* A key put first is in the sequence, and no other is lost from it.
LEMMA ConsRange ==
    ASSUME NEW k \in Keys, NEW q \in Seq(Keys)
    PROVE  /\ <<k>> \o q \in Seq(Keys) /\ <<k>> \o q # <<>>
           /\ Head(<<k>> \o q) = k
           /\ Range(<<k>> \o q) = {k} \cup Range(q)
<1> DEFINE r == <<k>> \o q
<1>1. r \in Seq(Keys) /\ Len(r) = Len(q) + 1 /\ r[1] = k
  OBVIOUS
<1>2. \A i \in 1 .. Len(q) : r[i + 1] = q[i]
  OBVIOUS
<1>3. Range(r) \subseteq {k} \cup Range(q)
  <2> SUFFICES ASSUME NEW i \in DOMAIN r, i # 1 PROVE r[i] \in Range(q)
    BY <1>1 DEF Range
  <2>1. i - 1 \in DOMAIN q /\ r[i] = q[i - 1]
    BY <1>1
  <2> QED BY <2>1 DEF Range
<1>4. {k} \cup Range(q) \subseteq Range(r)
  <2> SUFFICES ASSUME NEW j \in DOMAIN q PROVE q[j] \in Range(r)
    BY <1>1 DEF Range
  <2>1. j + 1 \in DOMAIN r /\ r[j + 1] = q[j]
    BY <1>1, <1>2
  <2> QED BY <2>1 DEF Range
<1> QED BY <1>1, <1>3, <1>4

\* The sequence of one key, and the first key of a sequence.
LEMMA HeadRange ==
    ASSUME NEW q \in Seq(Keys), q # <<>>
    PROVE  /\ Head(q) \in Keys /\ Head(q) \in Range(q)
           /\ <<Head(q)>> \in Seq(Keys) /\ <<Head(q)>> # <<>>
           /\ Head(<<Head(q)>>) = Head(q) /\ Range(<<Head(q)>>) = {Head(q)}
<1>1. Len(q) > 0 /\ Head(q) = q[1] /\ 1 \in DOMAIN q
  OBVIOUS
<1>2. Head(q) \in Keys /\ Head(q) \in Range(q)
  BY <1>1 DEF Range
<1>3. Range(<<Head(q)>>) = {Head(q)}
  BY DEF Range
<1> QED BY <1>2, <1>3

\* What a server writes a Secret under is a key of the file or nothing at all.
LEMMA WriteKeyReadable ==
    ASSUME IInv
    PROVE  /\ WriteKey \in Keys \cup {Plain}
           /\ "rotation" \notin early /\ flagged => WriteKey \in Range(file) \cup {Plain}
           /\ ~flagged => WriteKey = Plain
           /\ Loaded => WriteKey = Head(server.keys) /\ WriteKey # Plain
           /\ "rotation" \notin early /\ rotation = "rewrite" => WriteKey = Head(file)
<1>1. server.keys \in Seq(Keys) /\ Plain \notin Keys
  BY SecretsAssumption DEF IInv, Types
<1>2. CASE Loaded
  <2>1. Head(server.keys) \in Keys
    BY <1>1, <1>2, HeadRange DEF Loaded
  <2> QED
    BY <1>1, <1>2, <2>1 DEF IInv, WritesReadable, NotFlagged, WriteKey, Loaded
<1>3. CASE ~Loaded
  BY <1>1, <1>3 DEF IInv, WritesReadable, WriteKey, Loaded
<1> QED BY <1>2, <1>3

\* The empty cluster satisfies the invariant.
LEMMA InitEstablishes == Init => IInv
<1> SUFFICES ASSUME Init PROVE IInv
  OBVIOUS
<1>1. Types
  <2>1. <<>> \in Seq(Keys)
    OBVIOUS
  <2>2. etcd \in [Secrets -> Keys \cup {Plain, None}]
    BY DEF Init
  <2> QED BY <2>1, <2>2 DEF Init, Types
<1>2. Progress /\ NotFlagged /\ WritesReadable /\ Rewritten
  BY DEF Init, Progress, NotFlagged, WritesReadable, Rewritten, Loaded
<1>3. NoSecretLost
  BY DEF Init, NoSecretLost, Readable
<1> QED BY <1>1, <1>2, <1>3 DEF IInv

\* A Secret written by a client, or written back, keeps the invariant.
LEMMA WritePreserves ==
    ASSUME IInv, NEW s \in Secrets,
           etcd' = [etcd EXCEPT ![s] = WriteKey],
           todo' \in {todo, todo \ {s}},
           UNCHANGED <<file, flagged, server, used, script, rotation, early>>
    PROVE  IInv'
<1> USE DEF IInv
<1>1. Types'
  BY WriteKeyReadable DEF Types
<1>2. Progress' /\ NotFlagged'
  BY WriteKeyReadable DEF Progress, NotFlagged, Types
<1>3. "rotation" \notin early => WritesReadable'
  BY WriteKeyReadable DEF WritesReadable, Loaded, Types
<1>4. "rotation" \notin early => NoSecretLost'
  BY WriteKeyReadable DEF NoSecretLost, Readable, Configured, Types
<1>5. "script" \notin early => Rewritten'
  BY WriteKeyReadable DEF Rewritten, Loaded, Types
<1> QED BY <1>1, <1>2, <1>3, <1>4, <1>5

\* So do a stop and a start of the server.
LEMMA RestartPreserves == IInv /\ (Stop \/ Start) => IInv'
<1> SUFFICES ASSUME IInv, Stop \/ Start PROVE IInv'
  OBVIOUS
<1> USE DEF IInv
<1>1. CASE Stop
  BY <1>1 DEF Stop, Types, Progress, NotFlagged, WritesReadable, Rewritten, Loaded,
              NoSecretLost, Readable, Configured
<1>2. CASE Start
  <2>1. flagged => Head(file) \in Range(file)
    BY HeadRange DEF Types, Progress
  <2> QED
    BY <1>2, <2>1 DEF Start, Types, Progress, NotFlagged, WritesReadable, Rewritten,
              Loaded, NoSecretLost, Readable, Configured
<1> QED BY <1>1, <1>2

-----------------------------------------------------------------------------
\* The script's steps keep the invariant: an early answer is on record.
LEMMA ScriptPreserves == IInv /\ ScriptStep => IInv'
<1> SUFFICES ASSUME IInv, ScriptStep PROVE IInv'
  OBVIOUS
<1> USE DEF IInv, Types, Progress, NotFlagged, WritesReadable, Rewritten, Loaded,
            NoSecretLost, Readable, Configured
<1>1. CASE Check
  BY <1>1 DEF Check
<1>2. CASE ApplyManifest
  BY <1>2 DEF ApplyManifest
<1>3. CASE Healthy
  BY <1>3, SecretsAssumption DEF Healthy, Serving, Stored
<1>4. CASE Prove
  BY <1>4 DEF Prove
<1>5. CASE Abort
  BY <1>5 DEF Abort
<1>6. CASE rotation = "off" /\ Rerun
  BY <1>6 DEF Rerun
<1>7. ASSUME NEW k \in Keys, PushConfig(k) PROVE IInv'
  <2>1. <<k>> \in Seq(Keys) /\ <<k>> # <<>>
    OBVIOUS
  <2> QED BY <1>7, <2>1 DEF PushConfig
<1> QED
  BY <1>1, <1>2, <1>3, <1>4, <1>5, <1>6, <1>7 DEF ScriptStep

\* And so do those of a rotation.
LEMMA RotationPreserves == IInv /\ RotationStep => IInv'
<1> SUFFICES ASSUME IInv, RotationStep PROVE IInv'
  OBVIOUS
<1> USE DEF IInv, Types, Progress, NotFlagged, WritesReadable, Rewritten, Loaded,
            NoSecretLost, Readable, Configured
<1>1. ASSUME NEW k \in Keys, PushBoth(k) PROVE IInv'
  <2> DEFINE r == <<k>> \o file
  <2>1. /\ r \in Seq(Keys) /\ r # <<>>
        /\ Range(file) \subseteq Range(r)
    BY ConsRange
  <2>2. /\ file' = r /\ rotation' = "both" /\ flagged
        /\ script \in {"start", "skipped", "failed", "passed"}
        /\ UNCHANGED <<flagged, server, etcd, script, todo, early>>
    BY <1>1 DEF PushBoth, Rotatable
  <2> HIDE DEF r
  <2> QED BY <2>1, <2>2
<1>2. CASE StartRewrite
  BY <1>2, SecretsAssumption DEF StartRewrite, Serving, Stored
<1>3. CASE DropOld
  <2> DEFINE r == <<Head(file)>>
  <2>1. /\ r \in Seq(Keys) /\ r # <<>> /\ Head(r) = Head(file)
        /\ Range(r) = {Head(file)}
    BY <1>3, HeadRange DEF DropOld
  <2>2. /\ file' = r /\ rotation = "rewrite" /\ rotation' = "off" /\ todo = {}
        /\ UNCHANGED <<flagged, server, etcd, script, todo, early>>
    BY <1>3 DEF DropOld
  <2> HIDE DEF r
  <2> QED BY <2>1, <2>2
<1> QED BY <1>1, <1>2, <1>3 DEF RotationStep

\* Every step keeps the invariant.
LEMMA StepPreserves == IInv /\ [Next]_vars => IInv'
<1> SUFFICES ASSUME IInv, [Next]_vars PROVE IInv'
  OBVIOUS
<1>1. CASE ServerStep
  <2>1. ASSUME NEW s \in Secrets, ClientWrite(s) \/ Replace(s) PROVE IInv'
    BY <2>1, WritePreserves DEF ClientWrite, Replace
  <2> QED BY <1>1, <2>1, RestartPreserves DEF ServerStep
<1>2. CASE UNCHANGED vars
  BY <1>2 DEF vars, IInv, Types, Progress, NotFlagged, WritesReadable, Rewritten,
              Loaded, NoSecretLost, Readable, Configured
<1> QED BY <1>1, <1>2, ScriptPreserves, RotationPreserves DEF Next

\* The invariant always holds.
THEOREM Inductive == Spec => []IInv
<1> QED BY InitEstablishes, StepPreserves, PTL DEF Spec

\* Whatever restarts, failures, re-runs, early answers to the script and writes
\* come in between, an API server that starts can read every Secret, unless it
\* answered a rotation before it had loaded the new key.
THEOREM SecretsSurvive == Spec => []LostByEarlyRotationOnly
<1>1. IInv => LostByEarlyRotationOnly
  BY DEF IInv, LostByEarlyRotationOnly
<1> QED BY <1>1, Inductive, PTL

\* PASS is printed, and stands through all rotations, only over a store without
\* a Secret in clear, unless the server the script waited for answered it before
\* it had loaded the key.
THEOREM PassIsTrue == Spec => []UntruePassByEarlyAnswerOnly
<1>1. IInv => UntruePassByEarlyAnswerOnly
  BY DEF IInv, Rewritten, PassMeansEncrypted, UntruePassByEarlyAnswerOnly
<1> QED BY <1>1, Inductive, PTL

-----------------------------------------------------------------------------
(***************************************************************************)
(* Types.                                                                  *)
(***************************************************************************)
\* Every key was generated, and whoever takes the first key of the file, or
\* relies on it, finds one.
Generated ==
    /\ Types
    /\ script = "manifest" \/ flagged \/ rotation # "off" => file # <<>>
    /\ Range(file) \subseteq used /\ Range(server.keys) \subseteq used
    /\ used \subseteq Keys

\* A server that starts, and the steps of script and rotation that leave the
\* keys alone.
LEMMA KeysKept ==
    Generated /\ (ServerStep \/ Check \/ ApplyManifest \/ Healthy \/ Prove \/ Abort
                    \/ Rerun \/ StartRewrite \/ UNCHANGED vars)
        => Generated'
<1> SUFFICES ASSUME Generated,
                    ServerStep \/ Check \/ ApplyManifest \/ Healthy \/ Prove \/ Abort
                        \/ Rerun \/ StartRewrite \/ UNCHANGED vars
             PROVE  Generated'
  OBVIOUS
<1> USE DEF Generated, Types
<1>1. WriteKey \in Keys \cup {Plain}
  BY HeadRange DEF WriteKey
<1>2. CASE Stop
  BY <1>2 DEF Stop
<1>3. CASE Start
  <2>1. Configured \in Seq(Keys) /\ Range(Configured) \subseteq used
    BY DEF Configured, Range
  <2> QED BY <1>3, <2>1 DEF Start
<1>4. ASSUME NEW s \in Secrets, ClientWrite(s) \/ Replace(s) PROVE Generated'
  <2>1. /\ etcd' = [etcd EXCEPT ![s] = WriteKey] /\ todo' \in {todo, todo \ {s}}
        /\ UNCHANGED <<file, flagged, server, used, script, rotation, early>>
    BY <1>4 DEF ClientWrite, Replace
  <2>2. etcd' \in [Secrets -> Keys \cup {Plain, None}] /\ todo' \subseteq Secrets
    BY <1>1, <2>1
  <2> QED BY <2>1, <2>2
<1>5. CASE Check \/ ApplyManifest
  <2>1. CASE Check
    BY <2>1 DEF Check
  <2>2. CASE ApplyManifest
    BY <2>2 DEF ApplyManifest
  <2> QED BY <1>5, <2>1, <2>2
<1>6. CASE Prove
  BY <1>6 DEF Prove
<1>7. CASE Abort \/ Rerun
  <2>1. CASE Abort
    BY <2>1 DEF Abort
  <2>2. CASE Rerun
    BY <2>2 DEF Rerun
  <2> QED BY <1>7, <2>1, <2>2
<1>8. CASE Healthy \/ StartRewrite
  <2>1. Stored \subseteq Secrets
    BY DEF Stored
  <2>2. CASE Healthy
    BY <2>1, <2>2 DEF Healthy, Serving
  <2>3. CASE StartRewrite
    BY <2>1, <2>3 DEF StartRewrite, Serving
  <2> QED BY <1>8, <2>2, <2>3
<1>9. CASE UNCHANGED vars
  BY <1>9 DEF vars
<1> HIDE DEF Generated, Types
<1> QED BY <1>2, <1>3, <1>4, <1>5, <1>6, <1>7, <1>8, <1>9 DEF ServerStep

\* The three steps that write the file.
LEMMA KeysChanged ==
    Generated /\ (DropOld \/ \E k \in Keys : PushConfig(k) \/ PushBoth(k)) => Generated'
<1> SUFFICES ASSUME Generated, DropOld \/ \E k \in Keys : PushConfig(k) \/ PushBoth(k)
             PROVE  Generated'
  OBVIOUS
<1> USE DEF Generated, Types
<1>1. CASE DropOld
  <2> DEFINE r == <<Head(file)>>
  <2>1. /\ r \in Seq(Keys) /\ r # <<>>
        /\ Range(r) \subseteq Range(file)
    BY <1>1, HeadRange DEF DropOld
  <2>2. /\ file' = r /\ rotation' = "off"
        /\ UNCHANGED <<flagged, server, etcd, used, script, todo, early>>
    BY <1>1 DEF DropOld
  <2> HIDE DEF r
  <2> QED BY <2>1, <2>2
<1>2. ASSUME NEW k \in Keys, PushConfig(k) PROVE Generated'
  <2> DEFINE r == <<k>>
  <2>1. r \in Seq(Keys) /\ r # <<>> /\ Range(r) = {k}
    BY DEF Range
  <2>2. /\ file' = r /\ used' = used \cup {k} /\ script' = "manifest"
        /\ UNCHANGED <<flagged, server, etcd, rotation, todo, early>>
    BY <1>2 DEF PushConfig
  <2> HIDE DEF r
  <2> QED BY <2>1, <2>2
<1>3. ASSUME NEW k \in Keys, PushBoth(k) PROVE Generated'
  <2> DEFINE r == <<k>> \o file
  <2>1. r \in Seq(Keys) /\ r # <<>> /\ Range(r) = {k} \cup Range(file)
    BY ConsRange
  <2>2. /\ file' = r /\ used' = used \cup {k} /\ rotation' = "both"
        /\ UNCHANGED <<flagged, server, etcd, script, todo, early>>
    BY <1>3 DEF PushBoth
  <2> HIDE DEF r
  <2> QED BY <2>1, <2>2
<1> QED BY <1>1, <1>2, <1>3

\* Whenever waits are answered, every key in the file or in
\* use was generated, and DropOld finds a key to keep.
THEOREM TypeCorrect == Spec => []TypeOK
<1>1. Init => Generated
  <2> SUFFICES ASSUME Init PROVE Generated
    OBVIOUS
  <2>1. <<>> \in Seq(Keys) /\ Range(<<>>) = {}
    BY DEF Range
  <2>2. etcd \in [Secrets -> Keys \cup {Plain, None}]
    BY DEF Init
  <2> QED BY <2>1, <2>2 DEF Init, Generated, Types
<1>2. Generated /\ [Next]_vars => Generated'
  BY KeysKept, KeysChanged DEF Next, ScriptStep, RotationStep
<1>3. Generated => TypeOK
  BY DEF Generated, Types, TypeOK
<1> QED BY <1>1, <1>2, <1>3, PTL DEF Spec

=============================================================================
