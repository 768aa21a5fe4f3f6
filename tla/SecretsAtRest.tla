---------------------------- MODULE SecretsAtRest ----------------------------
(***************************************************************************)
(* Encryption of Secrets in etcd: scripts/enable-secrets-encryption.sh     *)
(* turns it on in the running cluster, runbooks/02-key-rotation.md changes *)
(* the key, both around an API server that reads its configuration only    *)
(* when it starts, that restarts when the kubelet sees its manifest change *)
(* or on its own, and that clients write Secrets through all the while.    *)
(***************************************************************************)
EXTENDS Naturals, Sequences, Functions

CONSTANTS
    Secrets,  \* names of Secrets
    Keys,     \* AES keys that may be generated (a bound)
    Plain,    \* stored in clear
    None      \* not stored

ASSUME SecretsAssumption ==
    Plain \notin Keys /\ None \notin Keys \cup {Plain}

VARIABLES
    file,      \* enc.yaml on the node: its aescbc keys, the first one writes
    flagged,   \* the apiserver manifest carries the encryption flag
    server,    \* [up, keys]: the API server and the keys it loaded
    etcd,      \* Secret -> the key it is stored under, Plain or None
    used,      \* the keys generated so far
    script,    \* how far the script is
    rotation,  \* how far a rotation is
    todo,      \* Secrets that a re-encryption still has to write back
    early      \* history: of "script" and "rotation", those whose wait was
               \* answered by a server that had not loaded what was pushed

vars == <<file, flagged, server, etcd, used, script, rotation, todo, early>>

\* `identity' is the last provider: without a key, Secrets are stored plain.
WriteKey == IF server.keys = <<>> THEN Plain ELSE Head(server.keys)
Stored == {s \in Secrets : etcd[s] # None}
Readable(s, keys) == etcd[s] \in Range(keys) \cup {Plain, None}

\* What an API server that starts now loads.
Configured == IF flagged THEN file ELSE <<>>

Init ==
    /\ file = <<>> /\ flagged = FALSE
    /\ server = [up |-> TRUE, keys |-> <<>>]
    /\ etcd \in [Secrets -> {Plain, None}]
    /\ used = {} /\ script = "start" /\ rotation = "off" /\ todo = {}
    /\ early = {}

-----------------------------------------------------------------------------
\* The API server (external) and its clients.
Stop ==
    /\ server.up
    /\ server' = [server EXCEPT !.up = FALSE]
    /\ UNCHANGED <<file, flagged, etcd, used, script, rotation, todo, early>>

Start ==
    /\ ~server.up
    /\ server' = [up |-> TRUE, keys |-> Configured]
    /\ UNCHANGED <<file, flagged, etcd, used, script, rotation, todo, early>>

ClientWrite(s) ==
    /\ server.up /\ Readable(s, server.keys)
    /\ etcd' = [etcd EXCEPT ![s] = WriteKey]
    /\ UNCHANGED <<file, flagged, server, used, script, rotation, todo, early>>

\* A wait is over when the API server answers, restarted or not.
Serving(who) ==
    /\ server.up
    /\ early' = early \cup {w \in {who} : server.keys # Configured}

-----------------------------------------------------------------------------
(***************************************************************************)
(* The script.                                                             *)
(***************************************************************************)
\* With the flag in the manifest a run ends at once.
Check ==
    /\ script = "start"
    /\ script' = IF flagged THEN "skipped" ELSE "key"
    /\ UNCHANGED <<file, flagged, server, etcd, used, rotation, todo, early>>

PushUnexpanded(k) ==  \* a slip: the template pushed without a key put in
    /\ script = "key"
    /\ k \notin used
    /\ file' = <<None>> /\ used' = used \cup {k} /\ script' = "manifest"
    /\ UNCHANGED <<flagged, server, etcd, rotation, todo, early>>

\* Steps 1 and 2: a fresh key1, pushed to the node.
PushConfig(k) ==
    /\ script = "key"
    /\ k \notin used
    /\ file' = <<k>> /\ used' = used \cup {k} /\ script' = "manifest"
    /\ UNCHANGED <<flagged, server, etcd, rotation, todo, early>>

\* Steps 3 and 4.
ApplyManifest ==
    /\ script = "manifest"
    /\ flagged' = TRUE /\ script' = "wait"
    /\ UNCHANGED <<file, server, etcd, used, rotation, todo, early>>

HealthyNoRewrite ==  \* a slip: the Secrets already stored are not rewritten
    /\ script = "wait" /\ Serving("script")
    /\ script' = "reencrypt" /\ todo' = {}
    /\ UNCHANGED <<file, flagged, server, etcd, used, rotation>>

\* `get ns default' is answered, or it is not within the 60 tries.
Healthy ==
    /\ script = "wait" /\ Serving("script")
    /\ script' = "reencrypt" /\ todo' = Stored
    /\ UNCHANGED <<file, flagged, server, etcd, used, rotation>>

\* kubectl get | kubectl replace, Secret by Secret.
Replace(s) ==
    /\ s \in todo /\ server.up /\ Readable(s, server.keys)
    /\ etcd' = [etcd EXCEPT ![s] = WriteKey]
    /\ todo' = todo \ {s}
    /\ UNCHANGED <<file, flagged, server, used, script, rotation, early>>

\* Step 6: the Secret atrest-proof is stored encrypted, or the script fails.
Prove ==
    /\ script = "reencrypt" /\ todo = {} /\ server.up
    /\ script' = IF WriteKey = Plain THEN "failed" ELSE "passed"
    /\ UNCHANGED <<file, flagged, server, etcd, used, rotation, todo, early>>

\* set -e, a timeout or the operator ends a run; a run can be started again.
Abort ==
    /\ script \in {"key", "manifest", "wait", "reencrypt"}
    /\ script' = "failed" /\ todo' = {}
    /\ UNCHANGED <<file, flagged, server, etcd, used, rotation, early>>

Rerun ==
    /\ script \in {"skipped", "failed", "passed"}
    /\ script' = "start"
    /\ UNCHANGED <<file, flagged, server, etcd, used, rotation, todo, early>>

-----------------------------------------------------------------------------
(***************************************************************************)
(* The rotation, by an operator and not during a run of the script.        *)
(***************************************************************************)
Rotatable == script \in {"start", "skipped", "failed", "passed"} /\ flagged

\* A slip: the old key replaced at once.
PushNewOnly(k) ==
    /\ Rotatable /\ rotation = "off"
    /\ k \notin used
    /\ file' = <<k>> /\ used' = used \cup {k} /\ rotation' = "both"
    /\ UNCHANGED <<flagged, server, etcd, script, todo, early>>

\* Step 1: the new key first, the old one still there.
PushBoth(k) ==
    /\ Rotatable /\ rotation = "off"
    /\ k \notin used
    /\ file' = <<k>> \o file /\ used' = used \cup {k} /\ rotation' = "both"
    /\ UNCHANGED <<flagged, server, etcd, script, todo, early>>

\* Step 2.
StartRewrite ==
    /\ rotation = "both" /\ Serving("rotation")
    /\ rotation' = "rewrite" /\ todo' = Stored
    /\ UNCHANGED <<file, flagged, server, etcd, used, script>>

\* Step 3: the old key goes.
DropOld ==
    /\ rotation = "rewrite" /\ todo = {}
    /\ file' = <<Head(file)>> /\ rotation' = "off"
    /\ UNCHANGED <<flagged, server, etcd, used, script, todo, early>>

-----------------------------------------------------------------------------
ServerStep == Stop \/ Start \/ \E s \in Secrets : ClientWrite(s) \/ Replace(s)

ScriptStep ==
    \/ Check \/ ApplyManifest \/ Healthy \/ Prove \/ Abort
    \/ rotation = "off" /\ Rerun
    \/ \E k \in Keys : PushConfig(k)

RotationStep == StartRewrite \/ DropOld \/ \E k \in Keys : PushBoth(k)

Next == ServerStep \/ ScriptStep \/ RotationStep

Spec == Init /\ [][Next]_vars

-----------------------------------------------------------------------------
\* Every key in use was generated, and the runs are at one of their steps.
TypeOK ==
    /\ Range(file) \cup Range(server.keys) \subseteq used /\ used \subseteq Keys
    /\ flagged \in BOOLEAN /\ server.up \in BOOLEAN
    /\ etcd \in [Secrets -> Keys \cup {Plain, None}]
    /\ script \in {"start", "skipped", "key", "manifest", "wait", "reencrypt",
                   "passed", "failed"}
    /\ rotation \in {"off", "both", "rewrite"}
    /\ todo \subseteq Secrets
    /\ early \subseteq {"script", "rotation"}

\* No Secret is lost: an API server that restarts now can read every one.
\* (What runbook 02:34-35 promises.)
NoSecretLost == \A s \in Secrets : Readable(s, Configured)

\* Where the script says PASS, no Secret is in clear in etcd.
PassMeansEncrypted == script = "passed" => \A s \in Secrets : etcd[s] # Plain

\* Nothing but the wait of a rotation loses a Secret: no crash, restart, failed
\* run, early answer to the script or client's write, nor any number of
\* rotations whose waits were answered by the restarted server.
LostByEarlyRotationOnly == "rotation" \in early \/ NoSecretLost

\* Nothing but the wait of the script makes its PASS untrue, whatever restarts,
\* client writes and rotations, early ones among them, come before and after.
UntruePassByEarlyAnswerOnly == "script" \in early \/ PassMeansEncrypted

=============================================================================
