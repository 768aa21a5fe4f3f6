--------------------------- MODULE TierCapability ---------------------------
(***************************************************************************)
(* What workload identity promises, with no policy, kind or requester in   *)
(* sight: running under a tier ServiceAccount is a capability.  A trusted  *)
(* requester may place one anywhere; a controller may only copy one from   *)
(* the object it acts for; and one that nobody trusted asked for can       *)
(* appear, other than as such a copy, only while the gate is open.         *)
(***************************************************************************)
CONSTANTS Slots, TierSAs, None

VARIABLES
    open,  \* whether the gate lets untrusted requesters through
    cap    \* slot -> the capability it holds, or None

Capability == [sa: TierSAs, sound: BOOLEAN]

Init ==
    /\ open = TRUE
    /\ cap = [s \in Slots |-> None]

SetGate ==
    /\ open' \in BOOLEAN
    /\ UNCHANGED cap

Place(s, sound) ==
    /\ sound \/ open
    /\ \E sa \in TierSAs : cap' = [cap EXCEPT ![s] = [sa |-> sa, sound |-> sound]]
    /\ UNCHANGED open

Copy(s, c) ==
    /\ cap' = [cap EXCEPT ![c] = cap[s]]
    /\ UNCHANGED open

Drop(s) ==
    /\ cap' = [cap EXCEPT ![s] = None]
    /\ UNCHANGED open

Next ==
    \/ SetGate
    \/ \E s \in Slots : Drop(s) \/ \E sound \in BOOLEAN : Place(s, sound)
    \/ \E s, c \in Slots : Copy(s, c)

Spec == Init /\ [][Next]_<<open, cap>>
=============================================================================
