------------------------------- MODULE MCApi --------------------------------
(***************************************************************************)
(* An instance of Api: an owner with a frozen and an open account, an      *)
(* auditor without a limit, and amounts around every boundary.             *)
(***************************************************************************)
EXTENDS EdgeLint

MCUsers == {"alice", "carol"}
MCAuditors == {"carol"}
MCLimit == [alice |-> 2, carol |-> 0]
MCAccounts == {"acct-alice", "acct-alice-frozen"}
MCOwner == [a \in MCAccounts |-> "alice"]
MCFrozen == {"acct-alice-frozen"}

\* In halves: below -MaxLong - 1, negative, -1/2, 0, 1/2, 1, the limit, 1/2
\* above it, one above it, the default, and above MaxLong.
MCNumbers == {-14, -2, -1, 0, 1, 2, 4, 5, 6, 8, 12}
=============================================================================
