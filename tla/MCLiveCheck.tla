---------------------------- MODULE MCLiveCheck -----------------------------
(***************************************************************************)
(* Two runs of the live check, for the model as it is and for others that  *)
(* one edit leads to.                                                      *)
(***************************************************************************)
EXTENDS LiveModel

Changed(relation, rewrite) == [ModelFga EXCEPT ![relation] = rewrite]

MCModels ==
    {ModelFga,
     Changed("can_view", Either({"owner", "delegate"}, "can_view")),
     Changed("can_view", {s \in ModelFga.can_view : "delegate" \notin s}),
     Changed("can_transfer", SUBSET TermsOf["can_transfer"]),
     Changed("can_admin", Either({"operator"}, "can_admin")),
     Changed("can_admin", Either({"member from owner_team"}, "can_admin"))}

\* The script's tuples, with an operator and a second team; an account with two
\* owners, and delegates of one of them and of a third; nothing.
MCStores ==
    {TUPLES \cup {<<"alice", "operator", "billing-job">>, <<"carol", "member", "risk">>},
     {<<"alice", "owner", "acct-alice">>, <<"bob", "owner", "acct-alice">>,
      <<"assistant", "delegate", "bob">>, <<"helper", "delegate", "carol">>},
     {}}
MCNames == {"alice", "assistant", "bob", "carol", "helper", "acct-alice", "acct-bob", "billing-job"}
=============================================================================
