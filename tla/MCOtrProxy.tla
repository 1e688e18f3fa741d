----------------------------- MODULE MCOtrProxy -----------------------------
(* Instances of OtrProxy for TLC: one channel whose client reconnects, or    *)
(* two channels of one account, which compete for its key.                  *)
EXTENDS OtrProxy

CONSTANTS c1, c2, a1

OneChannel == {c1}
TwoChannels == {c1, c2}
OneAccount == {a1}
Shared == [c \in Channels |-> a1]
UserPolicies == {"MANUAL", "NEVER"}
ManualPolicy == {"MANUAL"}
=============================================================================
