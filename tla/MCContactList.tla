--------------------------- MODULE MCContactList ---------------------------
(* Instances of ContactList for TLC: contacts k1 and k2 of one account, k3   *)
(* of another.                                                              *)
EXTENDS ContactList

CONSTANTS xmpp, irc, k1, k2, k3

MCAccountOf == [k \in Contacts |-> IF k = k3 THEN irc ELSE xmpp]

\* Only one of them connects again.
Reconnects == xmpp :> 1 @@ irc :> 2
=============================================================================
