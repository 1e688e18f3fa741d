---------------------------- MODULE MCOtrClient ----------------------------
(* What a chat client learns of OTR: the trust that the proxy signals, for   *)
(* two contacts who may use the same key; what arrives at the client's end   *)
(* of one channel; and a conversation of two people who both use the proxy.  *)
(* In a behaviour one of the three runs.                                     *)
EXTENDS OtrSession, ChannelAdapter, OtrConversation, TLC

VARIABLE part

ClientInit ==
    /\ part \in {"session", "adapter", "talk"}
    /\ Init
    /\ AdapterInit
    /\ TalkInit /\ (part # "talk" => \A p \in Talkers : otrPolicy[p] = "manual")

ClientNext ==
    /\ UNCHANGED part
    /\ \/ part = "session" /\ Next /\ UNCHANGED <<linkVars, talkVars>>
       \/ part = "adapter" /\ AdapterNext /\ UNCHANGED <<vars, talkVars>>
       \/ part = "talk" /\ TalkNext /\ UNCHANGED <<vars, linkVars>>

ClientSpec == ClientInit /\ [][ClientNext]_<<part, vars, linkVars, talkVars>>

Symmetric == Permutations(Contacts) \cup Permutations(Fps) \cup Permutations(Talkers)
=============================================================================
