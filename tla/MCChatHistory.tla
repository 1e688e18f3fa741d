--------------------------- MODULE MCChatHistory ---------------------------
(* ChatHistory and LogQueries for TLC: a chat that fetches its history, and  *)
(* the queries of several loggers; in a behaviour one of them runs.          *)
EXTENDS ChatHistory, LogQueries

VARIABLE part

\* A chat with messages of two earlier dates.
TwoDates == {<<<<1, 2>>, <<3>>>>}

\* All messages have a token, or two have none, of which one comes.
SomeWithoutToken == {{}, {3, 4}}

\* Plugins that share a day of one contact; the id of e cannot be converted.
MCDatabases ==
    {[p \in LogPlugins |->
        IF p = "p" THEN [c \in LogContacts |-> CASE c = "c" -> {1, 2, 3} [] c = "d" -> {}
                                                [] c = "e" -> {1}]
        ELSE [c \in LogContacts |-> CASE c = "c" -> {3} [] c = "d" -> {1} [] c = "e" -> {}]]}

BothInit ==
    /\ part \in {"chat", "queries"}
    /\ HistoryInit /\ (part # "chat" => ~room /\ tokenless = {})
    /\ QueriesInit

BothNext ==
    /\ UNCHANGED part
    /\ \/ part = "chat" /\ HistoryNext /\ UNCHANGED logQueryVars
       \/ part = "queries" /\ QueriesNext /\ UNCHANGED historyVars

\* The fairness of FairHistorySpec; a chat that does not run has no query to answer.
BothSpec ==
    /\ BothInit /\ [][BothNext]_<<part, historyVars, logQueryVars>>
    /\ WF_historyVars(Answers)
=============================================================================
