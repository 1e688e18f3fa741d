----------------------------- MODULE MCDesktop -----------------------------
(* Instances of the models, services and dialogs that share no state.  In a  *)
(* behaviour one of them runs, and the others stay as they began.            *)
EXTENDS ContactsFilter, AccountRows, Persons,
        Wallet, ServiceChecker, Migration, LogsImport, JoinRoom,
        Conversations, Pins, ChannelWatcher, ChatLog,
        MessageFilters, ContactActions, Avatars, DebugView, Dialogs

VARIABLE part

Parts == {"filter", "rows", "persons", "wallet", "checker", "migration", "import",
          "rooms", "conversations", "pins", "watcher", "log", "filters", "actions",
          "avatars", "debug", "dialogs"}

-----------------------------------------------------------------------------
(* Values.                                                                 *)

Text(letters, marks) == [letters |-> letters, marks |-> marks]

\* A contact with everything, one that is asked for a subscription, and one without groups.
MCDetails ==
    LET D(type, caps, tubes, subscription, name, groups, account, phone, rank) ==
          [presence |-> type, capabilities |-> caps, tubes |-> tubes,
           subscription |-> subscription, publish |-> "Yes", blocked |-> FALSE, name |-> name,
           groups |-> groups, id |-> Text("x", FALSE), account |-> account, phone |-> phone,
           rank |-> rank]
    IN {D("Available", {"text"}, {"chess"}, "Yes", Text("jose", TRUE), {Text("work", FALSE)},
          "a", FALSE, 2),
        D("Offline", {}, {}, "Ask", Text("ann", FALSE), {Text("work", FALSE), Text("home", FALSE)},
          "b", FALSE, 1),
        D("Available", {"text", "audio"}, {}, "No", Text("ann", FALSE), {}, "a", TRUE, 1)}

MCFilterValues ==
    [presences |-> {{}, {"Offline", "Unknown"}}, capabilities |-> {{}, {"text"}, {"tubes"}},
     tubes |-> {{"chess"}}, subscription |-> {{<<"subscription", "No">>}, {<<"blocked", "no">>}},
     global |-> {Text("work", FALSE), Text("jose", FALSE), Text("jose", TRUE)},
     globalExactly |-> {TRUE}, name |-> {Text("ann", FALSE)}, groups |-> {Text("work", FALSE)},
     id |-> {Text("x", FALSE)}, account |-> {{"a"}}]

\* Logs of one month, in the order of time but for a message with a broken time, before a
\* file of the next month; and those of an account with a file that is not valid.
Message(day, time) == [day |-> day, time |-> time]
File(month, room, valid, messages) ==
    [contact |-> "c", month |-> month, room |-> room, valid |-> valid, messages |-> messages]

Moments == <<Message(1, "noon"), Message(2, "noon"), Message(2, "late"), Message(3, "late"),
           Message(1, "broken")>>
InOrder(s) == \A i, j \in DOMAIN s : i < j /\ 5 \notin {s[i], s[j]} => s[i] <= s[j]
MCLogs ==
    {[a |-> <<File(1, room, TRUE, [i \in 1 .. 3 |-> Moments[s[i]]]),
              File(2, FALSE, TRUE, <<Moments[2]>>)>>,
      b |-> IF room THEN <<>>
            ELSE <<File(1, FALSE, FALSE, <<Moments[2]>>), File(2, FALSE, TRUE, <<Moments[2]>>)>>] :
        s \in {t \in [1 .. 3 -> 1 .. 5] : InOrder(t)}, room \in BOOLEAN}

\* Texts of one or two pieces, and some longer ones; the sender matters for one text only.
MCLinks == {<<"l", "k", "n", "m">>, <<"u", "&">>}
MCMails == {<<"@", "m">>}
Pieces == {<<"a">>, <<"<">>, <<" ">>, <<"\n">>, <<"\r">>, <<"\t">>} \cup MCLinks \cup MCMails
Texts == Pieces \cup {x \o y : x, y \in Pieces}
           \cup {<<"a", " ", " ", " ">>, <<"a", "\n", " ", "\t", " ">>, <<"a", "\r", "\n", " ">>,
                 <<"\n", "\r", " ", " ", "a">>,
                 <<"u", "&", " ", "@", "m", "a", "l", "k", "n", "m">>}
MCMessages ==
    {[text |-> x, sender |-> "you", group |-> FALSE, outgoing |-> FALSE] :
        x \in Texts}
      \cup [text : {<<"a">>}, sender : {"me", "nick", "you", "none"}, group : BOOLEAN,
            outgoing : BOOLEAN]
MCWeight == [f \in Plugins |-> IF f = "q" THEN 90 ELSE 100]

MCAddresses == [account : {"a"}, contact : {"x", "y"}]
MCCapabilities ==
    {[self |-> {"text", "gabble-audio", "audio", "file"},
      contact |-> {"text", "gabble-audio", "audio", "file", "infinote"}]}
MCFiles == {[name |-> "f.exe", forbidden |-> TRUE]}

\* The id of c is the beginning of that of d.
MCBeginning == [b \in Buddies |-> IF b = "c" THEN {"c", "d"} ELSE {b}]

MCIdOf == [k \in AvatarContacts |-> k]
MCStoredTokens == {[k \in AvatarContacts |-> IF k = "k" THEN 1 ELSE 0]}

-----------------------------------------------------------------------------
Init ==
    /\ part \in Parts
    /\ FilterInit
    /\ RowsInit
    /\ PersonsInit /\ (part # "persons" => cacheDb = {})
    /\ WalletInit /\ (part # "wallet" => enabled)
    /\ CheckerInit /\ (part # "checker" => owned /\ activatable)
    /\ MigrationInit /\ (part # "migration" =>
         tpAccounts = [a \in OldAccounts |-> "plain"] /\ mapped = [a \in OldAccounts |-> "none"])
    /\ ImportInit /\ (part # "import" =>
         zone = 0 /\ DOMAIN logs = {} /\ kopete = CHOOSE k \in MCLogs : TRUE)
    /\ JoinInit /\ (part # "rooms" => favoriteRoomsGroup = {} /\ recentRoomsGroup = {})
    /\ ConversationsInit
    /\ PinsInit
    /\ WatcherInit
    /\ ChatLogInit /\ (part # "log" => db = {})
    /\ FiltersInit /\ (part # "filters" => enabledFilters = {})
    /\ ActionsInit
    /\ AvatarsInit
    /\ DebugInit /\ (part # "debug" => emitted = 0 /\ viewVisible)
    /\ DialogInit /\ (part # "dialogs" =>
         dialog = "join"
         /\ connectionOf = [a \in DialogAccounts |-> 0])

Stays(p, v) == part # p => UNCHANGED v

Next ==
    /\ UNCHANGED part
    /\ Stays("filter", filterVars) /\ Stays("rows", rowVars)
    /\ Stays("persons", personVars) /\ Stays("wallet", walletVars)
    /\ Stays("checker", checkerVars) /\ Stays("migration", migrationVars)
    /\ Stays("import", importVars) /\ Stays("rooms", joinVars)
    /\ Stays("conversations", conversationVars) /\ Stays("pins", pinVars)
    /\ Stays("watcher", watcherVars) /\ Stays("log", logVars)
    /\ Stays("filters", filterPluginVars)
    /\ Stays("actions", actionVars) /\ Stays("avatars", avatarVars) /\ Stays("debug", debugVars)
    /\ Stays("dialogs", dialogVars)
    /\ \/ part = "filter" /\ FilterNext
       \/ part = "rows" /\ RowsNext
       \/ part = "persons" /\ PersonsNext
       \/ part = "wallet" /\ WalletNext
       \/ part = "checker" /\ CheckerNext
       \/ part = "migration" /\ MigrationNext
       \/ part = "import" /\ ImportNext
       \/ part = "rooms" /\ JoinNext
       \/ part = "conversations" /\ ConversationsNext
       \/ part = "pins" /\ PinsNext
       \/ part = "watcher" /\ WatcherNext
       \/ part = "log" /\ ChatLogNext
       \/ part = "filters" /\ FiltersNext
       \/ part = "actions" /\ ActionsNext
       \/ part = "avatars" /\ AvatarsNext
       \/ part = "debug" /\ DebugNext
       \/ part = "dialogs" /\ DialogNext

vars == <<part, filterVars, rowVars, personVars, walletVars, checkerVars, migrationVars,
          importVars, joinVars, conversationVars, pinVars, watcherVars, logVars,
          filterPluginVars, actionVars, avatarVars, debugVars, dialogVars>>

Spec == Init /\ [][Next]_vars
=============================================================================
