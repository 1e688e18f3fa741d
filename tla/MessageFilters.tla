---------------------------- MODULE MessageFilters ----------------------------
(***************************************************************************)
(* MessageProcessor, which runs every message through the filter plugins   *)
(* in the order of their weights, MessageFilterConfigManager, which loads  *)
(* and unloads the plugins that the settings turn on and off, and the one  *)
(* filter that is always there, MessageEscapeFilter.                       *)
(*                                                                         *)
(* A text is a sequence of characters; one that HTML needs to escape, and  *)
(* what stands for it, are one element each, like the tags that the filter *)
(* inserts.  What the expression for links matches is given by Links and   *)
(* MailAddresses.  Plugins other than the escape filter leave the text alone.  *)
(***************************************************************************)
EXTENDS Integers, Sequences, SequencesExt, FiniteSets

CONSTANTS
    Plugins,            \* installed message filters
    LoadableFilters,    \* those whose library can be loaded
    Weight,             \* Plugins -> Int
    Links,              \* texts that are links
    MailAddresses,      \* texts that are mail addresses
    Messages,           \* [text, sender, group, outgoing]
    MaxToggles          \* bound: changes of the settings

ASSUME FiltersAssumption ==
    /\ LoadableFilters \subseteq Plugins /\ Weight \in [Plugins -> Int] /\ MaxToggles \in Nat
    /\ IsFiniteSet(Plugins) /\ "__messageEscapeFilter" \notin Plugins

VARIABLES
    isPluginEnabled,    \* the settings of each plugin, which all KPluginInfo share
    enabledFilters,     \* MessageFilterConfigManager::Private::enabled
    processorExists,    \* MessageProcessor::instance() was called
    filters,            \* its filters, in order
    doubled,            \* history: the plugin whose activation made the processor
    reloadDue,          \* the settings have changed since reloadConfig
    toggles,            \* number of changes of the settings
    processed           \* what the processor returns, until the caller took it

filterPluginVars == <<isPluginEnabled, enabledFilters, processorExists, filters, doubled,
                      reloadDue, toggles, processed>>

Nothing == [text |-> <<>>]

EscapeFilter == "__messageEscapeFilter"
WeightOf(f) == IF f = EscapeFilter THEN 98 ELSE Weight[f]

-----------------------------------------------------------------------------
(* The escape filter.                                                      *)

\* QString::replace: every occurrence, from the left.
Replaced(s, before, after) ==
    LET n == Len(before)
        rest[i \in 1 .. Len(s) + 1] ==
            IF i > Len(s) THEN <<>>
            ELSE IF IsPrefix(before, SubSeq(s, i, Len(s))) THEN after \o rest[i + n]
            ELSE <<s[i]>> \o rest[i + 1]
    IN rest[1]

\* extractUrlData: where the links and addresses of a text begin, and their lengths.
UrlRanges(text) ==
    LET At(i) == {u \in Links \cup MailAddresses : IsPrefix(u, SubSeq(text, i, Len(text)))}
        from[i \in 1 .. Len(text) + 1] ==
            IF i > Len(text) THEN <<>>
            ELSE IF At(i) = {} THEN from[i + 1]
            ELSE LET u == CHOOSE v \in At(i) : \A w \in At(i) : Len(w) <= Len(v)
                 IN <<[first |-> i, second |-> Len(u), mailto |-> u \in MailAddresses]>>
                      \o from[i + Len(u)]
    IN from[1]

Placeholder(i) == <<"#", <<"0", "1", "2", "3">>[i], "#">>

\* Mutant: positions are those in the text with the links.
WithPlaceholderAt(found, i, range) ==
    IF range.mailto THEN found
    ELSE LET text == SubSeq(found.text, range.first, range.first + range.second - 1)
         IN [text |-> SubSeq(found.text, 1, range.first - 1) \o Placeholder(i)
                        \o SubSeq(found.text, range.first + range.second, Len(found.text)),
             offset |-> 0,
             links |-> Append(found.links, <<Placeholder(i), <<"<a>">> \o text \o <<"</a>">> >>)]

\* A link becomes a placeholder; later positions move by the difference in length.
WithPlaceholder(found, i, range) ==
    IF range.mailto THEN found
    ELSE LET at == range.first + found.offset
             text == SubSeq(found.text, at, at + range.second - 1)
         IN [text |-> SubSeq(found.text, 1, at - 1) \o Placeholder(i)
                        \o SubSeq(found.text, at + range.second, Len(found.text)),
             offset |-> found.offset + Len(Placeholder(i)) - Len(text),
             links |-> Append(found.links, <<Placeholder(i), <<"<a>">> \o text \o <<"</a>">> >>)]

toHtmlEscaped(text) ==
    [i \in DOMAIN text |-> CASE text[i] = "<" -> "&lt;" [] text[i] = "&" -> "&amp;"
                             [] OTHER -> text[i]]

\* Line breaks, and blanks that HTML would drop: after a "\n", and after one another.
keepBlanks(html) ==
    LET lead == Replaced(html, <<"\n", " ">>, <<"<br/>", "&nbsp;">>)
        lines == Replaced(lead, <<"\n">>, <<"<br/>">>)
        returns == Replaced(lines, <<"\r">>, <<"<br/>">>)
        tabs == Replaced(returns, <<"\t">>, <<"&nbsp;", " ", "&nbsp;", " ">>)
    IN Replaced(tabs, <<" ", " ">>, <<" ", "&nbsp;">>)

filterMessage(text) ==
    LET ranges == UrlRanges(text)
        found == FoldLeftDomain(LAMBDA f, i : WithPlaceholder(f, i, ranges[i]),
                                [text |-> text, offset |-> 0, links |-> <<>>], ranges)
    IN FoldLeft(LAMBDA html, link : Replaced(html, link[1], link[2]),
                keepBlanks(toHtmlEscaped(found.text)), found.links)

-----------------------------------------------------------------------------
(* Loading of plugins.                                                     *)

FiltersInit ==
    /\ isPluginEnabled \in [Plugins -> BOOLEAN]
    /\ enabledFilters = {p \in Plugins : isPluginEnabled[p]}
    /\ processorExists = FALSE /\ filters = <<>> /\ doubled = {}
    /\ reloadDue = FALSE /\ toggles = 0 /\ processed = Nothing

\* Mutant: the list is not sorted again.
Appended(list, p) == Append(list, p)

\* std::sort of a list that was sorted but for its last element.
InsertedByWeight(list, p) ==
    LET n == Cardinality({i \in DOMAIN list : WeightOf(list[i]) <= Weight[p]})
    IN SubSeq(list, 1, n) \o <<p>> \o SubSeq(list, n + 1, Len(list))

loadFilter(list, p) == IF p \in LoadableFilters THEN InsertedByWeight(list, p) ELSE list

\* The first of that name.
unloadFilter(list, p) ==
    LET i == CHOOSE j \in 0 .. Len(list) :
               /\ j > 0 => list[j] = p /\ p \notin Range(SubSeq(list, 1, j - 1))
               /\ j = 0 => p \notin Range(list)
    IN IF i = 0 THEN list ELSE RemoveAt(list, i)

\* The constructor loads what the configuration manager has as enabled.
NewProcessor(order, on) ==
    LET list[i \in 0 .. Len(order)] ==
            IF i = 0 THEN <<EscapeFilter>>
            ELSE IF order[i] \in on THEN loadFilter(list[i - 1], order[i])
            ELSE list[i - 1]
    IN list[Len(order)]

\* A step of reloadConfig for one plugin; the processor is made when it is needed.
Reloaded(now, order, p) ==
    LET was == p \in now.enabled
        on == IF was THEN now.enabled \ {p} ELSE now.enabled \cup {p}
        list == IF now.exists THEN now.filters ELSE NewProcessor(order, on)
    IN IF was = isPluginEnabled[p] THEN now
       ELSE [enabled |-> on, exists |-> TRUE,
             filters |-> IF was THEN unloadFilter(list, p) ELSE loadFilter(list, p),
             doubled |-> IF was \/ now.exists THEN now.doubled ELSE {p}]

\* reloadConfig goes through the set of plugins in an order of its own.
ReloadedAll(now, order) ==
    LET after[i \in 0 .. Len(order)] ==
            IF i = 0 THEN now ELSE Reloaded(after[i - 1], order, order[i])
    IN after[Len(order)]

reloadConfig(order) ==
    LET after == ReloadedAll([enabled |-> enabledFilters, exists |-> processorExists,
                              filters |-> filters, doubled |-> doubled], order)
    IN /\ processed = Nothing /\ reloadDue
       /\ enabledFilters' = after.enabled /\ processorExists' = after.exists
       /\ filters' = after.filters /\ doubled' = after.doubled
       /\ reloadDue' = FALSE
       /\ UNCHANGED <<isPluginEnabled, toggles, processed>>

\* The settings page turns a plugin on or off.
SettingChanged(p) ==
    /\ processed = Nothing /\ toggles < MaxToggles
    /\ isPluginEnabled' = [isPluginEnabled EXCEPT ![p] = ~@]
    /\ reloadDue' = TRUE /\ toggles' = toggles + 1
    /\ UNCHANGED <<enabledFilters, processorExists, filters, doubled, processed>>

instance(order) ==
    /\ ~processorExists
    /\ processorExists' = TRUE
    /\ filters' = NewProcessor(order, enabledFilters)
    /\ UNCHANGED <<isPluginEnabled, enabledFilters, doubled, reloadDue, toggles, processed>>

-----------------------------------------------------------------------------
(* Messages.                                                               *)

\* In a room the user is known by the identifier of the room.
SelfId(group) == IF group THEN "nick" ELSE "me"

\* Of what is received, only the user's own messages are local; without a sender, none is.
Direction(m) ==
    IF m.outgoing \/ m.sender = SelfId(m.group) THEN "LocalToRemote" ELSE "RemoteToLocal"

\* processIncomingMessage, processOutgoingMessage: filters have a part for each; that
\* of the escape filter for outgoing messages is empty.
processMessage(m) ==
    /\ processorExists /\ processed = Nothing
    /\ processed' = [text |-> m.text, html |-> IF m.outgoing THEN m.text ELSE filterMessage(m.text),
                     outgoing |-> m.outgoing, direction |-> Direction(m), applied |-> filters]
    /\ UNCHANGED <<isPluginEnabled, enabledFilters, processorExists, filters, doubled, reloadDue,
                   toggles>>

Taken ==
    /\ processed # Nothing
    /\ processed' = Nothing
    /\ UNCHANGED <<isPluginEnabled, enabledFilters, processorExists, filters, doubled, reloadDue,
                   toggles>>

FiltersNext ==
    \/ \E order \in SetToSeqs(Plugins) : reloadConfig(order) \/ instance(order)
    \/ \E p \in Plugins : SettingChanged(p)
    \/ \E m \in Messages : processMessage(m)
    \/ Taken

-----------------------------------------------------------------------------
(* Properties.                                                             *)

Occurrences(s, x) == Cardinality({i \in DOMAIN s : s[i] = x})

\* Once the settings were read, a message runs through each filter that is on and can
\* be loaded, once, the lighter first, whatever was turned on and off before.  A
\* filter whose activation made the processor is there twice, and once if it is
\* turned off again.
EnabledFiltersRun ==
    processorExists /\ ~reloadDue =>
        /\ \A p \in Plugins \ doubled :
             Occurrences(filters, p) = IF isPluginEnabled[p] /\ p \in LoadableFilters THEN 1 ELSE 0
        /\ Occurrences(filters, EscapeFilter) = 1
        /\ \A i, j \in DOMAIN filters : i < j => WeightOf(filters[i]) <= WeightOf(filters[j])

\* What HTML shows of a sequence of characters and tags: of several blanks in a row and
\* of those that begin a line, plain ones disappear.
Rendered(html) ==
    LET Show(seen, e) ==
          CASE e = "<br/>" -> [text |-> Append(seen.text, "\n"), blank |-> TRUE]
            [] e = "&nbsp;" -> [text |-> Append(seen.text, " "), blank |-> FALSE]
            [] e = " " -> IF seen.blank THEN seen
                          ELSE [text |-> Append(seen.text, " "), blank |-> TRUE]
            [] e \in {"<a>", "</a>"} -> [seen EXCEPT !.text = Append(@, e)]
            [] e = "&lt;" -> [text |-> Append(seen.text, "<"), blank |-> FALSE]
            [] e = "&amp;" -> [text |-> Append(seen.text, "&"), blank |-> FALSE]
            [] OTHER -> [text |-> Append(seen.text, e), blank |-> FALSE]
    IN FoldLeft(Show, [text |-> <<>>, blank |-> TRUE], html).text

\* Blanks that are lost: at the beginning of the message, and after a "\r".
LostBlanks(text) ==
    {i \in DOMAIN text : text[i] = " " /\ (i = 1 \/ (i > 1 /\ text[i - 1] = "\r"))}

\* The text as it was written, with its links marked, tabs as four blanks and each of
\* "\n" and "\r" as a line break.
Marked(text) ==
    LET links == {r \in Range(UrlRanges(text)) : ~r.mailto}
        Mark(i) ==
            (IF \E r \in links : r.first = i THEN <<"<a>">> ELSE <<>>)
              \o (CASE i \in LostBlanks(text) -> <<>>
                   [] text[i] = "\t" -> <<" ", " ", " ", " ">>
                   [] text[i] = "\r" -> <<"\n">>
                   [] OTHER -> <<text[i]>>)
              \o (IF \E r \in links : r.first + r.second - 1 = i THEN <<"</a>">> ELSE <<>>)
    IN FlattenSeq([i \in DOMAIN text |-> Mark(i)])

\* A message is shown as its author wrote it: links, characters that HTML reserves,
\* blanks and lines survive the way through placeholders, escapes and tags.  Left out:
\* a blank that begins the message or follows a "\r" is lost, and "\r\n", one line
\* break where it was written, is two.
ShownAsWritten ==
    processed # Nothing /\ ~processed.outgoing => Rendered(processed.html) = Marked(processed.text)
=============================================================================
