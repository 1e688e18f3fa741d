------------------------------ MODULE LogQueries ------------------------------
(***************************************************************************)
(* LogManager's queries, each of which asks all logger plugins and joins   *)
(* what they return, the plugin for the Telepathy logger, and two users:   *)
(* the chat page of a person (kpeople_chat_plugin), which shows the last   *)
(* days of its log, and a viewer, which lists entities and searches.       *)
(*                                                                         *)
(* With a contact there is at most one message on a day; several plugins   *)
(* may have it, and each finds it whatever it searches for.  All queries   *)
(* are of one account.                                                     *)
(***************************************************************************)
EXTENDS Integers, Sequences, SequencesExt, FiniteSets, FiniteSetsExt

CONSTANTS
    LogPlugins,         \* plugins that were loaded
    LogContacts,        \* contacts that there are logs of
    Latin,              \* those whose id and alias are Latin-1
    LogDays,            \* days, as numbers
    Databases,          \* what the plugins may have: plugin -> contact -> days
    NumberOfLogs,       \* days that the chat page shows (5)
    MaxLookups,         \* bound: pages that are opened and queries of the viewer
    MaxFlawed           \* bound: plugins that ever fail

\* Plugins have logs of finitely many contacts and days.
ASSUME QueriesAssumption ==
    /\ IsFiniteSet(LogPlugins) /\ IsFiniteSet(LogContacts) /\ Latin \subseteq LogContacts
    /\ LogDays \subseteq Nat \ {0} /\ IsFiniteSet(LogDays)
    /\ Databases \subseteq [LogPlugins -> [LogContacts -> SUBSET LogDays]]
    /\ NumberOfLogs \in Nat \ {0}

VARIABLES
    database,           \* what the plugins have
    accountValid,       \* Tp::Account::isValid
    queries,            \* the operations that exist
    pageRows,           \* the chat plugin's model, one for all pages
    opened,             \* history: contacts whose pages asked for logs, in order
    answered, lookups,  \* the viewer's last answer; number of its queries
    flawed, logsDisturbed   \* history: plugins that failed; logs cleared or account removed, once

logQueryVars == <<database, accountValid, queries, pageRows, opened, answered, lookups, flawed,
               logsDisturbed>>

NoAnswer == [kind |-> "none"]

QueriesInit ==
    /\ database \in Databases
    /\ accountValid = TRUE
    /\ queries = <<>> /\ pageRows = <<>> /\ opened = <<>>
    /\ answered = NoAnswer /\ lookups = 0
    /\ flawed = {} /\ logsDisturbed = FALSE

-----------------------------------------------------------------------------
(* The plugin: its entities have 8-bit ids, and other characters are lost.  *)

toTplEntity(contact) == IF contact \in Latin THEN {contact} ELSE {}

DaysOf(p, contact) == UNION {database[p][c] : c \in toTplEntity(contact)}

LogEntry(c, d) == [contact |-> c, day |-> d]

InOrderOfDays(days) ==
    CHOOSE s \in SetToSeqs(days) : \A i, j \in DOMAIN s : i < j => s[i] < s[j]

DatesFound(p, q) == InOrderOfDays(DaysOf(p, q.contact))

LogsFound(p, q) ==
    IF q.day \in DaysOf(p, q.contact) THEN <<LogEntry(q.contact, q.day)>> ELSE <<>>

EntitiesFound(p) == SetToSeq({c \in LogContacts : database[p][c] # {}})

HitsFound(p) ==
    SetToSeq({LogEntry(x[1], x[2]) :
                x \in {y \in LogContacts \X LogDays : y[2] \in database[p][y[1]]}})

FoundBy(p, q) ==
    CASE q.kind = "dates" -> DatesFound(p, q)
      [] q.kind = "logs" -> LogsFound(p, q)
      [] q.kind = "entities" -> EntitiesFound(p)
      [] q.kind = "search" -> HitsFound(p)

handlesAccount == accountValid

logsExist(contact) == handlesAccount /\ \E p \in LogPlugins : DaysOf(p, contact) # {}

-----------------------------------------------------------------------------
(* Queries of all plugins.                                                 *)

\* Without plugins it finishes; if no plugin handles the account, it never does.
Query(kind, contact, day, asked) ==
    [kind |-> kind, contact |-> contact, day |-> day, result |-> <<>>, running |-> asked,
     finishing |-> LogPlugins = {}]

Handling == IF handlesAccount THEN LogPlugins ELSE {}

queryDates(contact) == Query("dates", contact, 0, Handling)
queryLogs(contact, day) == Query("logs", contact, day, Handling)
queryEntities == Query("entities", "", 0, Handling)
search == Query("search", "", 0, LogPlugins)

\* Mutant: a date that several plugins have is there more than once.
JoinedTwice(result, new) == result \o new

\* Dates and entities are listed once: each is looked for in the list so far.
JoinedOnce(result, new) ==
    LET joined[i \in 0 .. Len(new)] ==
            IF i = 0 THEN result
            ELSE IF new[i] \in Range(joined[i - 1]) THEN joined[i - 1]
            ELSE Append(joined[i - 1], new[i])
    IN joined[Len(new)]

Times(s, x) == Cardinality({i \in DOMAIN s : s[i] = x})

\* std::sort of dates.
Sorted(s) ==
    CHOOSE t \in [DOMAIN s -> Range(s)] :
        /\ \A x \in Range(s) : Times(t, x) = Times(s, x)
        /\ \A i, j \in DOMAIN s : i < j => t[i] <= t[j]

JoinedDates(q, new, left) ==
    LET joined == JoinedOnce(q.result, new)
    IN IF left = {} THEN Sorted(joined) ELSE joined

\* What several plugins have comes several times.
JoinedLogs(q, new) == q.result \o new
JoinedEntities(q, new) == JoinedOnce(q.result, new)
JoinedHits(q, new) == q.result \o new

Joined(q, new, left) ==
    CASE q.kind = "dates" -> JoinedDates(q, new, left)
      [] q.kind = "logs" -> JoinedLogs(q, new)
      [] q.kind = "entities" -> JoinedEntities(q, new)
      [] q.kind = "search" -> JoinedHits(q, new)

\* The operation of a plugin has finished; one that failed has no results, and its
\* error goes no further.
operationFinished(i, p, fails) ==
    LET q == queries[i]
        left == q.running \ {p}
        result == Joined(q, IF fails THEN <<>> ELSE FoundBy(p, q), left)
    IN /\ p \in q.running
       /\ queries' = [queries EXCEPT ![i] = [q EXCEPT !.running = left, !.result = result,
                                                      !.finishing = left = {}]]
       /\ flawed' = IF fails THEN flawed \cup {p} ELSE flawed
       /\ Cardinality(flawed') <= MaxFlawed
       /\ UNCHANGED <<database, accountValid, pageRows, opened, answered, lookups, logsDisturbed>>

-----------------------------------------------------------------------------
(* The chat page.                                                          *)

createDetailsWidget(contact) ==
    /\ Len(opened) + lookups < MaxLookups
    /\ logsExist(contact)
    /\ queries' = Append(queries, queryDates(contact))
    /\ opened' = Append(opened, contact)
    /\ UNCHANGED <<database, accountValid, pageRows, answered, lookups, flawed, logsDisturbed>>

LastDays(dates) ==
    IF Len(dates) <= NumberOfLogs THEN dates
    ELSE SubSeq(dates, Len(dates) - NumberOfLogs + 1, Len(dates))

\* finished(): the operation is deleted after its slot ran.
Finished(i, kinds) ==
    /\ queries[i].finishing /\ queries[i].kind \in kinds
    /\ UNCHANGED <<database, accountValid, opened, lookups, flawed, logsDisturbed>>

onPendingDates(i) ==
    LET days == LastDays(queries[i].result)
    IN /\ Finished(i, {"dates"})
       /\ queries' = RemoveAt(queries, i) \o
                       [n \in DOMAIN days |-> queryLogs(queries[i].contact, days[n])]
       /\ UNCHANGED <<pageRows, answered>>

\* The rows of all pages are in one model.
onPageEventsFinished(i) ==
    /\ Finished(i, {"logs"})
    /\ pageRows' = pageRows \o queries[i].result
    /\ queries' = RemoveAt(queries, i)
    /\ UNCHANGED answered

-----------------------------------------------------------------------------
(* The viewer.                                                             *)

Lookup(query) ==
    /\ Len(opened) + lookups < MaxLookups
    /\ lookups' = lookups + 1
    /\ queries' = Append(queries, query)
    /\ answered' = NoAnswer
    /\ UNCHANGED <<database, accountValid, pageRows, opened, flawed, logsDisturbed>>

LookupFinished(i) ==
    /\ Finished(i, {"entities", "search"})
    /\ answered' = queries[i]
    /\ queries' = RemoveAt(queries, i)
    /\ UNCHANGED pageRows

clearContactLogs(contact) ==
    /\ logsExist(contact) /\ ~logsDisturbed
    /\ database' = [p \in LogPlugins |->
                      [c \in LogContacts |-> IF c \in toTplEntity(contact) THEN {}
                                             ELSE database[p][c]]]
    /\ logsDisturbed' = TRUE
    /\ UNCHANGED <<accountValid, queries, pageRows, opened, answered, lookups, flawed>>

clearAccountLogs ==
    /\ handlesAccount /\ ~logsDisturbed
    /\ database' = [p \in LogPlugins |-> [c \in LogContacts |-> {}]]
    /\ logsDisturbed' = TRUE
    /\ UNCHANGED <<accountValid, queries, pageRows, opened, answered, lookups, flawed>>

AccountRemovedFromManager ==
    /\ accountValid /\ ~logsDisturbed
    /\ accountValid' = FALSE /\ logsDisturbed' = TRUE
    /\ UNCHANGED <<database, queries, pageRows, opened, answered, lookups, flawed>>

QueriesNext ==
    \/ \E c \in LogContacts : createDetailsWidget(c) \/ clearContactLogs(c)
    \/ \E i \in DOMAIN queries :
         \/ \E p \in LogPlugins, fails \in BOOLEAN : operationFinished(i, p, fails)
         \/ onPendingDates(i) \/ onPageEventsFinished(i) \/ LookupFinished(i)
    \/ Lookup(queryEntities) \/ Lookup(search)
    \/ clearAccountLogs
    \/ AccountRemovedFromManager

-----------------------------------------------------------------------------
(* Properties.                                                             *)

PagesAreFilled == \A i \in DOMAIN queries : queries[i].kind \in {"entities", "search"}

\* The plugins that have a message, and the days that they have messages with a contact of.
Holding(e) == {p \in LogPlugins : e.day \in database[p][e.contact]}
HeldDays(contact) == UNION {database[p][contact] : p \in LogPlugins}

\* In s, e is n times what each plugin brings that has it and did not fail, and no plugin
\* brings it more often.
AsOftenAsHeld(s, e, n) ==
    /\ Times(s, e) >= n * Cardinality(Holding(e) \ flawed)
    /\ Times(s, e) <= n * Cardinality(Holding(e))

\* A page shows what the plugins have of the last days with a contact, if its id is
\* Latin-1: nothing is left out because a plugin answers late, fails, or has other days
\* than the next, and nothing comes twice from one.  A message that several plugins have
\* comes from each of them: the code leaves duplicates.  The model keeps what earlier
\* pages brought.
PagesShowLogs ==
    ~logsDisturbed =>
        /\ \A e \in Range(pageRows) :
             Times(pageRows, e) <= Times(opened, e.contact) * Cardinality(Holding(e))
        /\ PagesAreFilled =>
             \A c \in Range(opened) \cap Latin :
                \A d \in Range(LastDays(InOrderOfDays(HeldDays(c)))) :
                    AsOftenAsHeld(pageRows, LogEntry(c, d), Times(opened, c))

\* The viewer's answer names each entity once, and each hit as often as plugins have it;
\* and only a query for an account that no plugin handles is left waiting for nobody.
LookupsAreAnswered ==
    /\ answered.kind = "entities" /\ ~logsDisturbed =>
         /\ IsInjective(answered.result)
         /\ {c \in LogContacts : \E p \in LogPlugins \ flawed : database[p][c] # {}}
              \subseteq Range(answered.result)
    /\ answered.kind = "search" /\ ~logsDisturbed =>
         \A c \in LogContacts, d \in LogDays : AsOftenAsHeld(answered.result, LogEntry(c, d), 1)
    /\ \A i \in DOMAIN queries :
         queries[i].running = {} /\ ~queries[i].finishing => ~accountValid

\* Whoever asks the logs gets all that the plugins have, and no more: pages and viewer.
LogsAreFound == PagesShowLogs /\ LookupsAreAnswered
=============================================================================
