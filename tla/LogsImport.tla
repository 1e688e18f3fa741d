----------------------------- MODULE LogsImport -----------------------------
(***************************************************************************)
(* LogsImporter: a thread that converts Kopete's logs, a file for each     *)
(* contact and month, to the format of the Telepathy logger, a file for    *)
(* each contact and day.  It writes them below the application's own data  *)
(* directory, where the logger does not look.                              *)
(*                                                                         *)
(* Kopete has local times and Telepathy UTC: a message close to midnight   *)
(* belongs to another day, and at the end of a month to another month.     *)
(***************************************************************************)
EXTENDS Integers, Sequences, SequencesExt

CONSTANTS
    ImportAccounts,
    LastDay,            \* days of a month
    KopeteLogs,         \* the possible logs: sequences of files, by account
    MaxImports          \* bound: imports that the user starts

\* Kopete appends to a file what is said, so that its messages are in the order of time.
InTimeOrder(messages) ==
    \A i, j \in DOMAIN messages :
        i < j /\ "broken" \notin {messages[i].time, messages[j].time} =>
            \/ messages[i].day < messages[j].day
            \/ /\ messages[i].day = messages[j].day
               /\ messages[i].time = "late" => messages[j].time = "late"
               /\ messages[j].time = "early" => messages[i].time = "early"

KopeteMessages == [day : 1 .. LastDay, time : {"early", "noon", "late", "broken"}]

\* No account is called like the folder of rooms, and Kopete has a file for each contact
\* or room and month.
ASSUME ImportAssumption ==
    /\ LastDay \in Nat \ {0} /\ MaxImports \in Nat
    /\ {"", "chatrooms"} \cap ImportAccounts = {}
    /\ \A all \in KopeteLogs : \A a \in ImportAccounts :
         /\ all[a] \in Seq(Range(all[a]))
         /\ \A i \in DOMAIN all[a] : /\ all[a][i].room \in BOOLEAN
                                     /\ all[a][i].messages \in Seq(KopeteMessages)
                                     /\ InTimeOrder(all[a][i].messages)
         /\ \A i, j \in DOMAIN all[a] :
              i < j /\ all[a][i].valid /\ all[a][j].valid =>
                  \/ all[a][i].contact # all[a][j].contact \/ all[a][i].month # all[a][j].month
                  \/ all[a][i].room # all[a][j].room

VARIABLES
    kopete,             \* by account: a sequence of files [contact, month, room, valid, messages]
    zone,               \* -1 east of UTC, 0, or 1 west of it
    m_accountId,
    thread,             \* "idle", "starting", "files" or "messages"
    files,              \* the files still to convert
    position,           \* messages of the first file that were converted
    m_day, document,    \* the day of the document, 0 for none, and its messages
    logs,               \* the files it writes: a function of [folder, contact, month, day]
    importing,          \* history: the account of the running import, "" once another was set
    imported, imports   \* history: accounts whose import ended; imports started

importVars == <<kopete, zone, m_accountId, thread, files, position, m_day, document, logs,
                importing, imported, imports>>

\* What an import by an earlier process wrote, and Kopete has no more.
OldMessage == [day |-> 0, time |-> "noon"]

PathOf(file, account, day) ==
    [folder |-> IF file.room THEN "chatrooms" ELSE account, contact |-> file.contact,
     month |-> file.month, day |-> day]

ImportInit ==
    /\ kopete \in KopeteLogs
    /\ zone \in {-1, 0, 1}
    /\ m_accountId = "" /\ thread = "idle" /\ files = <<>> /\ position = 0
    /\ m_day = 0 /\ document = <<>>
    /\ \E written \in {{}} \cup {{PathOf(kopete[a][1], a, 1)} :
                                a \in {b \in ImportAccounts : kopete[b] # <<>>}} :
         logs = [path \in written |-> <<OldMessage>>]
    /\ importing = "" /\ imported = {} /\ imports = 0

\* The thread is running still: the account changes under it, and start() is ignored.
startLogImport(a) ==
    /\ imports < MaxImports /\ imports' = imports + 1
    /\ m_accountId' = a
    /\ IF thread = "idle"
       THEN thread' = "starting" /\ importing' = a /\ UNCHANGED imported
       ELSE /\ importing' = IF a = importing THEN a ELSE ""
            /\ imported' = IF a = importing THEN imported ELSE {}
            /\ UNCHANGED thread
    /\ UNCHANGED <<kopete, zone, files, position, m_day, document, logs>>

\* No logs: an error, and the thread ends.
findKopeteLogs ==
    /\ thread = "starting"
    /\ files' = kopete[m_accountId]
    /\ thread' = IF files' = <<>> THEN "idle" ELSE "files"
    /\ UNCHANGED <<kopete, zone, m_accountId, position, m_day, document, logs, importing, imported,
                   imports>>

\* A file without a proper header is skipped.
convertKopeteLog ==
    /\ thread = "files" /\ files # <<>>
    /\ IF Head(files).valid
       THEN /\ thread' = "messages" /\ position' = 0
            /\ m_day' = 0 /\ document' = <<>>
            /\ UNCHANGED files
       ELSE files' = Tail(files) /\ UNCHANGED <<thread, position, m_day, document>>
    /\ UNCHANGED <<kopete, zone, m_accountId, logs, importing, imported, imports>>

\* West of UTC late messages are of the next day, east of it early ones of the last.
Shift(offset, message) ==
    IF (offset = 1 /\ message.time = "late") \/ (offset = -1 /\ message.time = "early")
    THEN offset ELSE 0

\* The day of the month in UTC; the month is not computed again.
parseKopeteTime(offset, message) ==
    ((message.day + Shift(offset, message) - 1 + LastDay) % LastDay) + 1

\* The file is opened for writing, which truncates it.
saveKTpDocument(day, content) ==
    LET path == PathOf(Head(files), m_accountId, day)
    IN logs' = [p \in DOMAIN logs \cup {path} |-> IF p = path THEN content ELSE logs[p]]

\* Mutant: the document goes on after it was saved.
NewDocumentKept(message) == Append(document, message)

NewDocument(message) == <<message>>

\* The next message; a new day saves the document first.  A message without a
\* proper time is left out.
convertKopeteMessage ==
    /\ thread = "messages" /\ position < Len(Head(files).messages)
    /\ position' = position + 1
    /\ LET message == Head(files).messages[position']
           day == parseKopeteTime(zone, message)
       IN IF message.time = "broken" THEN UNCHANGED <<m_day, document, logs>>
          ELSE /\ m_day' = day
               /\ IF m_day \in {0, day}
                  THEN document' = Append(document, message) /\ UNCHANGED logs
                  ELSE document' = NewDocument(message) /\ saveKTpDocument(m_day, document)
    /\ UNCHANGED <<kopete, zone, m_accountId, thread, files, importing, imported, imports>>

FileConverted ==
    /\ thread = "messages" /\ position = Len(Head(files).messages)
    /\ saveKTpDocument(m_day, document)
    /\ files' = Tail(files) /\ thread' = "files"
    /\ UNCHANGED <<kopete, zone, m_accountId, position, m_day, document, importing, imported,
                   imports>>

\* finished(), which is logsImported().
ImportFinished ==
    /\ thread = "files" /\ files = <<>>
    /\ thread' = "idle"
    /\ imported' = imported \cup ({importing} \ {""})
    /\ UNCHANGED <<kopete, zone, m_accountId, files, position, m_day, document, logs, importing,
                   imports>>

ImportNext ==
    \/ \E a \in ImportAccounts : startLogImport(a)
    \/ findKopeteLogs \/ convertKopeteLog \/ convertKopeteMessage \/ FileConverted
    \/ ImportFinished

-----------------------------------------------------------------------------
(* Properties.                                                             *)

IsOfDay(offset, message, day) ==
    message.time # "broken" /\ parseKopeteTime(offset, message) = day

\* No message of the day falls into another month.
StaysInMonth(offset, messages, day) ==
    \A i \in DOMAIN messages :
        IsOfDay(offset, messages[i], day) => messages[i].day + Shift(offset, messages[i]) \in 1 .. LastDay

\* The messages of a day among the first ones of a file, by their number.
DayLog(offset, messages, day) ==
    LET kept[i \in 0 .. Len(messages)] ==
            IF i = 0 THEN <<>>
            ELSE IF IsOfDay(offset, messages[i], day) THEN Append(kept[i - 1], messages[i])
            ELSE kept[i - 1]
    IN kept

\* The log of a day has all messages of the file and no other.
Whole(file, account) ==
    \A day \in 1 .. LastDay :
        LET content == DayLog(zone, file.messages, day)[Len(file.messages)]
            path == PathOf(file, account, day)
        IN content # <<>> /\ StaysInMonth(zone, file.messages, day) =>
               path \in DOMAIN logs /\ logs[path] = content

\* After the import of an account the log of a day has all its messages and no
\* other, also if Kopete's files are broken in part; except for days of which a file
\* has messages of another month, for rooms, which all accounts share, and if
\* another account was set while the thread ran.
ImportedWhole ==
    thread = "idle" => \A a \in imported : \A i \in DOMAIN kopete[a] :
        kopete[a][i].valid /\ ~kopete[a][i].room => Whole(kopete[a][i], a)
=============================================================================
