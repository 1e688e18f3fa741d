--------------------------- MODULE ContactsFilter ---------------------------
(***************************************************************************)
(* KTp::ContactsFilterModel: which rows of the contacts model are shown, in*)
(* which order, and the numbers that the headers of groups and accounts    *)
(* show.  The source model changes below it; the base class applies the    *)
(* filter to rows that are inserted or change, and to all of them when it  *)
(* is told that the filter changed.                                        *)
(*                                                                         *)
(* A text is [letters, marks]: its letters, and whether some of them carry *)
(* diacritics.  That one text contains the other, or starts or ends with it*)
(* or fits it as a pattern, is abstracted to equal letters.                *)
(***************************************************************************)
EXTENDS PresenceOrder, FiniteSets

CONSTANTS
    SourceRows,         \* contacts that the source model lists
    Headers, AccountHeaders,    \* rows above them, and which of those are accounts
    ContactDetails,     \* what contacts look like: records of their roles
    FilterValues,       \* for each setting, the values it is set to
    MaxFilterChanges    \* bound: calls of the setters

NoText == [letters |-> "", marks |-> FALSE]
NoParent == "none"

ASSUME FilterAssumption ==
    /\ AccountHeaders \subseteq Headers /\ Headers \cap (SourceRows \cup {NoParent}) = {}
    /\ MaxFilterChanges \in Nat

VARIABLES
    parentOf,           \* header of each contact in the source model
    details,            \* its roles
    filter,             \* presenceTypeFilterFlags and the other settings
    filterChanges,      \* calls of the setters so far
    shownRows,          \* rows the base class lets through
    lastNumbers,        \* header |-> the numbers that a view read last
    toRepaint           \* history: headers whose rows a setter hid or showed since

filterVars == <<parentOf, details, filter, filterChanges, shownRows, lastNumbers, toRepaint>>

-----------------------------------------------------------------------------
(* The filter.                                                             *)

Stripped(text) == [text EXCEPT !.marks = FALSE]

\* Matching whole values compares them as they are; else case and, on the side of the
\* model only, diacritics are ignored.
match(values, text, exactly) ==
    \E v \in values : IF exactly THEN v = text ELSE Stripped(v) = text

\* The role for groups is a list, which reads as a text only if it has one element.
GroupsText(groups) == IF Cardinality(groups) = 1 THEN groups ELSE {}

\* Without global text, all of the single texts that are set.
AcceptsTexts(d, f) ==
    IF f.global # NoText
    THEN \/ match({d.name}, f.global, f.globalExactly)
         \/ match(GroupsText(d.groups), f.global, f.globalExactly)
         \/ match({d.id}, f.global, f.globalExactly)
    ELSE /\ f.name # NoText => match({d.name}, f.name, FALSE)
         /\ f.groups # NoText => match(GroupsText(d.groups), f.groups, FALSE)
         /\ f.id # NoText => match({d.id}, f.id, FALSE)
         /\ f.account # {} => d.account \in f.account

\* Tubes are one of the capabilities, and are looked at if some are named.
AcceptsCapabilities(d, f) ==
    /\ f.capabilities \ {"tubes"} \subseteq d.capabilities
    /\ "tubes" \in f.capabilities /\ f.tubes # {} => f.tubes \cap d.tubes # {}

AcceptsSubscription(d, f) ==
    f.subscription # {} =>
      /\ <<"subscription", d.subscription>> \notin f.subscription
      /\ <<"publish", d.publish>> \notin f.subscription
      /\ <<"blocked", IF d.blocked THEN "yes" ELSE "no">> \notin f.subscription

filterAcceptsContact(d, f) ==
    /\ d.presence \notin f.presences
    /\ AcceptsCapabilities(d, f)
    /\ AcceptsSubscription(d, f)
    /\ AcceptsTexts(d, f)

\* The rows of accounts have no roles for capabilities.
filterAcceptsHeader(h, f) == h \in AccountHeaders => f.capabilities = {}

Listed == {r \in SourceRows : parentOf[r] # NoParent}

\* The rows that the base class shows when it looks at all of them.
Accepted(parent, data, f) ==
    {h \in Headers : filterAcceptsHeader(h, f)}
      \cup {r \in SourceRows : /\ parent[r] # NoParent
                               /\ filterAcceptsHeader(parent[r], f)
                               /\ filterAcceptsContact(data[r], f)}

-----------------------------------------------------------------------------
(* The order.                                                              *)

Reachable(type) == type \notin {"Unset", "Offline", "Unknown", "Error"}

\* By presence, sort role ContactPresenceTypeRole; phones come last.  Names are
\* compared by their rank.
lessThan(left, right) ==
    IF left.presence = right.presence
    THEN IF left.phone # right.phone THEN right.phone ELSE left.rank < right.rank
    ELSE \/ left.presence = "Available"
         \/ /\ Reachable(left.presence)
            /\ sortPriority(left.presence) < sortPriority(right.presence)

-----------------------------------------------------------------------------
Unfiltered == [presences |-> {}, capabilities |-> {}, tubes |-> {}, subscription |-> {},
               global |-> NoText, globalExactly |-> FALSE, name |-> NoText,
               groups |-> NoText, id |-> NoText, account |-> {}]

FilterInit ==
    /\ parentOf = [r \in SourceRows |-> NoParent]
    /\ details \in [SourceRows -> {CHOOSE d \in ContactDetails : TRUE}]
    /\ filter = Unfiltered
    /\ filterChanges = 0
    /\ shownRows = Headers
    /\ lastNumbers = [h \in Headers |-> [online |-> 0, total |-> 0]]
    /\ toRepaint = {}

\* HeaderOnlineUsersRole and HeaderTotalUsersRole.
HeaderData(h) ==
    [online |-> Cardinality({r \in SourceRows \cap shownRows' : parentOf'[r] = h}),
     total |-> Cardinality({r \in SourceRows : parentOf'[r] = h})]

\* Mutant: only the headers of groups are repainted.
sourceModelParentIndexChangedGroups(changed) ==
    /\ lastNumbers' = [h \in Headers |-> IF h \in changed \ AccountHeaders THEN HeaderData(h)
                                     ELSE lastNumbers[h]]
    /\ toRepaint' = toRepaint \ changed

\* dataChanged is emitted for the parents of the rows.
sourceModelParentIndexChanged(changed) ==
    /\ lastNumbers' = [h \in Headers |-> IF h \in changed \cap shownRows' THEN HeaderData(h)
                                     ELSE lastNumbers[h]]
    /\ toRepaint' = toRepaint \ changed

\* Rows come, go, move between the parents and change in the source model.
SourceChanges(r, parent, d) ==
    /\ parentOf' = [parentOf EXCEPT ![r] = parent]
    /\ details' = [details EXCEPT ![r] = d]
    /\ <<parentOf', details'>> # <<parentOf, details>>
    /\ shownRows' = Accepted(parentOf', details', filter)
    /\ sourceModelParentIndexChanged({parentOf[r], parent} \cap Headers)
    /\ UNCHANGED <<filter, filterChanges>>

\* Headers that come into view are painted as they are then.
invalidateFilter ==
    /\ shownRows' = Accepted(parentOf, details, filter')
    /\ lastNumbers' = [h \in Headers |-> IF h \in shownRows' \ shownRows THEN HeaderData(h)
                                     ELSE lastNumbers[h]]
    /\ LET changed == {parentOf[r] : r \in {q \in Listed : (q \in shownRows) # (q \in shownRows')}}
       IN toRepaint' = (toRepaint \cup changed) \ (shownRows' \ shownRows)

\* A setter, or the function that clears what it sets.
setFilter(setting) == \E value \in FilterValues[setting] \cup {Unfiltered[setting]} :
    /\ filterChanges < MaxFilterChanges /\ filterChanges' = filterChanges + 1
    /\ filter[setting] # value
    /\ filter' = [filter EXCEPT ![setting] = value]
    /\ UNCHANGED <<parentOf, details>>
    /\ invalidateFilter

setFilterFlags ==
    \E setting \in {"presences", "capabilities", "subscription"} : setFilter(setting)
setGlobalFilter == \E setting \in {"global", "globalExactly"} : setFilter(setting)
setNameOrGroupsFilter == \E setting \in {"name", "groups"} : setFilter(setting)
setOtherFilter == \E setting \in {"id", "account", "tubes"} : setFilter(setting)

FilterNext ==
    \/ \E r \in SourceRows, h \in Headers \cup {NoParent}, d \in ContactDetails :
         SourceChanges(r, h, d)
    \/ setFilterFlags \/ setGlobalFilter \/ setNameOrGroupsFilter \/ setOtherFilter

-----------------------------------------------------------------------------
(* Properties.                                                             *)

\* The header of a group or account that is shown has the numbers of its rows, all of
\* them and those that the filter lets through, however rows come, go, change and move
\* between headers and the filter changes; unless only the filter changed since it was
\* painted, of which the views are not told.
HeadersCount ==
    \A h \in Headers \cap shownRows : h \in toRepaint \/
        LET rows == {r \in SourceRows : parentOf[r] = h}
        IN lastNumbers[h] = [online |-> Cardinality(rows \cap shownRows), total |-> Cardinality(rows)]
=============================================================================
