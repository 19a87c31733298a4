------------------------------ MODULE AuditLog ------------------------------
(***************************************************************************)
(* The audit log: core/audit/logger.py, its service, the routes of         *)
(* api/v1/audit_logs.py and the dashboard page that walks through it.      *)
(* The entries are a list of the API process, which only grows while the   *)
(* process lives.  A route reads the list and counts it with no await that *)
(* suspends in between; a reader of several pages makes several requests,  *)
(* and entries are recorded in between.                                    *)
(*                                                                         *)
(* The dashboard keeps every page it was sent and shows it again, without  *)
(* a request, until it is 10 s old (staleTime of its query client).        *)
(*                                                                         *)
(* No handler of the repository calls record(): who records is external.   *)
(***************************************************************************)
EXTENDS Integers, Lists

CONSTANTS
  Symbol,        \* symbols texts are made of, those CEF tells apart among them
  Actor,         \* actor_id: texts, as sequences of symbols
  NoFilter,      \* a filter that was not given
  Header,        \* what a CEF line begins with, up to the actor, as one symbol
  PageSize,
  MaxRecords,    \* bound: entries recorded over all the lives of the process
  MaxCached      \* bound: pages that are younger than 10 s

ASSUME AuditAssumption ==
  /\ {"\\", "=", "|", "\n", Header} \subseteq Symbol
  /\ Header # "\n"
  /\ Actor \subseteq Seq(Symbol)
  /\ NoFilter \notin Actor
  /\ PageSize \in Nat \ {0}
  /\ MaxRecords \in Nat

AuditEntry == [entry_id : 1 .. MaxRecords, actor_id : Actor]

VARIABLES
  entries,   \* AuditLogger._entries, oldest first
  recorded,  \* how many entry ids were drawn
  reader,    \* the AuditPage of one user's browser
  cache      \* the answers it has that are younger than 10 s, oldest first

auditVars == <<entries, recorded, reader, cache>>

(* "at", "unseen" and "inOrder" are there for the property only: how many  *)
(* entries had been recorded when the page that is shown was read, what    *)
(* matched when the first page was and was not shown since, and whether no *)
(* page was read before the one that was shown before it.                  *)
Closed == [page |-> 0, filter |-> NoFilter, total |-> 0,
           at |-> 0, unseen |-> {}, inOrder |-> TRUE]

AuditInit ==
  /\ entries = <<>>
  /\ recorded = 0
  /\ reader = Closed
  /\ cache = <<>>

-----------------------------------------------------------------------------
(* The service.  The four filters are equalities with the value given, one *)
(* after the other; one of them stands for all.                            *)
Matches(entry, filter) == filter \in {NoFilter, entry.actor_id}

Matching(log, filter) == Keep(log, {entry \in AuditEntry : Matches(entry, filter)})

PageOf(log, page) == SubSeq(log, (page - 1) * PageSize + 1,
                            IF page * PageSize < Len(log) THEN page * PageSize ELSE Len(log))

\* Fault: the slice is taken first and filtered afterwards.
SlicedFirst(filter, page) == Matching(PageOf(Reverse(entries), page), filter)

\* Newest first.
ListEntries(filter, page) == PageOf(Matching(Reverse(entries), filter), page)

Count(filter) == Len(Matching(entries, filter))

\* Fault: the export forgets its filter.
ExportAll(filter) == entries

\* Oldest first, no pages.
Export(filter) == Matching(entries, filter)

\* AuditEntry.to_cef: str.replace three times, the backslash first.
Escaped(text, symbol) ==
  FoldLeft(LAMBDA done, c : IF c = symbol THEN done \o <<"\\", c>> ELSE Append(done, c),
           <<>>, text)

\* Fault: the backslash is replaced last.
EscBackslashLast(text) == Escaped(Escaped(Escaped(text, "="), "|"), "\\")

Esc(text) == Escaped(Escaped(Escaped(text, "\\"), "="), "|")

\* AuditEntry.to_cef: the actor is the last of the fields that is kept.
ToCef(entry) == <<Header>> \o Esc(entry.actor_id)

\* "\n".join of the lines.
Joined(lines) ==
  FlattenSeq([i \in DOMAIN lines |-> IF i = 1 THEN lines[1] ELSE <<"\n">> \o lines[i]])

ExportCef(filter) ==
  Joined([i \in DOMAIN Export(filter) |-> ToCef(Export(filter)[i])])

-----------------------------------------------------------------------------
Record(actor) ==
  /\ recorded < MaxRecords
  /\ recorded' = recorded + 1
  /\ entries' = Append(entries, [entry_id |-> recorded + 1, actor_id |-> actor])
  /\ UNCHANGED <<reader, cache>>

Ids(log) == {entry.entry_id : entry \in ToSet(log)}

\* Fault: a page leaves out its last entry, an off-by-one of the slice.
ShownShort(filter, page) ==
  LET shown == ListEntries(filter, page)
  IN  IF shown = <<>> THEN {} ELSE Ids(Front(shown))

Shown(filter, page) == Ids(ListEntries(filter, page))

\* What a request for a page is answered, and what matches at that time.
Fresh(filter, page) ==
  [filter |-> filter, page |-> page, total |-> Count(filter),
   shown |-> Shown(filter, page), matched |-> Ids(Export(filter)), at |-> recorded]

\* What useQuery shows for a page: the answer it has, or else a new one.
Answers(filter, page) ==
  LET cached == {c \in ToSet(cache) : c.filter = filter /\ c.page = page}
  IN  IF cached # {} THEN cached ELSE {Fresh(filter, page)}

CacheWith(c) ==
  \/ c \in ToSet(cache) /\ UNCHANGED cache
  \/ c \notin ToSet(cache) /\ Len(cache) < MaxCached /\ cache' = Append(cache, c)

\* A filter is typed, or the page is opened: it shows page 1.
OpenLog(filter) ==
  \E c \in Answers(filter, 1) :
    /\ reader' = [page |-> 1, filter |-> filter, total |-> c.total,
                  at |-> c.at, unseen |-> c.matched \ c.shown, inOrder |-> TRUE]
    /\ CacheWith(c)
    /\ UNCHANGED <<entries, recorded>>

\* Next and Previous; the reader waits for each page to arrive.
LastPage == reader.page * PageSize >= reader.total

Turn(page) ==
  \E c \in Answers(reader.filter, page) :
    /\ reader' = [reader EXCEPT !.page = page, !.total = c.total, !.at = c.at,
                                !.unseen = @ \ c.shown,
                                !.inOrder = @ /\ reader.at <= c.at]
    /\ CacheWith(c)
    /\ UNCHANGED <<entries, recorded>>

NextPage == reader.page > 0 /\ ~LastPage /\ Turn(reader.page + 1)

PreviousPage == reader.page > 1 /\ Turn(reader.page - 1)

CloseLog ==
  /\ reader.page > 0
  /\ reader' = Closed
  /\ UNCHANGED <<entries, recorded, cache>>

\* The oldest answer is 10 s old, and is not shown again without a request.
GoStale ==
  /\ cache # <<>>
  /\ cache' = Tail(cache)
  /\ UNCHANGED <<entries, recorded, reader>>

\* The process ends; the browser does not.
ForgetEntries ==
  /\ entries' = <<>>
  /\ UNCHANGED <<recorded, reader, cache>>

AuditNext ==
  \/ \E actor \in Actor : Record(actor)
  \/ \E filter \in Actor \cup {NoFilter} : OpenLog(filter)
  \/ NextPage
  \/ PreviousPage
  \/ CloseLog
  \/ GoStale

-----------------------------------------------------------------------------
CachedAnswer ==
  [filter : Actor \cup {NoFilter}, page : Nat \ {0}, total : Nat,
   shown : SUBSET (1 .. MaxRecords), matched : SUBSET (1 .. MaxRecords),
   at : 0 .. MaxRecords]

AuditTypeOK ==
  /\ entries \in Seq(AuditEntry)
  /\ recorded \in 0 .. MaxRecords
  /\ reader \in [page : Nat, filter : Actor \cup {NoFilter}, total : Nat,
                 at : 0 .. MaxRecords, unseen : SUBSET (1 .. MaxRecords),
                 inOrder : BOOLEAN]
  /\ cache \in Seq(CachedAnswer)

(* A reader who walks from the first page to the last sees every entry     *)
(* that matched when the first page was read and is still in the log,      *)
(* while entries are recorded and push the older ones to later pages, and  *)
(* whether a page comes from the server or from the cache; as long as none *)
(* is shown that was read before the page shown before it.                 *)
WalkMissesNothing ==
  reader.page > 0 /\ LastPage /\ reader.inOrder => reader.unseen \cap Ids(entries) = {}

(* The pages up to the one that the count makes last, put together, are    *)
(* the export in reverse, for every filter and however long the last one.  *)
PagesAddUpToExport ==
  \A filter \in Actor \cup {NoFilter} :
    LET pages == (Count(filter) + PageSize - 1) \div PageSize
    IN  FlattenSeq([page \in 1 .. pages |-> ListEntries(filter, page)])
          = Reverse(Export(filter))

\* What a SIEM reads from a file: lines, and of a line what was escaped, one
\* symbol after a backslash.
SplitSoFar(done, line) == [done |-> done, line |-> line]

Split(text) ==
  FoldLeft(LAMBDA split, c :
             IF c = "\n" THEN SplitSoFar(Append(split.done, split.line), <<>>)
             ELSE SplitSoFar(split.done, Append(split.line, c)),
           SplitSoFar(<<>>, <<>>), text)

LinesOf(text) ==
  IF text = <<>> THEN <<>> ELSE Append(Split(text).done, Split(text).line)

ReadSoFar(text, after) == [text |-> text, after |-> after]

Read(text) ==
  FoldLeft(LAMBDA read, c :
             IF read.after THEN ReadSoFar(Append(read.text, c), FALSE)
             ELSE IF c = "\\" THEN ReadSoFar(read.text, TRUE)
             ELSE ReadSoFar(Append(read.text, c), FALSE),
           ReadSoFar(<<>>, FALSE), text)

Unescaped(text) == Read(text).text

(* From the file of the CEF export a SIEM reads the actors of the JSON     *)
(* export, in the same order: the three replacements do not escape each    *)
(* other's work.  Only as long as no actor has a newline, which nothing    *)
(* escapes.                                                                *)
CefLosesNothing ==
  LET json  == Export(NoFilter)
      lines == LinesOf(ExportCef(NoFilter))
  IN  (\A entry \in ToSet(json) : "\n" \notin ToSet(entry.actor_id)) =>
        /\ Len(lines) = Len(json)
        /\ \A i \in DOMAIN json : Unescaped(Tail(lines[i])) = json[i].actor_id
=============================================================================
