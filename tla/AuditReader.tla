---------------------------- MODULE AuditReader ------------------------------
(***************************************************************************)
(* A user reading their audit log page by page (internal/api/audit,        *)
(* frontend/src/pages/audit.tsx) while events are appended and rows are    *)
(* edited.                                                                 *)
(***************************************************************************)
EXTENDS AuditChain, PageLimits

CONSTANTS
    ActionNames,     \* the actions both sides know (actionByProto)
    Filters,         \* the filters asked for: action, from and to; Null is none
    Unspecified,     \* AUDIT_ACTION_UNSPECIFIED
    AuditLimits,     \* the limits asked for
    DefaultAuditLimit, MaxAuditLimit

ASSUME LimitsAssumption ==
    /\ AuditLimits \subseteq Nat
    /\ DefaultAuditLimit \in Nat \ {0}
    /\ MaxAuditLimit \in Nat \ {0}

VARIABLE reader

readerVars == <<vars, reader>>

\* seen: the ids shown so far; owed: the ids that matched when it began.
IdleReader == [pc |-> "idle", user |-> Null,
               filter |-> [action |-> Null, from |-> Null, to |-> Null],
               limit |-> 0, cursor |-> 0, seen |-> <<>>, owed |-> {}]

ReaderInit == Init /\ reader = IdleReader

\* The WHERE clause of listAuditEntries; a cursor of zero is none.
Listed(q, r) ==
    /\ r.cols.user = q.user
    /\ q.filter.action # Null => r.cols.action = q.filter.action
    /\ q.filter.from # Null => r.cols.created >= q.filter.from
    /\ q.filter.to # Null => r.cols.created <= q.filter.to
    /\ q.cursor # 0 => r.id < q.cursor

\* ORDER BY id DESC LIMIT n: what the query may answer.  Rows are left out only
\* for the limit, and only older ones than every row of the page.
ListAuditEntries(q, n) ==
    LET found == {r \in rows : Listed(q, r)}
        Shown(page) == {page[i] : i \in DOMAIN page}
    IN  {page \in UNION {[1 .. k -> found] : k \in 0 .. n} :
           /\ \A i, j \in DOMAIN page : i < j => page[i].id > page[j].id
           /\ \A r \in found \ Shown(page) :
                Len(page) = n /\ \A s \in Shown(page) : r.id < s.id}

toModelAction(a) == ActionNames \cap {a}
fromModelAction(a) == IF a \in ActionNames THEN a ELSE Unspecified

toAuditEntry(r) == [id |-> r.id, action |-> fromModelAction(r.cols.action),
                    agent |-> r.cols.agent, metadata |-> r.cols.metadata,
                    created |-> r.cols.created]

StartReading ==
    \E e \in Events, f \in Filters, n \in AuditLimits :
        LET q == [IdleReader EXCEPT !.user = e.user, !.filter = f, !.limit = n] IN
        /\ reader.pc = "idle"
        /\ reader' = [q EXCEPT !.pc = "list",
                               !.owed = {r.id : r \in {x \in rows : Listed(q, x)}}]
        /\ UNCHANGED vars

\* The action asked for has no name here.
Unnamed(f) == f.action # Null /\ toModelAction(f.action) = {}

\* One page, and the id of its last row if it is a full one.
Turned(page, n) ==
    LET full == Len(page) = n /\ Len(page) > 0
    IN  [reader EXCEPT
           !.pc = IF full THEN @ ELSE "done",
           !.cursor = IF full THEN page[Len(page)].id ELSE @,
           !.seen = @ \o [i \in DOMAIN page |-> toAuditEntry(page[i])]]

\* Variant: the cursor is inclusive.
ListAuditInclusive ==
    LET n == Clamped(reader.limit, DefaultAuditLimit, MaxAuditLimit)
        asked == [reader EXCEPT !.cursor = IF @ = 0 THEN 0 ELSE @ + 1]
    IN  /\ reader.pc = "list"
        /\ ~Unnamed(reader.filter)
        /\ Len(reader.seen) <= MaxId
        /\ \E page \in ListAuditEntries(asked, n) : reader' = Turned(page, n)
        /\ UNCHANGED vars

ListAudit ==
    LET n == Clamped(reader.limit, DefaultAuditLimit, MaxAuditLimit)
    IN  /\ reader.pc = "list"
        /\ ~Unnamed(reader.filter)
        /\ \E page \in ListAuditEntries(reader, n) : reader' = Turned(page, n)
        /\ UNCHANGED vars

\* CodeInvalidArgument.
ListRefused ==
    /\ reader.pc = "list"
    /\ Unnamed(reader.filter)
    /\ reader' = IdleReader
    /\ UNCHANGED vars

\* The page is left, or opened again from the top.
StopReading ==
    /\ reader.pc = "done"
    /\ reader' = IdleReader
    /\ UNCHANGED vars

ReaderNext ==
    \/ Next /\ UNCHANGED reader
    \/ StartReading \/ ListAudit \/ ListRefused \/ StopReading

ReaderSpec == ReaderInit /\ [][ReaderNext]_readerVars

\* Paging down to the end shows every row of the user that matched the filter
\* when the first page was asked for, newest first and none twice, however
\* many events are appended between the pages; unless the row was edited.
PagesAreComplete ==
    /\ reader.pc = "done" =>
         \A i \in reader.owed \ edited :
             \E n \in DOMAIN reader.seen : reader.seen[n].id = i
    /\ \A i, j \in DOMAIN reader.seen : i < j => reader.seen[i].id > reader.seen[j].id
=============================================================================
