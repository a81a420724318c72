------------------------------- MODULE Listing -------------------------------
(***************************************************************************)
(* Reading a vault page by page: ListEntries and GetEntriesByIds           *)
(* (internal/api/entries/service.go, internal/store/repos/repo_entries),   *)
(* while the entries change.  The reader is a client of the API that does  *)
(* what the schema says of the cursor: it passes next_updated_after back   *)
(* as updated_after until an answer comes without one, and fetches the     *)
(* payloads of every page in batches.                                      *)
(*                                                                         *)
(* An entry carries the columns the filters look at.  Entry ids are        *)
(* ordered, as uuids are.  Every write has a time of its own, so no two    *)
(* entries carry the same updated_at.                                      *)
(***************************************************************************)
EXTENDS PageLimits, Sequences, SequencesExt, FiniteSets

CONSTANTS
    MaxEntries,          \* entries are 1..MaxEntries
    Projects,            \* project ids; NoProject is NULL
    NoProject,
    Titles, Domains,     \* title and domain hashes
    Kinds,               \* the kinds, as on the wire, a client asks for
    Limits,              \* the limits a client asks for
    DefaultListLimit, MaxListLimit, MaxBatchGet, MaxRepeatedField,
    MaxTime              \* bound on the clock

VARIABLES
    entries,   \* the entries table, by id
    clock,     \* now()
    walk       \* the reader

vars == <<entries, clock, walk>>

Ids == 1..MaxEntries
NoEntry == [updated |-> -1]
Stored == {e \in Ids : entries[e] # NoEntry}

\* ENTRY_KIND_* are 1 to 6; 0 is ENTRY_KIND_UNSPECIFIED and has no name here.
ModelKinds == <<"login", "totp", "card", "identity", "ssh_key", "note">>
toModelKind(k) == {ModelKinds[i] : i \in DOMAIN ModelKinds \cap {k}}
fromModelKind(m) == CHOOSE k \in DOMAIN ModelKinds : ModelKinds[k] = m

\* A filter maps the constraints asked for to their values.
Filters ==
    {<<>>} \cup [{"project"} -> Projects] \cup [{"kind"} -> Kinds]
           \cup [{"titles"} -> SUBSET Titles] \cup [{"domains"} -> SUBSET Domains]
           \cup [{"favorite"} -> BOOLEAN] \cup [{"totp"} -> BOOLEAN]

Idle == [pc |-> "idle", filter |-> <<>>, limit |-> 0, after |-> -1,
         page |-> <<>>, opened |-> {}, owed |-> {}]

Init ==
    /\ entries = [e \in Ids |-> NoEntry]
    /\ clock = 0
    /\ walk = Idle

-----------------------------------------------------------------------------
(* Writes: each stamps the row with now()                                  *)

\* What is written while the reader walks is no longer owed to it.
Write(e, row) ==
    /\ clock < MaxTime
    /\ clock' = clock + 1
    /\ entries' = [entries EXCEPT ![e] = row]
    /\ walk' = [walk EXCEPT !.owed = @ \ {e}]

\* What a client sends for an entry.
Contents == [project : Projects \cup {NoProject}, title : Titles, domain : Domains,
             favorite : BOOLEAN, totp : BOOLEAN]

Entry(c, kind, version) ==
    [project |-> c.project, title |-> c.title, domain |-> c.domain,
     favorite |-> c.favorite, totp |-> c.totp, kind |-> kind, version |-> version,
     updated |-> clock + 1]

CreateEntry ==
    \E e \in Ids \ Stored, k \in Kinds, c \in Contents :
        \E m \in toModelKind(k) : Write(e, Entry(c, m, 1))

UpdateEntry ==
    \E e \in Stored, c \in Contents :
        Write(e, Entry(c, entries[e].kind, entries[e].version + 1))

ToggleFavorite ==
    \E e \in Stored, f \in BOOLEAN :
        Write(e, [entries[e] EXCEPT !.favorite = f, !.updated = clock + 1])

DeleteEntry == \E e \in Stored : Write(e, NoEntry)

-----------------------------------------------------------------------------
(* ListEntries                                                             *)

Lists(f) == DOMAIN f \cap {"titles", "domains"}

\* A kind without a name, or too many hashes.
Invalid(f) ==
    \/ "kind" \in DOMAIN f /\ toModelKind(f["kind"]) = {}
    \/ \E c \in Lists(f) : Cardinality(f[c]) > MaxRepeatedField

\* The parameters of the query.  An empty list of hashes constrains nothing.
buildListParams(q) ==
    LET empty == {c \in Lists(q.filter) : q.filter[c] = {}}
    IN  [filter |-> [c \in DOMAIN q.filter \ empty |-> q.filter[c]],
         after |-> q.after,
         pageLimit |-> Clamped(q.limit, DefaultListLimit, MaxListLimit)]

\* The WHERE clause.
Selected(p, e) ==
    LET f == p.filter
        row == entries[e]
    IN  /\ \A c \in DOMAIN f \cap {"project", "favorite", "totp"} : row[c] = f[c]
        /\ "kind" \in DOMAIN f => row.kind \in toModelKind(f["kind"])
        /\ "titles" \in DOMAIN f => row.title \in f["titles"]
        /\ "domains" \in DOMAIN f => row.domain \in f["domains"]
        /\ p.after # -1 => row.updated > p.after

\* ORDER BY updated_at DESC, id DESC
Before(d, e) ==
    \/ entries[d].updated > entries[e].updated
    \/ entries[d].updated = entries[e].updated /\ d > e

ListRows(p) ==
    LET found == SetToSortSeq({e \in Stored : Selected(p, e)}, Before)
    IN  SubSeq(found, 1, IF Len(found) < p.pageLimit THEN Len(found) ELSE p.pageLimit)

toEntryMeta(e) ==
    [id |-> e, project |-> entries[e].project, kind |-> fromModelKind(entries[e].kind),
     title |-> entries[e].title, domain |-> entries[e].domain,
     totp |-> entries[e].totp, favorite |-> entries[e].favorite,
     version |-> entries[e].version, updated |-> entries[e].updated]

\* The same columns and the ciphertext, which the version stands for.
toEntry(e) == toEntryMeta(e)

\* The reader starts: it is owed what matches now.
StartWalk ==
    \E f \in Filters, n \in Limits :
        LET q == [Idle EXCEPT !.filter = f, !.limit = n] IN
        /\ walk.pc = "idle"
        /\ walk' = [q EXCEPT !.pc = "list",
                             !.owed = IF Invalid(f) THEN {}
                                      ELSE {e \in Stored : Selected(buildListParams(q), e)}]
        /\ UNCHANGED <<entries, clock>>

\* One page.  A full page comes with the updated_at of its last row.
ListEntries ==
    LET p == buildListParams(walk)
        rows == ListRows(p)
        full == Len(rows) = p.pageLimit /\ Len(rows) > 0
    IN  /\ walk.pc = "list"
        /\ ~Invalid(walk.filter)
        /\ walk' = [walk EXCEPT
                      !.pc = IF full THEN "open" ELSE "openlast",
                      !.after = IF full THEN entries[rows[Len(rows)]].updated ELSE @,
                      !.page = [i \in DOMAIN rows |-> toEntryMeta(rows[i])]]
        /\ UNCHANGED <<entries, clock>>

ListRefused ==
    /\ walk.pc = "list"
    /\ Invalid(walk.filter)
    /\ walk' = [walk EXCEPT !.pc = "refused"]
    /\ UNCHANGED <<entries, clock>>

-----------------------------------------------------------------------------
(* GetEntriesByIds: the payloads of a page, those that are still there     *)

GetEntriesByIDs(ids) == {toEntry(e) : e \in ids \cap Stored}

GetEntriesByIds ==
    LET n == IF Len(walk.page) < MaxBatchGet THEN Len(walk.page) ELSE MaxBatchGet
        rest == SubSeq(walk.page, n + 1, Len(walk.page))
    IN  /\ walk.pc \in {"open", "openlast"}
        /\ walk' = [walk EXCEPT
                      !.opened = @ \cup GetEntriesByIDs({walk.page[i].id : i \in 1..n}),
                      !.page = rest,
                      !.pc = IF rest # <<>> THEN @
                             ELSE IF @ = "open" THEN "list" ELSE "done"]
        /\ UNCHANGED <<entries, clock>>

Next ==
    \/ CreateEntry \/ UpdateEntry \/ ToggleFavorite \/ DeleteEntry
    \/ StartWalk \/ ListEntries \/ ListRefused \/ GetEntriesByIds

Spec == Init /\ [][Next]_vars

-----------------------------------------------------------------------------
(* Property                                                                *)

\* "Cursor for the next page in the form of an updated_at timestamp; pass
\* back via updated_after to continue": a client that does so until there is
\* no cursor holds the present version of every entry that matched when it
\* began and was not written since.
WalkReachesAll ==
    walk.pc = "done" => \A e \in walk.owed : toEntry(e) \in walk.opened
=============================================================================
