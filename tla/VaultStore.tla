----------------------------- MODULE VaultStore -----------------------------
(***************************************************************************)
(* What the entries and projects of a vault promise, whatever              *)
(* transactions and retries they are built from: every change happens at   *)
(* once, to a record that is there; a blob is always sealed for the        *)
(* version its record carries; and an entry's project exists.  Vault       *)
(* implements it.                                                          *)
(***************************************************************************)
EXTENDS Naturals, Sequences, Functions

CONSTANTS Entries, Projects, NoRow, NoProject, Blobs, Lists

VARIABLE rows

Stored == {i \in Entries \cup Projects : rows[i] # NoRow}

Sealed(row, b, v) == [row EXCEPT !.version = v, !.blob = b, !.seal = v]

\* The projects an entry may name.
Homes == {NoProject} \cup (Stored \cap Projects)

Created(i, b) ==
    \E f \in BOOLEAN, p \in IF i \in Entries THEN Homes ELSE {NoProject} :
        rows' = [rows EXCEPT ![i] = [version |-> 1, blob |-> b, seal |-> 1,
                                     favorite |-> f, project |-> p, order |-> 0]]

Updated(i, b) ==
    \E f \in BOOLEAN, p \in IF i \in Entries THEN Homes ELSE {NoProject} :
        rows' = [rows EXCEPT ![i] =
                   [Sealed(@, b, @.version + 1) EXCEPT !.favorite = f,
                                                       !.project = p]]

\* Entries of a deleted project stay, outside every project.
Deleted(i) ==
    rows' = [j \in DOMAIN rows |->
               CASE j = i -> NoRow
                 [] rows[j] # NoRow /\ rows[j].project = i ->
                      [rows[j] EXCEPT !.project = NoProject]
                 [] OTHER -> rows[j]]

Starred(e) == \E f \in BOOLEAN : rows' = [rows EXCEPT ![e].favorite = f]

\* The projects in S get the places a list gives them.  A listed project
\* that is created while the list is being applied keeps its own.
Reordered(list, S) ==
    rows' = [i \in DOMAIN rows |->
               IF i \in S
               THEN [rows[i] EXCEPT !.order = CHOOSE k \in 0..Len(list) - 1 :
                                                list[k + 1] = i]
               ELSE rows[i]]

StoreInit ==
    \A i \in Stored : /\ rows[i].version = rows[i].seal
                      /\ rows[i].project \in Homes

StoreNext ==
    /\ rows' # rows
    /\ \/ \E i \in (Entries \cup Projects) \ Stored, b \in Blobs : Created(i, b)
       \/ \E i \in Stored : Deleted(i) \/ \E b \in Blobs : Updated(i, b)
       \/ \E e \in Stored \cap Entries : Starred(e)
       \/ \E list \in Lists, S \in SUBSET (Stored \cap Projects) :
             S \subseteq Range(list) /\ Reordered(list, S)

StoreSpec == StoreInit /\ [][StoreNext]_rows
=============================================================================
