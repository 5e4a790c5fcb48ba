------------------------------ MODULE DataTables ------------------------------
(* The tables of data that scripts keep from a run of the server to the next       *)
(* (LUADataTable.cpp): a value set in one is given to the database under the names *)
(* that lead to it; a table set in one becomes a table of data, its values set one *)
(* by one.  At the next start the entries that the database tells are set again,     *)
(* one at a time, before any script runs (MonaServer.cpp onStart, onDataLoading).    *)
(* The database is here what its add and remove do when nothing resists or fails:     *)
(* entries by path, an entry written or removed takes those below it, and a call it    *)
(* refuses changes nothing; its load is here one that tells every entry, which the       *)
(* load of Database.tla does not.  Not modelled: a script that keeps a table of data    *)
(* which was removed and goes on setting values in it.                                 *)
EXTENDS Naturals, Sequences, FiniteSets, SequencesExt

CONSTANTS
    Keys,     \* the names that scripts use, numbers made texts
    Values,   \* texts and "false"; not "nil", which comes back as false
    Depth,    \* bound: names in a path
    MaxValues \* bound: a script sets nothing more once this many values are there

VARIABLES
    data,     \* what scripts see, by path: a value, or a table with its count and complexData
    entries,  \* what the database holds, by path
    loading   \* the paths of the entries that a start has still to set

dataVars == <<data, entries, loading>>

DataAssumption == Depth \in Nat /\ MaxValues \in Nat /\ "nil" \notin Values

EmptyTable == [kind |-> "table", count |-> 0, complex |-> {}]
Primitive(v) == [kind |-> "value", text |-> v]

IsTable(tree, p) == p \in DOMAIN tree /\ tree[p].kind = "table"
Without(f, p) == [q \in {r \in DOMAIN f : ~IsPrefix(p, r)} |-> f[q]]
With(f, p, x) == [q \in DOMAIN f \cup {p} |-> IF q = p THEN x ELSE f[q]]

(* __newindex of |items: the key is set, and whether it is a new one known.        *)
NewInsertion(tree, p, k) == Append(p, k) \notin DOMAIN tree

(* What a script sees once the key k of the table p is this node; the count grows  *)
(* with a new key, and a new table is remembered as such.                           *)
Put(tree, p, k, node) ==
    LET new   == NewInsertion(tree, p, k)
        isNew == IF new THEN 1 ELSE 0
    IN  With([Without(tree, Append(p, k)) EXCEPT
                 ![p] = [@ EXCEPT !.count = @ + isNew,
                                  !.complex = IF new /\ node.kind = "table" THEN @ \cup {k} ELSE @]],
             Append(p, k), node)

(* A table is there already: only nil may be set. *)
Prohibited(tree, p, k) == k \in tree[p].complex

-----------------------------------------------------------------------------
(* Set, by its three kinds of value. *)

SetValue(p, k, v) ==
    /\ ~Prohibited(data, p, k)
    /\ data' = Put(data, p, k, Primitive(v))
    /\ entries' = With(Without(entries, Append(p, k)), Append(p, k), v)

(* A key that was not there is removed on the database all the same. *)
RemoveKey(p, k) ==
    /\ entries' = Without(entries, Append(p, k))
    /\ data' = IF NewInsertion(data, p, k) THEN data
               ELSE [Without(data, Append(p, k)) EXCEPT
                        ![p] = [@ EXCEPT !.count = @ - 1, !.complex = @ \ {k}]]

(* A table, of whose values the database accepts this content: itself it is no     *)
(* entry of the database, and the value it takes the place of stays there.          *)
Within(path, content) == {Append(path, c) : c \in DOMAIN content}

Filled(tree, path, content) ==
    LET new == Within(path, content)
    IN  [q \in DOMAIN tree \cup new |->
            IF q \in new THEN Primitive(content[Last(q)])
            ELSE IF q = path THEN [tree[path] EXCEPT !.count = Cardinality(DOMAIN content)]
            ELSE tree[q]]

Written(path, content) ==
    LET new  == Within(path, content)
        kept == {q \in DOMAIN entries : \A n \in new : ~IsPrefix(n, q)}
    IN  [q \in kept \cup new |-> IF q \in new THEN content[Last(q)] ELSE entries[q]]

SetTable(p, k, content) ==
    LET path == Append(p, k)
    IN  /\ ~Prohibited(data, p, k) /\ Len(path) < Depth
        /\ data' = Filled(Put(data, p, k, EmptyTable), path, content)
        /\ entries' = Written(path, content)

-----------------------------------------------------------------------------
(* onDataLoading: the tables on the way that do not exist are made, after n names *)
(* those of the first n, none below a value; and the value is set in the last.      *)
Way(path, n) == SubSeq(path, 1, n)

MakeTable(tree, path, n) ==
    IF Way(path, n) \in DOMAIN tree \/ ~IsTable(tree, Way(path, n - 1)) THEN tree
    ELSE Put(tree, Way(path, n - 1), path[n], EmptyTable)

Made(tree, path) ==
    LET made[n \in 0 .. Len(path) - 1] ==
            IF n = 0 THEN tree ELSE MakeTable(made[n - 1], path, n)
    IN  made

Loaded(tree, path, v) ==
    LET made == Made(tree, path)[Len(path) - 1]
    IN  IF IsTable(made, Front(path)) /\ ~Prohibited(made, Front(path), Last(path))
        THEN Put(made, Front(path), Last(path), Primitive(v))
        ELSE made

Load(path) ==
    /\ data' = Loaded(data, path, entries[path])
    /\ loading' = loading \ {path}
    /\ UNCHANGED entries

(* The next start, its database loaded without being written. *)
Restart ==
    /\ data' = (<<>> :> EmptyTable)
    /\ loading' = DOMAIN entries
    /\ UNCHANGED entries

Init == data = (<<>> :> EmptyTable) /\ entries = [p \in {} |-> ""] /\ loading = {}

MaySet == Cardinality(DOMAIN entries) < MaxValues
Contents == UNION {[S -> Values] : S \in {U \in SUBSET Keys : IsFiniteSet(U)}}

Assign ==
    \E p \in DOMAIN data, k \in Keys :
        /\ IsTable(data, p)
        /\ \/ MaySet /\ \E v \in Values : SetValue(p, k, v)
           \/ RemoveKey(p, k)
           \/ MaySet /\ \E content \in Contents : SetTable(p, k, content)

Next ==
    \/ loading = {} /\ Assign /\ UNCHANGED loading
    \/ \E path \in loading : Load(path)
    \/ Restart

Spec == Init /\ [][Next]_dataVars

-----------------------------------------------------------------------------
LeavesOf(tree) == {p \in DOMAIN tree : tree[p].kind = "value"}
ItemsOf(tree, p) == {q \in DOMAIN tree : q # <<>> /\ Front(q) = p}

TypeOK ==
    /\ IsTable(data, <<>>)
    /\ \A p \in DOMAIN data \ {<<>>} : IsTable(data, Front(p))

Counted(tree, p) ==
    /\ tree[p].count = Cardinality(ItemsOf(tree, p))
    /\ tree[p].complex \subseteq {Last(q) : q \in ItemsOf(tree, p) \ LeavesOf(tree)}
    /\ \A q \in ItemsOf(tree, p) : q \in LeavesOf(tree) \cup DOMAIN entries \/ Last(q) \in tree[p].complex

(* The values that scripts see are entries of the database, by the same paths,     *)
(* whatever was set, refused, removed or loaded.  An entry that they do not see is   *)
(* still to be loaded, or it is the value that a table took the place of, which the   *)
(* database keeps, or is below such an entry: the next start may set these in either   *)
(* order.  A table counts its items, and protects those that are tables, but for one    *)
(* that took the place of a value, whose entry remains.                                   *)
Hidden(p) == IsTable(data, p) \/ \E q \in DOMAIN entries \ {p} : IsPrefix(q, p)

DataTablesSound ==
    /\ \A p \in LeavesOf(data) : p \in DOMAIN entries /\ entries[p] = data[p].text
    /\ LeavesOf(data) \cap loading = {}
    /\ \A p \in DOMAIN entries \ (LeavesOf(data) \cup loading) : Hidden(p)
    /\ \A p \in DOMAIN data \ LeavesOf(data) : Counted(data, p)
=============================================================================
