-------------------------------- MODULE Table --------------------------------
(***************************************************************************)
(* The hash table of the server: table.c, on the sorted linked lists of    *)
(* list.c, on the entries and data blocks of entry.c and data.c.           *)
(*                                                                         *)
(* A list is its size field and its nodes in order.  An entry is a key and *)
(* the data it holds; NULL is a data_t that is not there or has no bytes.  *)
(* A key stands for its place in the order of strcmp, and CharSum[key] for *)
(* the sum of its characters that hash_code computes.  The copies that     *)
(* strdup and data_dup make are values, so nothing is shared with callers. *)
(***************************************************************************)
EXTENDS Integers, FiniteSets, SequencesExt

CONSTANTS Keys, Values, NULL, NLists, CharSum

ASSUME KeysAssumption == Keys \subseteq Nat /\ IsFiniteSet(Keys)
ASSUME ValuesAssumption == NULL \notin Values

\* table_create refuses n <= 0.
ASSUME NListsAssumption == NLists \in Nat \ {0}

\* A char is signed where this code is built: only keys of ASCII characters
\* have a sum that is never negative, and a negative one indexes outside lists.
ASSUME AsciiAssumption == CharSum \in [Keys -> Nat]

VARIABLES lists, reply

vars == <<lists, reply>>

-----------------------------------------------------------------------------
\* entry.c, data.c

Entry(key, value) == [key |-> key, value |-> value]

\* entry_compare: the order of the keys, not of the values.
entry_before(e1, e2) == e1.key < e2.key

\* list.c

list_create == [size |-> 0, nodes |-> <<>>]

Holding(list, key) == {i \in DOMAIN list.nodes : list.nodes[i].key = key}

\* The first node with the key, which is where the loops of list_get,
\* list_add_exists and list_remove_exists stop.
Place(list, key) == Min(Holding(list, key))

list_get(list, key) ==
    IF Holding(list, key) = {} THEN NULL ELSE list.nodes[Place(list, key)].value

\* Mutant: the old entry stays in its node.
list_add_exists_KeepsOld(list, entry) == list

\* The new entry takes the place of the old one in its node.
list_add_exists(list, entry) ==
    [list EXCEPT !.nodes[Place(list, entry.key)] = entry]

\* Mutant: behind the first larger entry.
list_add_new_Behind(list, entry) ==
    LET larger == {i \in DOMAIN list.nodes : entry_before(entry, list.nodes[i])}
        at == IF larger = {} THEN Len(list.nodes) + 1 ELSE Min(larger) + 1
    IN  [size  |-> list.size + 1,
         nodes |-> IF list.size = 0 THEN <<entry>> ELSE InsertAt(list.nodes, at, entry)]

\* In front of the first larger entry, or at the end; the empty list is told
\* by its size field.
list_add_new(list, entry) ==
    LET larger == {i \in DOMAIN list.nodes : entry_before(entry, list.nodes[i])}
        at == IF larger = {} THEN Len(list.nodes) + 1 ELSE Min(larger)
    IN  [size  |-> list.size + 1,
         nodes |-> IF list.size = 0 THEN <<entry>> ELSE InsertAt(list.nodes, at, entry)]

list_add(list, entry) ==
    IF Holding(list, entry.key) # {}
    THEN list_add_exists(list, entry)
    ELSE list_add_new(list, entry)

list_remove_exists(list, key) ==
    [size |-> list.size - 1, nodes |-> RemoveAt(list.nodes, Place(list, key))]

list_get_keys(list) == [i \in DOMAIN list.nodes |-> list.nodes[i].key]

-----------------------------------------------------------------------------
\* table.c.  A table is the function from 0 .. size - 1 to its lists.

table_create(n) == [i \in 0 .. n - 1 |-> list_create]

hash_code(key, n) == CharSum[key] % n

\* The list a key belongs to.
Home(table, key) == hash_code(key, Cardinality(DOMAIN table))

table_put(table, key, value) ==
    [table EXCEPT ![Home(table, key)] = list_add(@, Entry(key, value))]

table_get(table, key) == list_get(table[Home(table, key)], key)

table_has(table, key) == Holding(table[Home(table, key)], key) # {}

table_remove(table, key) ==
    IF table_has(table, key)
    THEN [table EXCEPT ![Home(table, key)] = list_remove_exists(@, key)]
    ELSE table

\* The loops over the lists of table_size and table_get_keys: what they have
\* got after i lists.
SizeOfFirst(table) ==
    LET res[i \in 0 .. Cardinality(DOMAIN table)] ==
            IF i = 0 THEN 0 ELSE res[i - 1] + table[i - 1].size
    IN  res

\* Mutant: a list with one node is taken for empty.
KeysOfFirst_SkipsShort(table) ==
    LET keys[i \in 0 .. Cardinality(DOMAIN table)] ==
            IF i = 0 THEN <<>>
            ELSE keys[i - 1] \o IF table[i - 1].size > 1
                                THEN list_get_keys(table[i - 1]) ELSE <<>>
    IN  keys

KeysOfFirst(table) ==
    LET keys[i \in 0 .. Cardinality(DOMAIN table)] ==
            IF i = 0 THEN <<>>
            ELSE keys[i - 1] \o IF table[i - 1].size # 0
                                THEN list_get_keys(table[i - 1]) ELSE <<>>
    IN  keys

\* The sum of the size fields.
table_size(table) == SizeOfFirst(table)[Cardinality(DOMAIN table)]

\* NULL for the empty table, else the keys of every list that is not empty.
table_get_keys(table) ==
    IF table_size(table) > 0 THEN KeysOfFirst(table)[Cardinality(DOMAIN table)] ELSE <<>>

\* op_gettable of table_skel.c: the keys first, then one table_get for each.
Snapshot(table) ==
    LET keys == table_get_keys(table)
    IN  [i \in DOMAIN keys |-> Entry(keys[i], table_get(table, keys[i]))]

\* The joining server of table_server.c puts the entries one by one in a table
\* of its own, created with the n_lists of its own command line: the table
\* after i of them, and after all.
Loading(n, entries) ==
    LET table[i \in 0 .. Len(entries)] ==
            IF i = 0 THEN table_create(n)
            ELSE table_put(table[i - 1], entries[i].key, entries[i].value)
    IN  table

Load(n, entries) == Loading(n, entries)[Len(entries)]

-----------------------------------------------------------------------------
Init ==
    /\ lists = table_create(NLists)
    /\ reply = <<"create", 0>>

Put(key, value) ==
    /\ lists' = table_put(lists, key, value)
    /\ reply' = <<"put", key, value, 0>>

\* A value of no bytes: data_create, data_dup and entry_create give NULL, and
\* table_put or list_add answers -1.
PutNothing ==
    /\ reply' = <<"put", -1>>
    /\ UNCHANGED lists

Delete(key) ==
    /\ lists' = table_remove(lists, key)
    /\ reply' = <<"remove", key, IF table_has(lists, key) THEN 0 ELSE 1>>

Get(key) ==
    /\ reply' = <<"get", key, table_get(lists, key)>>
    /\ UNCHANGED lists

Size ==
    /\ reply' = <<"size", table_size(lists)>>
    /\ UNCHANGED lists

GetKeys ==
    /\ reply' = <<"get_keys", table_get_keys(lists)>>
    /\ UNCHANGED lists

Next ==
    \/ \E key \in Keys, value \in Values : Put(key, value)
    \/ \E key \in Keys : Delete(key) \/ Get(key)
    \/ PutNothing \/ Size \/ GetKeys

Spec == Init /\ [][Next]_vars

-----------------------------------------------------------------------------
Increasing(list) ==
    \A i, j \in DOMAIN list.nodes : i < j => entry_before(list.nodes[i], list.nodes[j])

\* Every list is sorted without a repeated key, its size field counts its
\* nodes, every entry has data and every key is in the list hash_code names:
\* what list_add_new, list_remove_exists and the early stop of list_get need.
TableInv ==
    /\ lists \in [0 .. NLists - 1 -> [size : Nat, nodes : Seq([key : Keys, value : Values])]]
    /\ \A i \in DOMAIN lists :
        /\ lists[i].size = Len(lists[i].nodes)
        /\ Increasing(lists[i])
        /\ \A j \in DOMAIN lists[i].nodes : hash_code(lists[i].nodes[j].key, NLists) = i

Content(table) == [k \in Keys |-> table_get(table, k)]

\* The table implements the map of KVMap, the results of the calls included.
KV == INSTANCE KVMap WITH map <- Content(lists)

ImplementsMap == KV!Spec

\* The state transfer loses, adds and changes nothing, whatever the number of
\* lists of the receiving server.
TransferKeepsContent ==
    \A n \in 1 .. NLists + 1 : Content(Load(n, Snapshot(lists))) = Content(lists)
=============================================================================
