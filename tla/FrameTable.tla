----------------------------- MODULE FrameTable -----------------------------
(***************************************************************************)
(* What DataFrame promises its callers, with no overlay, column map or key *)
(* index in sight: a table of cells under named columns, in which rows may *)
(* be found by position or by key.  A cell is edited in place, rows and    *)
(* columns come and go, and every answer is the table's at one moment of   *)
(* the call, also while callbacks on several threads edit cells.           *)
(***************************************************************************)
EXTENDS Naturals, Sequences, SequencesExt

CONSTANTS Sources,  \* what a reader delivers: names and rows of cells
          Names,    \* of columns
          Values,   \* of cells, "" among them
          Policies  \* of DuplicateKeyPolicy

VARIABLES columns,  \* the names, in order
          table,    \* the rows of cells
          parsed,   \* the same without the edits of single cells
          keyed,    \* rows have keys
          key_col,  \* the column that holds the keys; 0: they were computed
          keys,     \* a key per row, no two alike
          answer    \* of the last call that had one

tableVars == <<columns, table, parsed, keyed, key_col, keys, answer>>

Positions(key) == {i \in DOMAIN table : keys[i] = key}

(* Of the rows with the same key the first, or what the last overwrote it with. *)
IsLoaded(loaded, source, field, policy) ==
    LET same(i) == {j \in DOMAIN source : source[j][field] = source[i][field]}
        firsts == {i \in DOMAIN source : \A j \in same(i) : i <= j}
        last(i) == CHOOSE j \in same(i) : \A k \in same(i) : k <= j
    IN  \E order \in [DOMAIN loaded -> firsts] :
            /\ \A m, n \in DOMAIN loaded : m < n => order[m] < order[n]
            /\ \A i \in firsts : \E n \in DOMAIN loaded : order[n] = i
            /\ \A n \in DOMAIN loaded :
                  loaded[n] = source[IF policy = "OVERWRITE" THEN last(order[n]) ELSE order[n]]

Init ==
    /\ \E source \in Sources :
          /\ columns = source.names
          /\ \/ ~keyed /\ key_col = 0 /\ keys = <<>> /\ table = source.rows
             \/ /\ keyed
                /\ \E field \in DOMAIN columns, policy \in Policies :
                     /\ key_col \in {0, field}
                     /\ IsLoaded(table, source.rows, field, policy)
                     /\ policy = "THROW" => Len(table) = Len(source.rows)
                     /\ keys = [i \in DOMAIN table |-> table[i][field]]
    /\ parsed = table
    /\ answer = <<>>

EditCell(i, c, value) ==
    /\ table' = [table EXCEPT ![i][c] = value]
    /\ answer' = <<"edited", i, c, value>>
    /\ UNCHANGED <<columns, parsed, keyed, key_col, keys>>

(* A keyed row is only taken in if its key is new. *)
InsertRow(i, row) ==
    /\ Len(row) = Len(columns)
    /\ keyed => key_col # 0 /\ Positions(row[key_col]) = {}
    /\ table' = InsertAt(table, i, row)
    /\ parsed' = InsertAt(parsed, i, row)
    /\ keys' = IF keyed THEN InsertAt(keys, i, row[key_col]) ELSE keys
    /\ UNCHANGED <<columns, keyed, key_col>>

EraseRow(i) ==
    /\ table' = RemoveAt(table, i)
    /\ parsed' = RemoveAt(parsed, i)
    /\ keys' = IF keyed THEN RemoveAt(keys, i) ELSE keys
    /\ UNCHANGED <<columns, keyed, key_col>>

(* The new table is written and read again: edits become data, also those  *)
(* of keys, and a row that is one empty cell is a blank line nobody reads. *)
ReadBack(row) == IF row = <<"">> THEN <<>> ELSE <<row>>

InsertColumn(c, name, value) ==
    /\ \A d \in DOMAIN columns : columns[d] # name
    /\ columns' = InsertAt(columns, c, name)
    /\ table' = FlattenSeq([i \in DOMAIN table |-> ReadBack(InsertAt(table[i], c, value))])
    /\ parsed' = table'
    /\ key_col' = IF key_col # 0 /\ c <= key_col THEN key_col + 1 ELSE key_col
    /\ keys' = IF key_col = 0 THEN keys ELSE [i \in DOMAIN table |-> table[i][key_col]]
    /\ IsInjective(keys')
    /\ UNCHANGED keyed

EraseColumn(c) ==
    /\ c # key_col
    /\ columns' = RemoveAt(columns, c)
    /\ table' = [i \in DOMAIN table |-> RemoveAt(table[i], c)]
    /\ parsed' = [i \in DOMAIN table |-> RemoveAt(parsed[i], c)]
    /\ key_col' = IF c < key_col THEN key_col - 1 ELSE key_col
    /\ UNCHANGED <<keyed, keys>>

(* Calls that change nothing: cells, columns, rows by key or grouped by a   *)
(* column, objects of some of a row's columns, the rows a mask selects as   *)
(* they were parsed, or a refusal.                                         *)
Ask ==
    /\ \/ \E i \in DOMAIN table, c \in DOMAIN columns :
            answer' = <<"cell", i, c, table[i][c]>>
       \/ \E c \in DOMAIN columns :
            answer' = <<"column", columns[c], [i \in DOMAIN table |-> table[i][c]]>>
       \/ \E key \in Values : keyed /\ answer' = <<"rows of", key, Positions(key)>>
       \/ \E c \in DOMAIN columns :
            answer' = <<"groups", columns[c],
                [value \in {table[i][c] : i \in DOMAIN table} |->
                    {i \in DOMAIN table : table[i][c] = value}]>>
       \/ \E i \in DOMAIN table, subset \in SUBSET {columns[c] : c \in DOMAIN columns} :
            answer' = <<"json", i, subset,
                {<<columns[c], table[i][c]>> :
                    c \in {d \in DOMAIN columns : subset = {} \/ columns[d] \in subset}}>>
       \/ \E mask \in SUBSET DOMAIN table :
            answer' = <<"selected", mask, [i \in mask |-> parsed[i]]>>
       \/ answer' = <<"refused">>
    /\ UNCHANGED <<columns, table, parsed, keyed, key_col, keys>>

Restructure ==
    /\ answer' = <<>>
    /\ \/ \E i \in 1..(Len(table) + 1), row \in [DOMAIN columns -> Values] : InsertRow(i, row)
       \/ \E i \in DOMAIN table : EraseRow(i)
       \/ \E c \in 1..(Len(columns) + 1), name \in Names, value \in Values :
            InsertColumn(c, name, value)
       \/ \E c \in DOMAIN columns : EraseColumn(c)

Next ==
    \/ Ask
    \/ \E i \in DOMAIN table, c \in DOMAIN columns, value \in Values :
          EditCell(i, c, value)
    \/ Restructure

Spec == Init /\ [][Next]_tableVars
=============================================================================
