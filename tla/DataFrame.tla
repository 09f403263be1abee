----------------------------- MODULE DataFrame ------------------------------
(***************************************************************************)
(* DataFrame: parsed rows under a sparse overlay of edits, columns that    *)
(* are hidden instead of removed, keys with an index built when first      *)
(* asked for, proxies that outlive a change of the columns, and callbacks  *)
(* on several threads (column_parallel_apply).                             *)
(*   src/include/internal/data_frame/*.hpp                                 *)
(*                                                                         *)
(* The owner's calls are single steps: nobody else uses the frame then.    *)
(* The callbacks take the steps the memory sees.  KeyType is std::string,  *)
(* rows have a field per column (VariableColumnPolicy::IGNORE_ROW), names  *)
(* are told apart exactly, the build has threads.  Positions count from 1; *)
(* "physical" ones are those of the parsed CSVRow.                         *)
(***************************************************************************)
EXTENDS Naturals, Sequences, SequencesExt, FiniteSets

CONSTANTS Sources,        \* what a reader delivers: names and rows
          Names, Values,  \* of columns; of cells, "" among them
          Policies,       \* DuplicateKeyPolicy
          Threads,        \* the executor's workers
          MaxChanges,     \* bound on the owner's changes: column_parallel_apply,
          MaxCells        \* of a frame of at most so many cells, is the last

ASSUME FrameAssumption ==
    /\ "" \in Values /\ "free" \notin Threads
    /\ \A s \in Sources : /\ s.names \in Seq(Names) /\ s.rows \in Seq(Seq(Values))
                          /\ \A i \in DOMAIN s.rows : Len(s.rows[i]) = Len(s.names)

VARIABLES col_names,      \* the visible names
          width,          \* physical_n_cols()
          column_indices, \* visible position -> physical position
          rows,           \* the CSVRows: what was parsed
          edits,          \* a RowOverlaySlot per row
          is_keyed, keys_,
          key_column,     \* key_column_index_, physical; 0: CSV_NOT_FOUND
          key_index,      \* the map and whether it was built
          json,           \* json_converter_: init_once_, value_ and its names
          generation,     \* column_generation_
          view,           \* a column proxy somebody keeps, and whose it was
          tasks,          \* of column_parallel_apply: the columns not yet done
          call,           \* thread -> where its callback is
          lock,           \* who holds edits_creation_lock_
          answer,         \* of the last call that had one
          undefined,      \* why nothing can be answer any more, or "no"
          changes         \* the owner's changes so far

frameVars == <<col_names, width, column_indices, rows, edits, is_keyed, keys_, key_column>>
cacheVars == <<key_index, json, generation, view>>
applyVars == <<tasks, call, lock>>
vars == <<frameVars, cacheVars, applyVars, answer, undefined, changes>>

Overlay(made, values) == [made |-> made, values |-> values]
NoOverlay == Overlay(FALSE, <<>>)
NoIndex == [built |-> FALSE, map |-> <<>>]
Working == \E t \in Threads : call[t].at # "idle"
Owner == tasks = {} /\ ~Working /\ undefined = "no"

(* A change of the owner, within the bound. *)
Change ==
    /\ Owner /\ changes < MaxChanges /\ changes' = changes + 1
    /\ UNCHANGED <<applyVars, undefined>>
Query == Owner /\ UNCHANGED <<frameVars, applyVars, undefined, changes>>

(* DataFrameCell: the overlay's value before the parsed one. *)
Cell(i, p) == IF p \in DOMAIN edits[i].values THEN edits[i].values[p] ELSE rows[i][p]
Row(i) == [c \in DOMAIN column_indices |-> Cell(i, column_indices[c])]
Table == [i \in DOMAIN rows |-> Row(i)]

-----------------------------------------------------------------------------
(* Construction. *)

(* append_keyed_batch(), a row at a time, for all the batches of a source. *)
AppendKeyedRow(acc, row, field, policy) ==
    LET existing == {i \in DOMAIN acc.keys : acc.keys[i] = row[field]}
    IN  IF existing = {}
        THEN [acc EXCEPT !.rows = Append(@, row), !.keys = Append(@, row[field])]
        ELSE IF policy = "OVERWRITE"
        THEN [acc EXCEPT !.rows = [i \in DOMAIN @ |-> IF i \in existing THEN row ELSE @[i]]]
        ELSE [acc EXCEPT !.thrown = (policy = "THROW")]

AppendKeyed(source, field, policy) ==
    LET loaded[n \in 0..Len(source.rows)] ==
            IF n = 0 THEN [rows |-> <<>>, keys |-> <<>>, thrown |-> FALSE]
            ELSE AppendKeyedRow(loaded[n - 1], source.rows[n], field, policy)
    IN  loaded[Len(source.rows)]

InitUnkeyed(source) ==
    /\ is_keyed = FALSE
    /\ rows = source.rows /\ keys_ = <<>> /\ key_column = 0

InitKeyed(source) ==
    /\ is_keyed = TRUE
    /\ \E field \in DOMAIN source.names, policy \in Policies :
         LET loaded == AppendKeyed(source, field, policy)
         IN  /\ ~loaded.thrown
             /\ rows = loaded.rows /\ keys_ = loaded.keys
             /\ key_column \in {0, field}   \* a key function, or a column

Init ==
    /\ \E source \in Sources :
         /\ col_names = source.names
         /\ width = Len(source.names)
         /\ InitUnkeyed(source) \/ InitKeyed(source)
    /\ column_indices = [c \in 1..width |-> c]
    /\ edits = [i \in DOMAIN rows |-> NoOverlay]
    /\ key_index = NoIndex
    /\ json = [once |-> FALSE, made |-> FALSE, names |-> <<>>]
    /\ generation = 0
    /\ view = [taken |-> FALSE, col |-> 1, generation |-> 0, name |-> ""]
    /\ tasks = {} /\ lock = "free" /\ undefined = "no" /\ changes = 0
    /\ call = [t \in Threads |-> [at |-> "idle"]]
    /\ answer = <<>>

-----------------------------------------------------------------------------
(* The key index: a map from the first n rows' keys, built when asked for. *)

IndexOf(n) ==
    [key \in {keys_[i] : i \in 1..n} |->
        CHOOSE i \in 1..n : keys_[i] = key /\ \A j \in (i + 1)..n : keys_[j] # key]

EnsureKeyIndex ==
    IF key_index.built THEN key_index ELSE [built |-> TRUE, map |-> IndexOf(Len(rows))]

(* Mutant: the index of the rows as they were is kept. *)
KeepKeyIndex == key_index' = key_index

InvalidateKeyIndex == key_index' = NoIndex

Find(index, key) == IF key \in DOMAIN index.map THEN {index.map[key]} ELSE {}

-----------------------------------------------------------------------------
(* Rows. *)

Put(values, p, value) ==
    [q \in DOMAIN values \cup {p} |-> IF q = p THEN value ELSE values[q]]

(* frame.at(i)[c] = value *)
EditCell(i, c, value) ==
    /\ Change
    /\ edits' = [edits EXCEPT ![i] = Overlay(TRUE, Put(@.values, column_indices[c], value))]
    /\ answer' = <<"edited", i, c, value>>
    /\ UNCHANGED <<col_names, width, column_indices, rows, is_keyed, keys_, key_column, cacheVars>>

(* Mutant: the fields of an inserted row are not moved to theirs. *)
VisibleRowAsIs(row) == row

(* The fields of hidden columns are empty. *)
ExpandVisibleRow(row) ==
    IF column_indices = <<>> \/ width = Len(col_names) THEN row
    ELSE [p \in 1..width |->
            IF \E c \in DOMAIN row : column_indices[c] = p
            THEN row[CHOOSE c \in DOMAIN row : column_indices[c] = p] ELSE ""]

(* A row whose key is taken is refused, after the index was built. *)
InsertRow(i, row) ==
    /\ Change
    /\ LET inserted == ExpandVisibleRow(row)
           index == EnsureKeyIndex
           refused == is_keyed /\ (key_column = 0 \/ Find(index, inserted[key_column]) # {})
       IN  IF refused
           THEN /\ key_index' = IF key_column = 0 THEN key_index ELSE index
                /\ answer' = <<"refused">>
                /\ UNCHANGED frameVars
           ELSE /\ rows' = InsertAt(rows, i, inserted)
                /\ edits' = InsertAt(edits, i, NoOverlay)
                /\ keys_' = IF is_keyed THEN InsertAt(keys_, i, inserted[key_column]) ELSE keys_
                /\ InvalidateKeyIndex
                /\ answer' = <<>>
                /\ UNCHANGED <<col_names, width, column_indices, is_keyed, key_column>>
    /\ UNCHANGED <<json, generation, view>>

EraseAtIndex(i) ==
    /\ Change
    /\ edits' = RemoveAt(edits, i)
    /\ rows' = RemoveAt(rows, i)
    /\ keys_' = IF is_keyed THEN RemoveAt(keys_, i) ELSE keys_
    /\ InvalidateKeyIndex
    /\ answer' = <<>>
    /\ UNCHANGED <<col_names, width, column_indices, is_keyed, key_column, json, generation, view>>

-----------------------------------------------------------------------------
(* Columns. *)

(* Mutant: proxies stay valid. *)
KeepColumnProxies == generation' = generation

InvalidateColumnProxies == generation' = generation + 1

(* A new lazy_shared_ptr is moved in: only its value_ is. *)
InvalidateJsonConverter == json' = [json EXCEPT !.made = FALSE, !.names = <<>>]

(* The visible table is written out with the new column and parsed again;  *)
(* a row of one empty field is written as a blank line and not read.       *)
ReadBack(row) == IF row = <<"">> THEN <<>> ELSE <<row>>

InsertColumn(at, name, value) ==
    LET rebuilt == FlattenSeq([i \in DOMAIN rows |-> ReadBack(InsertAt(Row(i), at, value))])
        old == CHOOSE c \in 0..Len(column_indices) :
                   key_column # 0 => c > 0 /\ column_indices[c] = key_column
        key == IF key_column = 0 THEN 0 ELSE IF at <= old THEN old + 1 ELSE old
        rebuilt_keys == IF key = 0 THEN keys_ ELSE [i \in DOMAIN rebuilt |-> rebuilt[i][key]]
    IN  /\ Change
        /\ \A c \in DOMAIN col_names : col_names[c] # name
        /\ IF key # 0 /\ ~IsInjective(rebuilt_keys)
           THEN answer' = <<"refused">> /\ UNCHANGED <<frameVars, cacheVars>>
           ELSE /\ col_names' = InsertAt(col_names, at, name)
                /\ width' = Len(col_names')
                /\ column_indices' = [c \in 1..width' |-> c]
                /\ rows' = rebuilt
                /\ edits' = [i \in DOMAIN rebuilt |-> NoOverlay]
                /\ key_column' = key
                /\ keys_' = rebuilt_keys
                /\ InvalidateKeyIndex
                /\ InvalidateColumnProxies
                /\ InvalidateJsonConverter
                /\ answer' = <<>>
                /\ UNCHANGED <<is_keyed, view>>

Valid(proxy) == proxy.taken /\ proxy.generation = generation

ProxyOf(c) == [taken |-> TRUE, col |-> c, generation |-> generation, name |-> col_names[c]]

(* DataFrameColumn::erase(): the column is hidden, its fields stay. *)
EraseColumn(proxy) ==
    /\ Change
    /\ IF ~Valid(proxy) \/ (is_keyed /\ column_indices[proxy.col] = key_column)
       THEN answer' = <<"refused">> /\ UNCHANGED <<frameVars, cacheVars>>
       ELSE /\ col_names' = RemoveAt(col_names, proxy.col)
            /\ column_indices' = RemoveAt(column_indices, proxy.col)
            /\ InvalidateColumnProxies
            /\ InvalidateJsonConverter
            /\ answer' = <<>>
            /\ UNCHANGED <<width, rows, edits, is_keyed, keys_, key_column, key_index, view>>

TakeView(c) ==
    /\ Query /\ ~Valid(view)
    /\ view' = ProxyOf(c)
    /\ UNCHANGED <<key_index, json, generation, answer>>

-----------------------------------------------------------------------------
(* Calls that answer. *)

ReadCell(i, c) ==
    /\ Query
    /\ answer' = <<"cell", i, c, Cell(i, column_indices[c])>>
    /\ UNCHANGED cacheVars

ReadColumn ==
    /\ Query
    /\ view.taken
    /\ answer' = IF Valid(view)
                 THEN <<"column", view.name,
                        [i \in DOMAIN rows |-> Cell(i, column_indices[view.col])]>>
                 ELSE <<"refused">>
    /\ UNCHANGED cacheVars

PositionOf(key) ==
    /\ Query
    /\ IF is_keyed
       THEN key_index' = EnsureKeyIndex /\ answer' = <<"rows of", key, Find(key_index', key)>>
       ELSE answer' = <<"refused">> /\ UNCHANGED key_index
    /\ UNCHANGED <<json, generation, view>>

(* Calls that name a column: DataFrame::column(), group_by(). *)
ColumnNamed(name) ==
    /\ Query
    /\ \/ /\ \A c \in DOMAIN col_names : col_names[c] # name
          /\ answer' = <<"refused">>
       \/ \E c \in DOMAIN col_names :
             LET cells == [i \in DOMAIN rows |-> Cell(i, column_indices[c])]
             IN  /\ col_names[c] = name
                 /\ \/ answer' = <<"column", name, cells>>
                    \/ answer' = <<"groups", name,
                           [value \in Range(cells) |-> {i \in DOMAIN rows : cells[i] = value}]>>
    /\ UNCHANGED cacheVars

(* JsonConverter: the names it was made with, and where they stood, give   *)
(* the object's members; without a subset every field gets one.            *)
Members(names, count, subset) ==
    {c \in DOMAIN names : c <= count /\ (subset = {} \/ names[c] \in subset)}

(* to_json(): call_once makes the converter only once.                     *)
ToJson(i, subset) ==
    /\ Owner
    /\ json' = IF json.once THEN json ELSE [once |-> TRUE, made |-> TRUE, names |-> col_names]
    /\ undefined' = IF json'.made THEN undefined ELSE "null converter"
    /\ answer' = IF subset \subseteq Range(json'.names)
                 THEN <<"json", i, subset, {<<json'.names[c], Row(i)[c]>> :
                           c \in Members(json'.names, Len(col_names), subset)}>>
                 ELSE <<"refused">>
    /\ UNCHANGED <<frameVars, key_index, generation, view, applyVars, changes>>

(* The selected rows are copied as they were parsed. *)
SelectedRows(mask) ==
    /\ Query
    /\ answer' = <<"selected", mask,
           [i \in mask |-> [c \in DOMAIN column_indices |-> rows[i][column_indices[c]]]]>>
    /\ UNCHANGED cacheVars

-----------------------------------------------------------------------------
(* column_parallel_apply(): a task per selected column, each run once by   *)
(* some thread (module ParallelFor); the callback reads or edits a cell of *)
(* its column, or asks for a key.                                          *)

ColumnParallelApply ==
    /\ Owner /\ changes < MaxChanges /\ changes' = MaxChanges
    /\ col_names # <<>> /\ Len(col_names) * Len(rows) <= MaxCells
    /\ tasks' = DOMAIN col_names
    /\ UNCHANGED <<frameVars, cacheVars, call, lock, answer, undefined>>

Step(t, from, to) == call[t].at = from /\ call' = [call EXCEPT ![t].at = to]
Return(t, from) == call[t].at = from /\ call' = [call EXCEPT ![t] = [at |-> "idle"]]
Others == <<col_names, width, column_indices, rows, is_keyed, keys_, key_column,
            json, generation, view, tasks, changes>>

(* What a callback given column c may do: nothing, or one of these. *)
Calls(c) ==
    LET p == column_indices[c]
    IN  {[at |-> "idle"]}
        \cup {[at |-> "read", i |-> i, c |-> c, p |-> p] : i \in DOMAIN rows}
        \cup {[at |-> "edit", i |-> i, c |-> c, p |-> p, value |-> value] :
                  i \in DOMAIN rows, value \in Values}
        \cup {[at |-> "find", value |-> value] : value \in IF is_keyed THEN Values ELSE {}}

Callback(t) ==
    /\ call[t].at = "idle" /\ undefined = "no"
    /\ \E c \in tasks : \E next \in Calls(c) :
         tasks' = tasks \ {c} /\ call' = [call EXCEPT ![t] = next]
    /\ UNCHANGED <<frameVars, cacheVars, lock, answer, undefined, changes>>

(* ensure_row_edits(): looks, locks, looks again. *)
EditLooks(t) ==
    /\ call[t].at = "edit"
    /\ Step(t, "edit", IF edits[call[t].i].made THEN "set" ELSE "lock")
    /\ UNCHANGED <<Others, edits, key_index, lock, answer, undefined>>

EditLocks(t) ==
    /\ lock = "free" /\ lock' = t
    /\ Step(t, "lock", "ensure")
    /\ UNCHANGED <<Others, edits, key_index, answer, undefined>>

(* Mutant: no second look. *)
EnsureAfresh(slot) == Overlay(TRUE, <<>>)

Ensure(slot) == IF slot.made THEN slot ELSE Overlay(TRUE, <<>>)

EditEnsures(t) ==
    /\ Step(t, "ensure", "set")
    /\ edits' = [edits EXCEPT ![call[t].i] = Ensure(@)]
    /\ lock' = "free"
    /\ UNCHANGED <<Others, key_index, answer, undefined>>

(* RowOverlay::set(), under the overlay's own lock. *)
EditSets(t) ==
    /\ Return(t, "set")
    /\ edits' = [edits EXCEPT ![call[t].i].values = Put(@, call[t].p, call[t].value)]
    /\ answer' = <<"edited", call[t].i, call[t].c, call[t].value>>
    /\ UNCHANGED <<Others, key_index, lock, undefined>>

ReadLooks(t) ==
    /\ call[t].at = "read"
    /\ IF edits[call[t].i].made
       THEN Step(t, "read", "get") /\ UNCHANGED answer
       ELSE /\ Return(t, "read")
            /\ answer' = <<"cell", call[t].i, call[t].c, rows[call[t].i][call[t].p]>>
    /\ UNCHANGED <<Others, edits, key_index, lock, undefined>>

(* RowOverlay::try_get_copy(), under the overlay's own lock. *)
ReadGets(t) ==
    /\ Return(t, "get")
    /\ answer' = <<"cell", call[t].i, call[t].c, Cell(call[t].i, call[t].p)>>
    /\ UNCHANGED <<Others, edits, key_index, lock, undefined>>

(* ensure_key_index() has no lock: whoever comes while another builds reads *)
(* a half-made map, or replaces it.                                        *)
FindLooks(t) ==
    /\ call[t].at = "find"
    /\ Step(t, "find", IF key_index.built THEN "find it" ELSE "build")
    /\ undefined' = IF \E u \in Threads : call[u].at \in {"build", "fill"}
                    THEN "key index" ELSE undefined
    /\ UNCHANGED <<Others, edits, key_index, lock, answer>>

FindBuilds(t) ==
    /\ Step(t, "build", "fill")
    /\ key_index' = [built |-> TRUE, map |-> <<>>]
    /\ UNCHANGED <<Others, edits, lock, answer, undefined>>

FindFills(t) ==
    /\ Step(t, "fill", "find it")
    /\ key_index' = [key_index EXCEPT !.map = IndexOf(Len(rows))]
    /\ UNCHANGED <<Others, edits, lock, answer, undefined>>

Finds(t) ==
    /\ Return(t, "find it")
    /\ answer' = <<"rows of", call[t].value, Find(key_index, call[t].value)>>
    /\ UNCHANGED <<Others, edits, key_index, lock, undefined>>

-----------------------------------------------------------------------------
(* Nothing is answer of a program whose behaviour is undefined. *)
Undefined == undefined # "no" /\ UNCHANGED vars

OwnerChanges ==
    \/ \E i \in DOMAIN rows, c \in DOMAIN col_names, value \in Values : EditCell(i, c, value)
    \/ \E i \in 1..(Len(rows) + 1), row \in [DOMAIN col_names -> Values] : InsertRow(i, row)
    \/ \E i \in DOMAIN rows : EraseAtIndex(i)
    \/ \E c \in 1..(Len(col_names) + 1), name \in Names, value \in Values :
          InsertColumn(c, name, value)
    \/ \E proxy \in {view} \cup {ProxyOf(c) : c \in DOMAIN col_names} : EraseColumn(proxy)
    \/ ColumnParallelApply

OwnerAsks ==
    \/ \E c \in DOMAIN col_names : TakeView(c)
    \/ \E i \in DOMAIN rows, c \in DOMAIN col_names : ReadCell(i, c)
    \/ ReadColumn
    \/ \E key \in Values : PositionOf(key)
    \/ \E name \in Names : ColumnNamed(name)
    \/ \E i \in DOMAIN rows, subset \in SUBSET Names : ToJson(i, subset)
    \/ \E mask \in SUBSET DOMAIN rows : SelectedRows(mask)

Thread(t) ==
    \/ Callback(t)
    \/ EditLooks(t) \/ EditLocks(t) \/ EditEnsures(t) \/ EditSets(t)
    \/ ReadLooks(t) \/ ReadGets(t)
    \/ FindLooks(t) \/ FindBuilds(t) \/ FindFills(t) \/ Finds(t)

Next == OwnerChanges \/ OwnerAsks \/ (\E t \in Threads : Thread(t)) \/ Undefined

Spec == Init /\ [][Next]_vars

-----------------------------------------------------------------------------
(* Properties. *)

(* The frame keeps the promise of FrameTable: whatever is hidden, edited,   *)
(* indexed or cached, every answer is that of the plain table, every change *)
(* changes only what it should, and no edit of a callback is lost to another*)
(* (until the behaviour is undefined: README, "Exceptions").                *)
VisibleKeyColumn ==
    CHOOSE c \in 0..Len(column_indices) :
        IF \E d \in DOMAIN column_indices : column_indices[d] = key_column
        THEN c # 0 /\ column_indices[c] = key_column ELSE c = 0

FT == INSTANCE FrameTable WITH
    columns <- col_names, table <- Table,
    parsed <- [i \in DOMAIN rows |->
                  [c \in DOMAIN column_indices |-> rows[i][column_indices[c]]]],
    keyed <- is_keyed, key_col <- VisibleKeyColumn, keys <- keys_, answer <- answer

FrameSpec == FT!Init /\ [][undefined' # "no" \/ FT!Next]_(FT!tableVars)

(* An index that is built is the one a fresh build would make, after any    *)
(* sequence of insertions, erasures and rebuilt keys.                       *)
KeyIndexCurrent ==
    Owner /\ key_index.built => key_index.map = IndexOf(Len(rows))

(* The vectors that describe rows and columns stay parallel, the visible    *)
(* columns are distinct fields of every row, and the key column is one of   *)
(* them; the keys of the rows are distinct.                                 *)
ShapeKept ==
    /\ Len(edits) = Len(rows)
    /\ Len(column_indices) = Len(col_names) /\ IsInjective(column_indices)
    /\ \A i \in DOMAIN rows : \A c \in DOMAIN column_indices :
          column_indices[c] \in DOMAIN rows[i]
    /\ \A i \in DOMAIN edits : edits[i].made \/ edits[i].values = <<>>
    /\ IsInjective(keys_)
    /\ key_column # 0 =>
          /\ Len(keys_) = Len(rows)
          /\ \E c \in DOMAIN column_indices : column_indices[c] = key_column

(* A column proxy that answers shows the column it was taken of, wherever   *)
(* that column is now.                                                      *)
ViewShowsItsColumn == Valid(view) => view.col \in DOMAIN col_names /\ col_names[view.col] = view.name

(* "Invalidate cached JSON column mapping after structural column changes": *)
(* to_json() makes a new one.                                               *)
JsonConverterMade == undefined # "null converter"
=============================================================================
