--------------------------- MODULE ChaincodeTables ---------------------------
(***************************************************************************)
(* Tables and range queries as a chaincode uses them during one            *)
(* transaction: the table functions of the stub                            *)
(* (core/chaincode/shim/chaincode.go), the range queries of the shim's     *)
(* handler (shim/handler.go), and the iterators the validator keeps for    *)
(* the transaction (core/chaincode/handler.go).                            *)
(*                                                                         *)
(* A table is a state entry under the encoded name of the table, a row one *)
(* under the name followed by the encoded key columns.  A string is a      *)
(* sequence of characters, a character a number: the digits are 0 .. 9,    *)
(* the colon is 10, letters are greater.  Strings are shorter than 10, so  *)
(* that a length is one digit.  State requests of a transaction exclude    *)
(* each other: one that finds another under way fails (createChannel).     *)
(***************************************************************************)
EXTENDS Integers, Sequences, FiniteSets

CONSTANTS
  TableNames,   \* strings
  TableDefs,    \* column definitions: sequences of [type, key]
  TableRows,    \* rows: sequences of columns [type, val]
  TablePage,    \* maxRangeQueryStateLimit: key-values in one response
  MaxTableRows  \* bound: rows in the state

VARIABLES
  tabState,   \* the chaincode's state: key string -> definition or row
  tabIters,   \* validator: rangeQueryIteratorMap, id -> the entries to come
  tabMain,    \* the function of the chaincode: what it is in the middle of
  tabReader,  \* the goroutine GetRows started, and what it has sent
  tabAsking,  \* the goroutine's request is under way (the uuid's channel)
  tabSpec     \* ghost: the tables, name -> [def, rows]

tabVars == <<tabState, tabIters, tabMain, tabReader, tabAsking, tabSpec>>

-----------------------------------------------------------------------------
(* Keys.                                                                   *)

\* Leaves the length out.
PrefixedNot(s) == s

\* Length and content: getTableNameKey, and a column in buildKeyString.
Prefixed(s) == <<Len(s)>> \o s

\* A uint32 column is formatted with GetInt32, which is 0 for it.
columnString(c) == IF c.type = "uint32" THEN <<0>> ELSE c.val

getTableNameKey(t) == Prefixed(t)

RECURSIVE ColumnsString(_)
ColumnsString(cols) ==
  IF cols = <<>> THEN <<>>
  ELSE Prefixed(columnString(Head(cols))) \o ColumnsString(Tail(cols))

buildKeyString(t, cols) == getTableNameKey(t) \o ColumnsString(cols)

StringBefore(a, b) ==
  \/ Len(a) < Len(b) /\ SubSeq(b, 1, Len(a)) = a
  \/ \E i \in DOMAIN a \cap DOMAIN b :
       a[i] < b[i] /\ SubSeq(a, 1, i - 1) = SubSeq(b, 1, i - 1)

\* The key columns of a row, and whether its columns are those of the table.
keyColumns(def, row) ==
  LET keys == {i \in DOMAIN def : def[i].key}
      nth(n) == CHOOSE i \in keys : Cardinality({j \in keys : j < i}) = n - 1
  IN  [n \in 1 .. Cardinality(keys) |-> row[nth(n)]]

getKeyAndVerifyRow(def, row) ==
  Len(row) = Len(def) /\ \A i \in DOMAIN row : row[i].type = def[i].type

\* The checks of CreateTable on the column definitions.
ValidColumns(def) == def # <<>> /\ \E i \in DOMAIN def : def[i].key

isTable(t) == getTableNameKey(t) \in DOMAIN tabState

tableDef(t) == tabState[getTableNameKey(t)]

-----------------------------------------------------------------------------
(* Range queries.                                                          *)

\* The entries from key string k followed by "1" up to k followed by ":".
\* The state is scanned when the iterator is made.
RangeEntries(k) ==
  LET from == Append(k, 1)  to == Append(k, 10)
      keys == {x \in DOMAIN tabState : /\ x = from \/ StringBefore(from, x)
                                       /\ x = to \/ StringBefore(x, to)}
      nth(n) == CHOOSE x \in keys : Cardinality({y \in keys : StringBefore(y, x)}) = n - 1
  IN  [n \in 1 .. Cardinality(keys) |-> [key |-> nth(n), row |-> tabState[nth(n)]]]

PageOf(entries) == SubSeq(entries, 1, IF Len(entries) < TablePage THEN Len(entries) ELSE TablePage)

RestOf(entries) == SubSeq(entries, TablePage + 1, Len(entries))

\* The response to RANGE_QUERY_STATE and to RANGE_QUERY_STATE_NEXT: the
\* iterator is dropped with the last entry.
PageResponse(id, entries) ==
  [id |-> id, page |-> PageOf(entries), more |-> RestOf(entries) # <<>>]

ItersAfterPage(id, entries) ==
  IF RestOf(entries) # <<>>
  THEN [i \in DOMAIN tabIters \cup {id} |-> IF i = id THEN RestOf(entries) ELSE tabIters[i]]
  ELSE [i \in DOMAIN tabIters \ {id} |-> tabIters[i]]

\* RANGE_QUERY_STATE_CLOSE.
ItersAfterClose(id) == [i \in DOMAIN tabIters \ {id} |-> tabIters[i]]

HasNext(iter) == iter.page # <<>> \/ iter.more

-----------------------------------------------------------------------------
(* The functions of the stub.                                              *)

NoIter == [id |-> 0, page |-> <<>>, more |-> FALSE]

Running == [at |-> "run", name |-> <<>>, def |-> <<>>, iter |-> NoIter]

NoReader == [at |-> "none", iter |-> NoIter, cols |-> <<>>, want |-> {}, sent |-> <<>>]

TablesInit ==
  /\ tabState = <<>> /\ tabIters = <<>> /\ tabAsking = FALSE /\ tabSpec = <<>>
  /\ tabMain = Running /\ tabReader = NoReader

Put(k, v) == tabState' = [x \in DOMAIN tabState \cup {k} |-> IF x = k THEN v ELSE tabState[x]]

Del(k) == tabState' = [x \in DOMAIN tabState \ {k} |-> tabState[x]]

\* The function can go on: the goroutine has not ended the process.
MainAt(where) == tabMain.at = where /\ tabReader.at # "panic"

putTable(t, def) ==
  LET rows == IF t \in DOMAIN tabSpec THEN tabSpec[t].rows ELSE <<>> IN
  /\ Put(getTableNameKey(t), def)
  /\ tabSpec' = [x \in DOMAIN tabSpec \cup {t} |->
                   IF x = t THEN [def |-> def, rows |-> rows] ELSE tabSpec[x]]

\* CreateTable.  getTable takes a failed GetState for a table not found.
CreateTable(t, def) ==
  /\ MainAt("run") /\ ValidColumns(def)
  /\ IF tabAsking
     THEN /\ tabMain' = [Running EXCEPT !.at = "put", !.name = t, !.def = def]
          /\ UNCHANGED <<tabState, tabSpec>>
     ELSE ~isTable(t) /\ putTable(t, def) /\ UNCHANGED tabMain
  /\ UNCHANGED <<tabIters, tabReader, tabAsking>>

\* PutState of a CreateTable that could not read the table.
PutTableLate ==
  /\ MainAt("put") /\ tabMain' = Running
  /\ IF tabAsking THEN UNCHANGED <<tabState, tabSpec>> ELSE putTable(tabMain.name, tabMain.def)
  /\ UNCHANGED <<tabIters, tabReader, tabAsking>>

\* InsertRow and ReplaceRow.
insertRowInternal(t, row, update) ==
  LET cols == keyColumns(tableDef(t), row)
      key  == buildKeyString(t, cols)
      rows == tabSpec[t].rows
  IN  /\ MainAt("run") /\ ~tabAsking
      /\ isTable(t) /\ getKeyAndVerifyRow(tableDef(t), row)
      /\ (key \in DOMAIN tabState) = update
      /\ Cardinality(DOMAIN tabState \cup {key}) <= MaxTableRows + Cardinality(TableNames)
      /\ Put(key, row)
      /\ tabSpec' = [tabSpec EXCEPT ![t].rows =
                       [x \in DOMAIN rows \cup {cols} |-> IF x = cols THEN row ELSE rows[x]]]
      /\ UNCHANGED <<tabIters, tabMain, tabReader, tabAsking>>

\* The tables without the row of a key.
WithoutRow(t, key) ==
  [x \in DOMAIN tabSpec |-> IF x # t THEN tabSpec[x] ELSE
     [tabSpec[x] EXCEPT !.rows =
        [c \in {y \in DOMAIN @ : buildKeyString(t, y) # key} |-> @[c]]]]

DeleteRow(t, cols) ==
  /\ MainAt("run") /\ ~tabAsking
  /\ Del(buildKeyString(t, cols)) /\ tabSpec' = WithoutRow(t, buildKeyString(t, cols))
  /\ UNCHANGED <<tabIters, tabMain, tabReader, tabAsking>>

\* DeleteTable: the range query.
DeleteTable(t) ==
  LET entries == RangeEntries(getTableNameKey(t)) IN
  /\ MainAt("run") /\ ~tabAsking
  /\ tabIters' = ItersAfterPage(1, entries)
  /\ tabMain' = [Running EXCEPT !.at = "delete", !.name = t, !.iter = PageResponse(1, entries)]
  /\ UNCHANGED <<tabState, tabReader, tabAsking, tabSpec>>

\* The loop of DeleteTable; a request that fails ends it.
DeleteEntry ==
  LET it == tabMain.iter  key == Head(it.page).key IN
  /\ MainAt("delete") /\ HasNext(it)
  /\ CASE tabAsking ->
            /\ tabMain' = [tabMain EXCEPT !.at = "close"]
            /\ UNCHANGED <<tabState, tabSpec, tabIters>>
       [] ~tabAsking /\ it.page # <<>> ->
            /\ Del(key) /\ tabSpec' = WithoutRow(tabMain.name, key)
            /\ tabMain' = [tabMain EXCEPT !.iter.page = Tail(@)] /\ UNCHANGED tabIters
       [] ~tabAsking /\ it.page = <<>> ->
            /\ tabMain' = [tabMain EXCEPT !.iter = PageResponse(1, tabIters[1])]
            /\ tabIters' = ItersAfterPage(1, tabIters[1]) /\ UNCHANGED <<tabState, tabSpec>>
  /\ UNCHANGED <<tabReader, tabAsking>>

\* The end of DeleteTable: the definition goes last.
DeleteDefinition ==
  LET t == tabMain.name IN
  /\ MainAt("delete") /\ ~HasNext(tabMain.iter)
  /\ IF tabAsking THEN UNCHANGED <<tabState, tabSpec>>
     ELSE /\ Del(getTableNameKey(t))
          /\ tabSpec' = [x \in DOMAIN tabSpec \ {t} |-> tabSpec[x]]
  /\ tabMain' = [tabMain EXCEPT !.at = "close"]
  /\ UNCHANGED <<tabIters, tabReader, tabAsking>>

\* The deferred Close of DeleteTable and of GetRows; its error is ignored.
CloseIterator ==
  /\ MainAt("close") /\ tabMain' = Running
  /\ tabIters' = IF tabAsking THEN tabIters ELSE ItersAfterClose(tabMain.iter.id)
  /\ UNCHANGED <<tabState, tabReader, tabAsking, tabSpec>>

\* The rows a partial key stands for, as far as a scan can see them: the next
\* key column of the row is not the empty string.
MatchingRows(t, cols) ==
  LET rows == tabSpec[t].rows IN
  IF t \notin DOMAIN tabSpec THEN {} ELSE
  {rows[c] : c \in {x \in DOMAIN rows : /\ Len(x) > Len(cols)
                                        /\ SubSeq(x, 1, Len(cols)) = cols
                                        /\ columnString(x[Len(cols) + 1]) # <<>>}}

\* GetRows starts the goroutine and closes the iterator as it returns.
GetRows(t, cols) ==
  LET entries == RangeEntries(buildKeyString(t, cols))
      iter    == PageResponse(2, entries)
  IN  /\ MainAt("run") /\ ~tabAsking /\ tabReader.at \in {"none", "closed"}
      /\ tabIters' = ItersAfterPage(2, entries)
      /\ tabReader' = [at |-> "send", iter |-> iter, cols |-> cols,
                       want |-> MatchingRows(t, cols), sent |-> <<>>]
      /\ tabMain' = [Running EXCEPT !.at = "close", !.iter = iter]
      /\ UNCHANGED <<tabState, tabAsking, tabSpec>>

\* The goroutine hands a row to the function, which reads the channel.
SendRow ==
  /\ tabReader.at = "send" /\ tabReader.iter.page # <<>> /\ MainAt("run")
  /\ tabReader' = [tabReader EXCEPT !.sent = Append(@, Head(tabReader.iter.page).row),
                                    !.iter.page = Tail(@)]
  /\ UNCHANGED <<tabState, tabIters, tabMain, tabAsking, tabSpec>>

\* It asks for the next page ...
AskNextPage ==
  /\ tabReader.at = "send" /\ tabReader.iter.page = <<>> /\ tabReader.iter.more
  /\ tabReader' = [tabReader EXCEPT !.at = "ask"] /\ tabAsking' = TRUE
  /\ UNCHANGED <<tabState, tabIters, tabMain, tabSpec>>

\* ... and on an error closes the channel and sends on it, which panics.
NextPageAnswered ==
  /\ tabReader.at = "ask" /\ tabAsking' = FALSE
  /\ IF 2 \in DOMAIN tabIters
     THEN /\ tabReader' = [tabReader EXCEPT !.at = "send", !.iter = PageResponse(2, tabIters[2])]
          /\ tabIters' = ItersAfterPage(2, tabIters[2])
     ELSE tabReader' = [tabReader EXCEPT !.at = "panic"] /\ UNCHANGED tabIters
  /\ UNCHANGED <<tabState, tabMain, tabSpec>>

CloseRows ==
  /\ tabReader.at = "send" /\ ~HasNext(tabReader.iter)
  /\ tabReader' = [tabReader EXCEPT !.at = "closed"]
  /\ UNCHANGED <<tabState, tabIters, tabMain, tabAsking, tabSpec>>

\* The keys the rows have in the tables, and what may come before a column.
TableKeys == {keyColumns(d, r) : <<d, r>> \in
                {x \in TableDefs \X TableRows : getKeyAndVerifyRow(x[1], x[2])}}

PartialKeys == UNION {{SubSeq(c, 1, n) : n \in 0 .. (Len(c) - 1)} : c \in TableKeys}

TablesNext ==
  \/ \E t \in TableNames, d \in TableDefs : CreateTable(t, d)
  \/ PutTableLate
  \/ \E t \in TableNames, r \in TableRows, u \in BOOLEAN : insertRowInternal(t, r, u)
  \/ \E t \in TableNames, c \in TableKeys : DeleteRow(t, c)
  \/ \E t \in TableNames : DeleteTable(t)
  \/ DeleteEntry
  \/ DeleteDefinition
  \/ CloseIterator
  \/ \E t \in TableNames, c \in PartialKeys : GetRows(t, c)
  \/ SendRow
  \/ AskNextPage
  \/ NextPageAnswered
  \/ CloseRows

TablesSpec == TablesInit /\ [][TablesNext]_tabVars

-----------------------------------------------------------------------------
TablesTypeOK ==
  /\ DOMAIN tabIters \subseteq {1, 2} /\ tabAsking \in BOOLEAN
  /\ tabMain.at \in {"run", "put", "delete", "close"}
  /\ tabReader.at \in {"none", "send", "ask", "closed", "panic"}
  /\ DOMAIN tabSpec \subseteq TableNames
  /\ tabAsking <=> tabReader.at = "ask"

\* A key column whose encoding tells its values apart, and is found by a scan.
Plain(c) == c.type # "uint32" /\ c.val # <<>>

\* Tables keep their rows apart: whatever tables were created, dropped, created
\* again and scanned meanwhile, a key reads back the row last stored for it in
\* that table, and the keys of a table that was dropped read nothing.  It needs
\* key columns that are not empty strings (the scan of DeleteTable starts
\* behind those) and not uint32 (all of them are formatted as 0).
RowsAreTheTables ==
  \A t \in TableNames, c \in {x \in TableKeys : \A i \in DOMAIN x : Plain(x[i])} :
    LET key == buildKeyString(t, c) IN
    IF t \in DOMAIN tabSpec /\ c \in DOMAIN tabSpec[t].rows
    THEN key \in DOMAIN tabState /\ tabState[key] = tabSpec[t].rows[c]
    ELSE key \notin DOMAIN tabState

\* The channel of GetRows carries every row of the partial key as of the call,
\* once, whatever the function does to the table while it reads; it may only
\* fail to (the process panics) when the rows exceed one page: by then the
\* deferred Close has taken the iterator away.  Of uint32 columns, and of rows
\* with an empty first column that DeleteTable left behind, it says nothing.
RowsDelivered ==
  LET n == Len(tabReader.sent)
      plain == /\ \A i \in DOMAIN tabReader.cols : Plain(tabReader.cols[i])
               /\ \A r \in tabReader.want : \A i \in DOMAIN r : r[i].type # "uint32"
  IN  plain =>
        /\ Cardinality({tabReader.sent[i] : i \in 1 .. n}) = n
        /\ \A i \in 1 .. n : tabReader.sent[i] \in tabReader.want
        /\ tabReader.at = "closed" => n = Cardinality(tabReader.want)
        /\ tabReader.at = "panic" => Cardinality(tabReader.want) > TablePage
=============================================================================
