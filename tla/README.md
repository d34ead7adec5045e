# A verification project for the SQL processor and its B+ tree index

The repository is a small SQL processor in C.  It executes `INSERT` and
`SELECT` on tables that are stored as files of fixed-size rows, numbers the
rows automatically, and keeps an index from id to row offset in memory, as a
B+ tree.  This directory holds TLA+ models of all of its parts, TLC
configurations that check them, and theorems that TLAPS checks.

## 1. Inventory

| part | source | state it keeps | operations |
|---|---|---|---|
| B+ tree index | `bptree.c` | the nodes on the heap, `tree->root` | `bptree_init`, `bptree_insert`, `bptree_search`, `bptree_free` |
| row storage | `storage.c` | the data file of each table | `build_id_index_from_data`, `append_binary_row`, `execute_select`, `select_by_id_index`, `row_matches_where`, `write_value` |
| executor | `executor.c` | `g_context`: table, index, `record_count`, `is_loaded`, `last_execution_path` | `execute_statement`, `prepare_execution_context`, `ensure_execution_context`, `reset_execution_context` |
| driver | `main.c` | the line being read, the timing log | `run_sql`, `run_sql_file`, `run_repl`, the two preloads |
| schema metadata | `meta.c` | the schema file of each table | `load_table_meta`, `ensure_parent_directory` |
| lexer | `lexer.c` | the token array | `lex_sql`, `push_token`, `free_tokens` |
| parser | `parser.c` | the current token, the AST under construction | `parse_statement` and one function per construct |
| utilities | `util.c` | AST nodes | string helpers, `append_child`, `find_child`, `free_ast` |
| tests, tools | `tests/`, `tools/`, `src/test.c` | | unit tests of the tree, a generator of INSERT files, a scratch program |

How they interact.  `run_sql` hands a text to the lexer, the tokens to the
parser and the AST to `execute_statement`.  That loads the schema, compares it
with the table of the global context, and when they differ throws the context
away and reads the whole data file to build a new index.  An `INSERT` appends
a row with id `record_count + 1` to the file and then binds that id to the
offset `record_count * row_size` in the index.  A `SELECT` with `WHERE id = n`
asks the index and reads one row; every other one scans the file.  All calls
are synchronous.  The only state shared by two actors is the data file, when
two processes use it, and nothing locks it.

What is hard here, and what must be right:

* **B+ tree.**  Splits at several levels, the order of shifting, copying and
  linking, separators that move up, the spare array slot, a `malloc` that fails
  half-way, ownership of nodes.  Right: each id is found where it was put, all
  leaves are at one depth, nodes are filled, the leaf chain is the sorted order,
  each node is freed once.
* **Storage and executor.**  One logical step (append a row) is several system
  calls, each of which can fail or be the last one of the process; the index is
  a cache of the file that is never compared with it; offsets are computed, not
  measured.  Right: ids are 1, 2, ...; index and file agree; answers are those
  of the file; failures stay local.
* **Parser.**  Some thirty returns on errors, each of which must free exactly
  what the function and its callers hold; a tree that later code reads by
  position.  Right: nothing leaks, nothing is freed twice, the language is the
  documented one, the tree says what the text said.
* **Schema and row format.**  Sizes that are checked one by one and summed up
  in an `int`; columns that start where the one before ends; literals that are
  cut off, cast and stripped of quotes on their way into a row and again on their
  way into a comparison; a context that keeps the columns of a schema file that
  was edited.  Right: the schema files that describe a table are loaded and no
  others, values come back, a row is found by the literal it was inserted with, both paths of SELECT
  agree, and what leads beyond a buffer is known.
* **Lexer and driver.**  Two allocations per token, either of which can fail; an
  order of alternatives; a file read twice from its beginning, in pieces of a
  limited length; a log line cut at the limit of its buffer.  Right: the longest
  tokens from left to right, nothing leaks, every statement is run once and in
  order, a failure stops a file and not a prompt, and a run ends.

`PROJECT.json` lists every hazard at its line with the properties that cover
it.  Where a property takes a part of the hazard as the code has it, a note says so.

## 2. Modules

| module | content |
|---|---|
| `IdIndex` | abstract specification of the index: a partial map with insertions in two stages (called, bound) |
| `BPTree` | `bptree.c` in full, one action per piece of an activation between two calls |
| `BPTreeInv` | its invariants, its liveness property and the refinement mapping to `IdIndex` |
| `MCBPTree` | its small instances |
| `BPTreeShape` | what it is to be a search tree, by the route of every id, and what the steps of an insertion do to it; lemmas on sequences and induction |
| `BPTreeProofs` | the inductive invariant of `BPTree`; insertion and search keep it |
| `BPTreeTheorems` | `bptree_free` keeps it; the properties of `BPTreeInv` follow |
| `BPTreeRefinement` | the theorem that `BPTree` implements `IdIndex` |
| `TableStore` | `executor.c`, the file accesses of `storage.c` and the statement wrapper of `main.c`, for several processes |
| `TableStoreInv` | its properties |
| `MCTableStore` | its small instances |
| `TableStoreProofs` | theorems about one process without faults, several processes without faults, one process with faults, and the logged paths |
| `Parser` | `parser.c` with the AST functions of `util.c`: tokens, C locals and heap blocks |
| `ParserInv` | its properties, among them the grammar; its run uses it directly |
| `ParserProofs` | theorems about the parser: its trees, its memory, its failures, the grammar |
| `RowCodec` | the operators of `storage.c` on the bytes of a row: write, read, compare |
| `Schema` | `load_table_meta`, line by line (extends `RowCodec`) |
| `RowFormat` | statements on one table down to the bytes, with a schema file that is edited (extends `Schema`) |
| `RowFormatInv`, `MCRowFormat` | its properties, from the meaning of literals and schema files; its small instance |
| `RowFormatProofs` | theorems about schema, rows and SELECT; the lemmas on `RowCodec` they rest on |
| `Lexer` | `lex_sql`, `push_token`, `free_tokens` |
| `Session` | `main.c`: files, the prompt, preloads, the log (extends `Lexer`) |
| `Script` | abstract specification of a run: statements in order, stop or go on at a failure, an end |
| `SessionInv`, `MCSession` | properties of lexer and driver and the refinement of `Script`; their small instance |
| `SessionProofs` | theorems about lexer and driver |

### BPTree

`heap` maps the addresses in use to nodes; `root` is `tree->root`.  A node's C
arrays with `key_count` become sequences of the elements in use, so index `i`
of the code is `i + 1` in the model.  `insert_into_internal` and
`free_bptree_node` recurse; `path` is their C stack (a node and the child index
of each activation), `ret` the `BPTreeInsertResult` that was just returned, and
`status` stands for `status->message`, which the code itself uses as its error
flag.  `insert_into_leaf` is `LeafDuplicate`, `LeafInsert`, `LeafSplit`,
`LeafSplitFails`; what `insert_into_internal` does after its child has returned
is `PassUp`, `Link`, `LinkSplit`, `LinkSplitFails`; what `bptree_insert` does in
the end is `ReturnInserted`, `ReturnFailure`, `GrowRoot`, `GrowRootFails`.
Every `malloc` is either a fresh address or, `MaxFailures` times in all, a
failure.  A write past the end of a node's arrays leads to the state
`overrun`, after which nothing is modelled: the code's behaviour is undefined
there.  `Order` is `BPTREE_ORDER` (32 in the code, 4 in the run; the
code is uniform in it from 3 on).

The refinement mapping reads the index off the leaves in use, and the stage of
the insertion off `pc`.  The steps that move keys between nodes (splits, links,
a new root) are stutters of `IdIndex`; a failure may bind an id that is
reported as not inserted, or lose the ids from some key on, and nothing else.

### TableStore

A process executes one statement at a time; a step is the work between two
system calls.  `ctx[p]` is its `g_context`, `file[t]` the data file of a
table.  A row is two words (the id, the rest of the columns) and a file is a
sequence of words, so a write that is cut short leaves a file that is no longer
a whole number of rows.  The index inside the context is the partial map that
`IdIndex` promises, including what it may lose when memory runs out.
`Reload`, `BuildRow` and the other `Build...` actions are
`ensure_execution_context` with `build_id_index_from_data`, one row at a time;
`InsertOpen`, `InsertWrite`, `InsertBind` and their failures are
`append_binary_row`; `SelectById`, `ScanOpen`, `ScanRow`, `ScanEnd` are
`execute_select`.

`Fault` counts the calls of the system or of `malloc` that fail, and each place
where the code calls one has an action for its failure, with the effect the code
gives it: `MetaFails` (schema file), `BuildOpenFails` (a rebuild takes a file it
cannot open for one that does not exist, and goes on with an empty index),
`BuildError` (a read, or memory for the index), `InsertOpenFails`,
`InsertWriteFails`, `InsertWriteCut` (the unchecked `fclose`), `InsertNoMemory`
(the id is not bound, or bound and reported as failed, or the ids from some one on,
the new one with them or not, are lost with the right half of a root),
`SelectByIdFails`, `ScanOpenFails`, and `ScanError` (a read error ends a scan as
the end of the file does).  A failed `malloc` in the lexer or parser is
`RefuseText`.

`Restart` ends or kills a process at any step and starts a
new one.  Statements that the code refuses are kinds of their own
(`badInsert`: wrong number or type of values; `badSelect`: an unknown column in
the list; `badWhere`: an unknown column in WHERE, which is only met at the
first row), because they leave `last_execution_path` in different states.

WHERE is abstracted to `id = n` (the index path) and `id >= n` (the scan path);
`RowFormat` has the other comparisons.  Its statements are every list of columns
with every WHERE.

### RowCodec, Schema and RowFormat

These three show one table from the other side: no faults, one process, but
every byte.  `RowCodec` holds the functions of `storage.c` that see the bytes of a
row (`write_value`, `extract_char_value`, `print_column_value`,
`row_matches_where` and what they call) as operators.  The sizes of the machine
are constants: a byte has `Base` values, an int `IntBytes` bytes, a text buffer
`TempSize` elements, so that the casts, cuts and limits of the code are reached
with few values.  A number literal carries its value besides its text, since
`strtol` on digits is not in question; a string literal has its quotes, as the
lexer leaves them.

`Schema` reads a schema file with one step per line: a line is the number of
its parts and, of three, the name, type and size.  What a name buffer keeps of a
name is the function `KeptName`; letter case is abstracted away, since every
comparison of names ignores it.  `RowFormat` runs statements: `LoadSchema` and
then `Reuse`, `Rebuild` or `RebuildFails` are `ensure_execution_context`, then one
of the `Insert...` or `Select...` actions is the statement.  `Edit` replaces the
schema file between two statements, `Restart` ends the process.  Behaviour that C
leaves undefined (a write or read beyond the row buffer, more SELECT columns than
`selected_indexes` holds, an overflow of the sum of sizes) leads to the state
`undefined`, where the model stops.  A SELECT gets there only if the code really
reads the bytes: the columns of the list, WHERE and the rows decide, and an
unknown column or a table without rows ends it before (`ReadsBeyond`).  An INT column narrower than an int can read
the bytes behind its row, which no one has written since: `Behind` chooses them
freely.  `given`, a ghost, remembers the literals of the rows that the context has
appended, so that what is read back can be compared with them.

### Lexer, Session and Script

`Lexer` takes one step per token, as an iteration of `lex_sql` does, over an
alphabet in which each kind of character the lexer tells apart has one or two
members.  `blocks` counts the heap blocks of the token array and its texts; each
`push_token` allocates two or, once the array is there, resizes it and allocates
one, and either call can fail.

`Session` is `main.c`.  `Piece` is what `fgets` returns; `OpenFile`, `SkipBlank`,
`Begin`, `Rewind` are the two loops of `run_sql_file`, the first of which (with
`preload` set) only preloads one statement; `StartPrompt` and the same actions
with `mode = "repl"` are `run_repl`.  `LexFailed`, `ParseRefuses`, `Parse`,
`Execute` are the exits of `run_sql` and of `preload_sql_context`; whether a text
parses and whether a statement succeeds is chosen freely, because `Parser`,
`TableStore` and `RowFormat` say when.  `MakeDirectory`, `Log` and `LogFails` are
`append_query_timing_log` with `ensure_parent_directory`, which may fail at every
segment.  `LogText` builds the line in a buffer of `LogWidth` elements, zero byte
included.

`Script` says what a run promises, in three actions.  The refinement maps `ran`,
`exit` and the mode to it; the statements of the input are computed from its text
by `StatementsOfInput`, which does not share an operator with the loops.  It is
evaluated once per behaviour, in the ghost variable `statements` of the
specification `Observed`.

### Parser

One statement is parsed after another.  `pc` names the next step; no function
of `parser.c` calls itself, so a stack is not needed, and `own` holds the C
locals of all the functions.  `heap` has one block for each AST node together
with its text, and one for each copied name; addresses are never reused within
a statement, so a second `free` is seen.  A node's `child` and `next` are the C
pointers, and `Freed` follows both as `free_ast` does.  The operators `Expect`,
`Match`, `CopyIdentifier`, `ParseValue`, `Create` and `AppendChild` are the
helpers of the code (`expect`, `match`, `parse_identifier_text`,
`parse_value_node`, `create_ast_node`, `append_child`), and an action is one
call of one of them, with the set of locals that are freed if it fails: the
function's own and those of its callers, which the code frees one return after
the other.  A free or a link of a block that is not alive, and a look past EOF,
lead to `broken`.  The lexer's array is complete before the parser starts;
`NextToken` draws its next element only when the parser gets there, which gives
the same behaviours and far fewer states.  A text is the position of its token.
`NextStatement` is what `run_sql` does after the call; executing the tree is
`TableStore`'s subject.  Two messages the model keeps as the code leaves them:
an empty one when a name cannot be copied (`parser.c:69-71`), and a syntax error
when memory runs out in a bound of BETWEEN (`parser.c:118-122`).

## 3. Runs

| run | instance | what it shows |
|---|---|---|
| `BPTree` | order 4, ids 1..12, 3 to 6 first and in any order, the id 5 with two offsets, one failing `malloc` anywhere | `TypeOK` (shape of every node), `LeafChain`, `NodesOwnedOnce`, `Balanced`, `SearchTree`, `OverfullByFailure`, `CallsReturn`, refinement `IsIdIndex` |
| `TableStoreSingle` | one process, four tables (two usable, one without schema, one without id column), no fault | `TypeOK`, `DenseIds`, `IndexAgrees`, `SelectsRight`, `FailsOnlyWithoutFile`, `SuccessLogsItsPath`, `StatementsEnd` |
| `TableStoreShared` | two processes, one table, no fault | `IndexWithinFile`, `IdsWithoutGaps`, `AckedRowStored` |
| `TableStoreFaults` | one process, two tables, initial files with any ids, one failing system call or `malloc` anywhere in a statement | `FaultsStayInTable`, `ScanPrintsBeginning`, `IndexCoversFile`, `AckedOnlyIfDistinct` |
| `TableStoreRecordCount` | one process, one fault | `RecordCountIsRowCount` **violated**: a file that cannot be opened in the rebuild gives a loaded context that counts none of its rows |
| `TableStorePath` | one process, one table with a schema and one without, no fault | `LogsExecutedPath` **violated**: a statement on a table without a schema is logged with the path of the statement before it |
| `ParserTree` | arrays of up to 14 tokens, up to two failing `malloc`s in a statement | `TypeOK`, `BlocksFreedOnce`, `AcceptsGrammar`, `NoSilentFailure`, `TreeSpellsStatement`, `TreeServesExecutor` |
| `RowFormat` | ints of two bytes of six values, row buffers of eight bytes, texts cut after four, three columns, schema files of up to five lines, one edit, every list with every WHERE | `TypeOK`, `LoadsAsDescribed`, `RowsComeBack`, `InsertedIsFound`, `SelectsByMeaning`, `IndexAgreesWithScan`, `UndefinedNeedsCause` |
| `RowFormatWideId` | as `RowFormat` | `PrintsOnlyThatId` **violated**: `WHERE id =` a number beyond an int prints the row whose id the cast leaves |
| `RowFormatSchemaFile` | as `RowFormat` | `LoadsDocumentedFormat` **violated**: an INT column narrower than an int is accepted |
| `Session` | 1111 texts of up to three characters and some 120 scripts of up to three lines, in a file and at the prompt, pieces of up to seven characters, log lines of up to five, one failing allocation | `TypeOK`, `NoLeak`, `LexesByLongestMatch`, `LogTellsStatements`, refinement `IsScript` |
| `SessionLogCut` | as `Session` | `LogMarksCut` **violated**: a statement too long for the log is logged without dots when the cut falls behind spaces |

Why the bounds are enough.  With order 4 a leaf splits at its fourth key into two
equal halves and an internal node into two unequal ones (two keys and one, the
separator between them goes up), and twelve ids reach three levels, in which the
split of a leaf, of an internal node and of the root happen in one insertion.  Two
action constraints keep the run small.  `InsertsAscend`: the ids 3 to 6 come first, in
any order, so that a split leaves the new key in either half, then 1 and 2 below
them, which splits a leaf that has a next one, and then the others upwards, as
INSERT numbers its rows; only the id 5 comes again.  `SearchesLast`: no call begins
after a search, which changes nothing but the answer, so that whatever could follow it
follows the state before it as well.  One failure, at any `malloc` of any insertion,
and the insertions after it reach every failure exit and the overrun of a leaf and of
an internal node.  The run stops in `overrun` on purpose and does not check deadlock.

In `TableStore` three rows of a table suffice to tell a
first, a middle and a last row; `MaxWords` stops further INSERTs.  The initial
files are absent or hold one row; in `TableStoreFaults` they may also hold ids
that the counter meets at once, later or never.  Two tables show the alternation
of contexts, two processes the interleavings of two appends.

Fourteen tokens hold the longest statement without repetition (`SELECT *` with
a qualified table, `BETWEEN`, `;` and EOF), and shorter ones with lists of up to
five columns or four values; two failures are as many as one statement can
meet, since only two nodes are ever tried before the first is looked at.

In `RowFormat` the widths are scaled so that each limit has values on both
sides: an int ends at 17 and a long at 107, with literals 1, 37 (which the cast
makes 1) and 200 (beyond the long); texts end before, at and behind the size of a
column, the text buffer and the row buffer; there is a line whose size makes the
sum overflow, and one column more than `MaxColumns`.  Two rows of the smallest
table show that rows do not disturb each other.  In `Session` a line may be as
long as the buffer, longer, and cut twice; three lines are enough for a failure
before, at and behind another statement.  Both stop on purpose, in `undefined`
and when the program has exited, and do not check deadlock.

Fairness.  `BPTree!FairSpec` and `TableStore!FairSpec` assume weak fairness of
the steps of a call, resp. of each process while it executes a statement: the
code is sequential and blocks nowhere except in file system calls.  No fairness
is assumed of new calls or statements, nor of kills or failures.
`SessionInv!Observed` assumes weak fairness of the whole program, which is
sequential, and inputs that end.  The action constraints of `BPTree` keep
calls from beginning and never a step of a call, so they do not weaken
`CallsReturn`.  `StatementsEnd` is stated and checked of a single process: a build
or a scan ends because the file it reads does not grow.  With another process that
appends as fast as the scan reads, it need not end; `MaxWords` would hide that, so
nothing is claimed of it.

`Parser` has no fairness and no liveness property: a call consumes a token or
ends a construct at every step, and the deadlock check of its runs shows that
no step is without a successor.

Five properties are violated.  Each states what a comment or a document of the
repository says of the code, and its run has the shortest behaviour in which the
code does something else; `PROJECT.json` quotes the lines under `findings`.

| property | said at | what the code does |
|---|---|---|
| `RecordCountIsRowCount` | `sql_processor.h:232`, `storage.c:275`, `executor.c:104` | a file that cannot be opened is taken for an empty table, and ids start again from 1 |
| `LogsExecutedPath` | `main.c:85`, `sql_processor.h:234` | a statement on a table without a schema is logged with an earlier statement's path |
| `PrintsOnlyThatId` | `storage.c:545` | a number beyond an int finds the row whose id the cast leaves |
| `LoadsDocumentedFormat` | `sql_processor.h:140`, `AGENT.md:117`, `sudo/pseudocode.md:322` | an INT column of any positive size is accepted; an empty line behind the last possible column is not skipped |
| `LogMarksCut` | `main.c:21`, `main.c:43` | the dots are missing behind a cut that falls on spaces |

Two of them are violated in more ways than their run shows.  `RecordCountIsRowCount`
also fails when the index insertion of an INSERT finds no memory (`storage.c:393`: the
row stays in the file, uncounted) and when `fclose` loses the row (`storage.c:391`: it
is counted, acknowledged, and the next row takes its place, to which the index then
leads both ids).  `LoadsDocumentedFormat` also fails in the other direction
(`meta.c:140`): a file with `MAX_COLUMNS` columns and an empty line behind them is
refused.

The passing runs say what is left beside each: `OverfullByFailure`, `FaultsStayInTable`,
`SuccessLogsItsPath`, `ScanPrintsBeginning`, `SelectsByMeaning`, `LoadsAsDescribed`,
`RowsComeBack` (of tables whose ints have their width), `LogTellsStatements`.

What else the modelling brought up, and the passing runs state as it is:

* A split for which `malloc` fails leaves its key in the node, which then holds
  `BPTREE_ORDER` keys at rest, one more than `sql_processor.h:21` allows; the next
  insertion into it writes past its arrays (`bptree.c:144`, `bptree.c:216`,
  `OverfullByFailure`).
* A read error ends a scan as the end of the file does: the statement succeeds with
  the rows up to it (`storage.c:641`, `ScanPrintsBeginning`).
* A failed `malloc` for a new root loses the right half of the old one;
  `bptree_free` does not find it either (`bptree.c:294`, `IsIdIndex`).
* When a data file has the id `record_count + 1`, an INSERT appends its row
  and then fails; every later one does the same (`AckedOnlyIfDistinct`).
* An INT column narrower than an int is written over the next column, or past the
  buffer, and read with bytes that are not its own (`UndefinedNeedsCause`; the
  properties on values exclude such tables).
* A SELECT list of more names than `MAX_COLUMNS` writes past `selected_indexes`,
  and a sum of sizes can overflow before it is checked (`UndefinedNeedsCause`).
* A schema file edited to other columns of the same total size is not noticed by
  a loaded context.  No text says that it must be, so the properties take the
  columns of the context; what they would catch is a mixture of old and new ones
  (`RowsComeBack`, `SelectsByMeaning`).
* A line as long as the buffer is run as several statements, and a return
  character drops the rest of its line.  `StatementsOfInput` takes both as the
  code has them; `IsScript` checks what becomes of the pieces.

## 4. Proofs

The theorems hold for every value of the constants under the assumptions named
in the modules: `KeysAssumption`, `RequestsAssumption`, `NullAssumption`,
`OrderAssumption` (the order is at least 3) and `MaxFailuresAssumption` of
`BPTree`; `SchemasAssumption`, `PayloadsAssumption`, `FilesAssumption` and
`BoundsAssumption` of `TableStore`; `ParserBounds` of `Parser`; `MachineAssumption`
(a byte has an even number of values, the row buffer has room for an int) and
`LongAssumption` of `RowCodec`; `SchemaAssumption` of `Schema` (an int can hold the
size of the row buffer); `StatementAssumption` and `RowFormatAssumption` of `RowFormat`
(a file has no more rows than `record_count`, an int, can count); `LexerAssumption` and
`KindsAssumption` of `Lexer` (no character is of two kinds, and the keywords are words in
capitals), `SessionAssumption` (a buffer of `fgets` with room for a character, a log line
with room for four and the zero byte) and `TextAssumption` (texts are C strings, and the
line ends and the tab are spaces) of `Session`.  A theorem that needs more has it as a
hypothesis, named in the table.

| theorem | what holds | under |
|---|---|---|
| `TypeCorrect` (`BPTreeTheorems`) | `TypeOK` | |
| `SearchTreeAlways` | `SearchTree` | |
| `NodesAlwaysOwned` | `NodesOwnedOnce` | |
| `OverfullOnlyByFailure` | `OverfullByFailure` | |
| `BalancedWithoutFailure`, `LeafChainWithoutFailure` | `Balanced`, `LeafChain`, which speak of trees without a failure | |
| `TreeIsIdIndex` | the refinement `IsIdIndex` | |
| `TypeCorrect`, `LogsPathAlways` (`TableStoreProofs`) | `TypeOK`, `SuccessLogsItsPath` | |
| `SingleWriterDense`, `SingleWriterIndex`, `SingleWriterSelects`, `SingleWriterServes` | `DenseIds`, `IndexAgrees`, `SelectsRight`, `FailsOnlyWithoutFile` | `SingleWriterAssumption` |
| `SharedIndexWithinFile`, `SharedIdsWithoutGaps`, `SharedAckedRowStored` | `IndexWithinFile`, `IdsWithoutGaps`, `AckedRowStored` | `SharedAssumption` |
| `FaultsStayInOneTable`, `IndexAlwaysCoversFile`, `AcknowledgedOnlyIfDistinct` | `FaultsStayInTable`, `IndexCoversFile`, `AckedOnlyIfDistinct` | `SingleAssumption` |
| `ParserTypes`, `ParserFreesOnce`, `ParserHidesNoFailure` (`ParserProofs`) | `TypeOK`, `BlocksFreedOnce`, `NoSilentFailure` | |
| `ParserAcceptsGrammar` | `AcceptsGrammar` | |
| `RowFormatTypes`, `RowFormatLoadsAsDescribed`, `RowFormatUndefinedNeedsCause` (`RowFormatProofs`) | `TypeOK`, `LoadsAsDescribed`, `UndefinedNeedsCause` | |
| `RowFormatRowsComeBack`, `RowFormatInsertedIsFound` | `RowsComeBack`, `InsertedIsFound` | |
| `RowFormatIndexAgrees`, `RowFormatSelectsByMeaning` | `IndexAgreesWithScan`, `SelectsByMeaning` | |
| `ParserInvariant`, `RowFormatInvariant` | the inductive invariants `IInv` of the two modules, from which these follow | |
| `TypeCorrect`, `NothingLeaks`, `LogTellsAlways` (`SessionProofs`) | `TypeOK`, `NoLeak`, `LogTellsStatements` | |
| `LexesAlways` | `LexesByLongestMatch` | |

`SingleWriterAssumption`: at most one process, no fault, initial files numbered
1, 2, ...  `SharedAssumption`: any number of processes, no fault, initial files in
which ids may repeat but none is skipped.  `SingleAssumption`: at most one process,
any number of faults, initial files that are `Numbered`.  All three allow any
number of tables, ids, payloads and rows.  They are needed: `TableStoreRecordCount`
shows what a fault does to a context, and `TableStoreFaults` and `TableStoreShared`
say what is left of the numbering after a fault and beside a second process.

### The tree

The properties of `BPTreeInv` speak of the nodes that are reached from the root.
Reachability is a least fixed point, and nothing about one can be proved by
induction over the depth of a tree with the provers at hand.  The invariant
therefore describes the tree from the ids: `at[d][k]` is the node on the route of
the id `k`, `d` levels below the root.  `Whole` says that `at[0]` is the root
everywhere and that `at[d + 1][k]` is the child to which `at[d][k]` sends `k`;
`Skeleton` that the nodes of the bottom level are the leaves, that a node is on one
level only, and that every node's keys are on their own route.  The ids on whose
route a node is are its region.  `Parted` is the same tree with a right half in
flight: the level at which the split happened sends the ids from the promoted key
on to a node that no one refers to yet.  `Inv` says that there are such a height
and such routes whenever there is a tree, together with the control state of the
call, and what each failure may have spoiled.  Every step of an insertion gives
its next routes explicitly (a leaf split at level `h` changes `at[h]` for the ids
from the promoted key on; a link makes `Whole` of `Parted`; a new root shifts all
levels by one), and the lemmas of `BPTreeShape` show that they are the routes of
the new heap.  For `bptree_free` the invariant (`FreeState`) keeps the heap as it was
when the call began: the C stack holds the route of one id, and a node has been
freed exactly when a node of the stack has gone past it.

`Inv` quantifies over functions on all integers, which TLC cannot evaluate; TLC
checks the properties that follow from it.  `failures = 0` stands in
`Balanced` and `LeafChain` because a failed split leaves overfull nodes and
a lost right half leaves the chain.

`BPTreeTheorems` goes back from routes to reachability: `Live` is included in every
set that contains the root and with a node its children, so in the set of the
nodes on routes; and each level of routes is live, by induction over the levels with
`LeastNatural`, which is stated of sets and derived in `BPTreeShape` from the
well-foundedness of finite subsets in the library.  In the same way the leaves are
shown to be at one depth and the chain to meet them in order.

`BPTreeRefinement` compares the map before and after a step through the relation
`Binding` (a leaf in use has the pair) and shows that a split, a link and a new
root leave it, that an insertion into a leaf adds the one pair, and that a root
that is lost takes with it the ids from the promoted key on.  `RefInv` adds to
`Inv` that an insertion on its way back from a duplicate has its id in the map.

### The store

* One process without faults.  `DenseIds` and `IndexAgrees` are not inductive.
  `WriterInv` adds what is true in between: while the index is being built it
  has exactly the rows before the position that is read (`pos = 2 * count`), every
  index entry is `2 * (k - 1)`, and between the write and the binding the file is
  one row ahead.  The id the file yields next is then always `count + 1`, so a
  rebuild never meets a duplicate and an INSERT always binds a free id.
  `AnswerInv` adds the answers: a scan has printed the rows before its position
  that match, and an answer that was given stays that of the file until the next
  statement begins.  `SelectsRight` says where each matching row stands among the
  printed ones, by counting the matching rows up to it.
* Several processes.  `SharedInv` rests on the files only growing (`Grown`): a
  context may have seen any prefix of its file, but a row it has seen stays.  A
  process at "bind" holds the row it has just written, wherever others have
  appended behind it.
* Faults.  `FaultInv` bounds the set `Suspects` of the tables whose file and
  contexts may disagree: its cardinality is at most the number of faults, and a
  step with a fault adds at most the table of the statement.  The other tables
  are `Sound`: their file is numbered and what a context says of it is so.  TLC
  checked this invariant with two faults before it was proved.
* The logged path.  `PathInv` says in which states of a statement the context
  already has its path, for any number of processes and faults; a statement that
  reaches its success has gone through one of them.

### The parser

`BlocksFreedOnce` and `NoSilentFailure` speak of what is left after a statement; `IInv`
says at each of the parser's steps who is responsible for which block.  Its parts:

* `Scanned`: the position among the tokens.  EOF has not been consumed while a
  construct is open, so no step looks past it.
* `Memory`: the types and addresses of blocks and locals.
* `Owned`: the heap is a forest, with one tree for each local that the step at `pc` may
  still free or hand over (`Owns`), and all blocks are in it.  A local that is not set
  yet is `NULL`, and one that has been tested is not.  A forest has a root for each
  block, a rank that falls along `child` and `next`, and at most one pointer to each block
  and none to a root: so there is no cycle, no block in two trees or twice in one, and a
  tree that is freed takes no other one's blocks with it.
* `Losses`: an allocation has failed only if one of the locals that the code has not
  tested yet is `NULL`.

A step gives out, links and frees blocks; a lemma for each of `Create`, `AppendChild`,
`CopyIdentifier`, `ParseValue` and the exits on errors says how the forest changes, and
the proof has one step per action that names the locals before and after.  `Freed` and
`LastSibling` follow pointers and so have no end that can be read off their definition:
that the function they choose exists is shown with the least set closed under `child` and
`next`, and what it yields with an induction over the rank.  TLC checked the parts of `IInv`
on the run before they were proved.

`AcceptsGrammar` compares the steps with a grammar that is stated as a set.  The set is
taken apart by what the next token is: `Rest(pc, first)` has the token arrays that may
still follow at a step (after which the statement ends, a list goes on, or a condition
begins), and a lemma for each (`ReadsValues`, `ReadsWhere`, ...) says which token may come
and what may follow it then.  Two more invariants use it.

* `Parsed`: as long as no allocation failed, the tokens seen so far followed by any array
  are a sentence exactly if that array, from the token the parser looks at, is in `Rest` at
  its step.  After the last step nothing may follow, and after a failure `Rest` is empty:
  no sentence begins with the tokens seen.
* `Blamed`: a local that the code has not tested yet is `NULL` only if an allocation
  failed; otherwise a failure could be one that no token explains.

`Rest` has lists of any length, while `Sentences` lists them up to the longest
that fits an array: `SentencesStart` shows that the two agree on arrays of up to
`MaxTokens` tokens.  `ListsOf` is a recursive function, so it is shown first that a function
that satisfies its equation exists and then that it has the lists of `n` items at `n`.

### The row format

`RowsComeBack` compares bytes in the file with literals of earlier statements; an INSERT,
an edit of the schema file and a rebuild of the context happen in between.  `IInv` has
these parts:

* `LoadInv`: the lines read so far, without the empty ones, describe the columns, and
  `offset` is the sum of their sizes.  When the loader returns, "the lines read so far" are
  the whole file, and what it accepted is `Loadable`: `Readable`, with no empty line
  behind the last possible column.
* `TableInv`: the columns of a loaded context tile its row: each starts where the one
  before ends and the last one ends at the row size, which the buffer holds.
* `StoreInv`: while the file is a whole number of rows, the index has the ids of the
  counted rows at their offsets, and the last rows are those of `given`.  This is not
  inductive as it stands.  The code stops a rebuild at the first id that is there
  already, so what had to be added is that when rows are left behind the count, the id the
  counter yields next has been met, and an INSERT then fails and counts nothing.
* `CauseInv` and `SelectsByMeaning`: why the state is undefined, and that the answer of the
  last SELECT is the one that is meant.

The lemmas are about the bytes.  An int that is split into bytes and put together again
is the int that `strtol` and the cast leave (`Power`, `SumTo`, the digits of a number, by
induction over the bytes); a text comes back up to its first zero byte and up to the
sizes of the column and of the buffer; a column that is written leaves the others alone
(`NewRow`, by induction over the columns), unless an INT column is narrower than an int,
which is why the properties on values exclude such tables.  A comparison of
`row_matches_where` is then the comparison that is meant (`WhereMeans`), for each row.  A scan
keeps the rows that match, in order (`KeptMap`); the index path keeps one at most
(`KeptSingle`).  The induction for these recursive functions is `LeastNatural` again, stated of
sets: the function is shown to exist, and then to be what it should be, as the absence of a
least number at which it is not.

TLC checked the five parts of `IInv` on the instance of `RowFormat` before they were proved.

### The lexer and the driver

* Memory.  `LexerInv` gives the number of blocks as a function of the array and
  its tokens (`1 + Len(tokens)`, or 0 without an array) and says that a lexer that
  has failed has no array.  `FlowInv` ties it to the driver: there is something in
  the lexer only while a statement is lexed or executed, and an AST only while it
  is executed.  So nothing is left between statements, wherever `malloc` fails.
* Buffers.  A position in the text never passes its end because each `Span` does
  not, and what is cut and trimmed from a piece is no longer than the piece.  That
  the loops behind `FirstOf`, `Span` and the two trims end where they should is
  shown with `LeastNatural`, as for the tree.
* The tokens.  `TokensInv` says that the tokens so far, followed by the reference for
  the rest of the text, are the reference for the whole text.  The first character
  of a token, or the first two, decides what the token can be (`FirstDecides`, which is
  where `KindsAssumption` is needed).  Each alternative of `lex_sql` therefore takes the
  longest token at its position (`SingleIsLongest` ... `WordIsLongest`), and where it
  refuses there is none (`BadCharacterIsNone`).  The reference is a function by recursion from the end of the text, which is
  shown to be what it is defined to be by `LeastNatural`.
* The log.  `LogInv` adds that the statement in the lexer is the last one that
  was run while it is logged, that earlier lines tell of earlier statements, and
  that a statement does not end in a space.  The last is what makes a short
  statement come out of the buffer whole: `format_sql_for_log` would drop blanks at
  its end.  For a longer one two cases decide, whether what is left before the
  blanks at the cut reaches the dots (`LongIsCut`): if not, the line is that
  beginning without dots.

TLC checked all four invariants on the instance of the run before they were proved.

### What is only model-checked

Liveness (`CallsReturn`, `StatementsEnd`) and `IsScript`, which includes it:
fairness is out of the prover's reach.

`TreeSpellsStatement` and `TreeServesExecutor` of the parser: they compare a tree with a
whole statement, for which the invariant would have to say of each local at each step what
its tree looks like and which texts it has.  The run's token arrays have every
construct and every kind of token in every place, and these properties do not depend on how
long a list gets.

## 5. Not modelled, and the plan

Left out: the text of messages, the layout of printed rows and of the log line
around the statement, clock readings, usage messages, the code for Windows, the
unit tests, the generator of INSERT files and the scratch program `src/test.c`.
Abstracted: the parts of a schema line come already split and trimmed; table and
schema names are whole (`parse_table_argument` and `load_table_meta` cut them at
their buffers); `Session` does not know why a statement fails; `RowFormat` has
neither faults nor a second process, and `TableStore` has no columns, so what a
short write does to the values of a row is not said.

What is left is proof: `TreeServesExecutor` and `TreeSpellsStatement`, with the shape of
each local's tree and the part of the statement that it spells added to `Owned`.
