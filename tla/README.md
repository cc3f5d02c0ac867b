# Verification of surrealdb-gorm

TLA+ models of the SurrealDB driver for GORM, model-checked with TLC on small
instances, with theorems checked by TLAPS for every instance. Source references
are to the repository's files.

## The system

The driver is a library: `gorm.Open(surrealdb.Open(dsn))` makes a `Dialector`
that owns one WebSocket connection (`Conn`), and GORM calls the driver's
callbacks for each operation of each session.

| component | state it keeps | operations | interacts through |
|---|---|---|---|
| transactions and routing (`transaction.go`, `executor.go`, `dialector.go` BeginTx, `batch.go`, `driver.go`) | a `SurrealTx` per open transaction: SDK handle and context; the session's `Statement.ConnPool` | BeginTx, Commit, Rollback, ExecContext, every callback's choice of connection, `Transaction`, `Relate`, `CreateMany` | the one shared connection; the handle GORM passes down |
| record lifecycle (`callback_create.go`, `callback_update.go`, `callback_delete.go`) | none but the store | Create, Save/Updates, Delete, soft delete | connection of the statement |
| edge associations (`callback_update.go`, `callback_delete.go`, `callback_preload.go`, `callback_edge.go`) | the slices of the application's structs; edges on the server | Association Append, Replace, Clear, Delete; relations of a Save; Preload | GORM's association code calls UpdateCallback and DeleteCallback |
| edge table registry (`dialector.go`) | `edgeTables sync.Map`, alias to canonical name | RegisterEdgeTable, FindEdgeTable | AutoMigrate registers, every callback looks up |
| query rewriting (`executor.go`, `callback_query.go`, `callback_preload.go`) | none | executeSQL, QueryCallback, preload as FETCH | text of the statement |
| migration (`migrator.go`, `alter.go`, `define.go`, `event.go`, `analyzer.go`) | the server's schema | AutoMigrate, CreateTable, RenameField | several queries, several processes |
| connection (`connection.go`, `dialector.go` Initialize) | `Conn`; what rews recorded of token and USE | dial, sign in, define, use; reconnection by rews | every other component |
| live queries (`live.go`) | notification channel, query id | Live, Kill | SDK notifications |
| database/sql bridge (`sqldriver.go`) | a row cursor, and the buffer database/sql keeps | Query, Columns, Next | one result set; `toDriverValue` |
| raw transaction builder (`transaction.go` Tx) | statements, parameters | Exec, Transaction | one query on the shared connection |
| links and numbers (`types/link.go`, `types/record.go`, `types/numbers.go`) | the RecordID a link points to | UnmarshalJSON, Scan, MarshalCBOR; ToInt64, ToUint64 | structs of the application that share a RecordID |
| other types, files, errors | none | conversions, one query per file operation | |

GORM, the SurrealDB Go SDK and the server are not in the repository; what the
models say of them is marked external in `PROJECT.json` and is what the code
relies on. `dialector.go:135` sets `SkipDefaultTransaction`, so a statement
outside `db.Transaction` is one transaction of its own on the server; a
`db.Transaction` inside another one needs savepoints, which the dialector does
not offer, and fails before its closure runs, so transactions do not nest.

### What is hard

* Goroutines share one connection, and each of some twenty places decides on its
  own which connection a statement goes to.
* A callback that makes several calls can fail after any of them.
* The connection can be lost and dialled again under an open transaction; a
  context can expire between a request and its reply, and rolling back uses the
  same context.
* The closure given to `db.Transaction` can end the transaction itself.
* Registry, schema, edges and renamed fields are changed in several steps while
  others read them, and several processes migrate at once.
* Structs outlive the records they were read from, and a Save is two requests.
* A save sends every relation of a slice again, and nothing on the way removes
  duplicates; several clients insert and delete relations of one owner.
* Links are pointers: who loads through one changes what others hold.
* `gorm.Open` is five steps, any of which may fail, on a connection that may be
  dialled again between two of them.
* Statements are rewritten by matching and cutting their text.

`PROJECT.json` lists the hazards at their lines, with the properties that cover
them; the note of one without a property says why, and a note beside properties says
what they except.

### What makes each part correct

* Transactions: what a handle writes is stored by its commit or never, the caller is
  told the truth, and no transaction is left open.
* Saves: a stored record has the relations it was saved with.
* Registry: a registered table is found, and every answer is a registered table.
* Migration: after nil, what the running build needs is there and stays there.
* Renaming: no value and no definition is lost.
* Queries: the rows are those the conditions describe.
* Records: what was deleted stays deleted, what was saved is stored.
* Associations: after nil, what is in the slice is linked; what is linked once is not
  linked twice by a fresh slice.
* Raw blocks: each statement writes the values of its own parameters, and nil means
  that the block took effect.
* Cursor, numbers, links: what is read is what is there, what is saved is what was read.
* Connection: an open Dialector is signed in, on a database that exists, and comes back.

## Modules

### TxStore, GormTx: transactions and routing

`TxStore` is the promise: writes outside a transaction take effect at once, the
writes of a transaction together at its commit or never. Each value carries the
transaction it was written in, so "never" is visible in the store.

`GormTx` is the driver. State and code:

| variable | code |
|---|---|
| `pool[s]` | `Statement.ConnPool` of session s: the dialector, or a `*SurrealTx` |
| `job[s]` | the rest of a callback that makes several calls: UpdateCallback's relations and UPDATE, edgeAssocDelete's loop, edgeAssocReplace's wipe and loop |
| `finish[s]` | GORM is committing or rolling back after the closure returned |
| `closed[t]`, `expired[t]` | `sdkTx.IsClosed()`; the context `BeginTx` was given is done |
| `told[t]` | what `db.Transaction` returned, or that the closure ended it itself |
| `db`, `srv`, `buf`, `up` | the server's committed contents, each transaction's state and writes, and the connection (external) |
| `nop` | counts callbacks, for the bound `MaxOp` and for identities |

Each callback with one server call is one action (`CreateRows`, `CreateMany`,
`CreateEdge`, `ExecInsertEdge`, `UpdateRows`, `DeleteRows`, `SoftDelete`,
`RawTransaction`, `Relate`, and `ExecRows` for `db.Exec`). A callback with several is a `Start` (`Save`,
`AssocDelete`, `AssocReplace`) and one step per call (`SaveEdge`, `SaveRow`,
`Unlink`, `Wipe`, `Relink`), and may end at any point with `JobFails`. A call that
fails or is never sent changes nothing, so single calls have no failing action.
`Routed(s)` is the routing by ConnPool, `Direct(s)` the use of `dialector.Conn`
whatever the handle. `Begin`, `ClosureReturns`, `EndCommit`, `EndRollback` and
`InnerFinish` are GORM's `db.Transaction` around `SurrealTx.Commit` and
`Rollback`; a commit can be refused, take effect with its reply too late, or
never be sent. `Drop` and `Reconnect` are the WebSocket and rews; `Expire` a
deadline.

Deleting a record removes its edges on the server
(`doc-surrealql/statements/relate.mdx:587`), and `UPDATE` creates nothing
(`doc-surrealql/statements/update.mdx:9`). The association callbacks run when
`gorm:association:delete` or `gorm:association:replace` is in the statement's
settings; the comment query that `executeSQL` sends after them has no effect and
is left out.

The settings of `callback_edge.go` are made neither by GORM nor by this repository, so
the associations an application uses run through UPDATE and DELETE (`EdgeAssoc`); the
callbacks are registered and stay in the model because an application can set them.

### EdgeRegistry: RegisterEdgeTable and FindEdgeTable

`edgeTables` is the `sync.Map`. `Register` and `StoreAlias` are the two stores of
`RegisterEdgeTable`, `Find` and `FindPlural` the two loads of `FindEdgeTable`;
`task[g]` is what remains of a goroutine's call. The registry looks at a name's last
letters only, so a name is a stem with a number of letters s. `given`, `done` and
`answer` are history: tables whose registration has begun or returned, and the last
lookup with what was registered when it began.

### Migrate: AutoMigrate

`kind`, `fields` and `indexes` are the server's schema; `registered[p]` the registry of
process p; `pc`, `existing`, `at` and `todo` the local variables of its `AutoMigrate`.
One action per call to the server: `ListTables`, `CreateTable` (or `SkipTable`),
`DefineField`, `DefineIndex`, `InfoForTable`, `RemoveField`, with `FieldsDone`,
`NewTableDone` and `OldTableDone` for the control between them. `CallFails`,
`InfoFails` and `RemoveFails` are failed calls (the last two are ignored, as in the
code), `Restart` a process that stops and starts with an empty registry, `EarlyWrite`
a client's write to a table that no migration has defined. A process calls
`AutoMigrate` until it returns nil.

### Rename: RenameField

`rows` has what each record stores under the old and the new name, `defined` the
field definitions. `Call` and the five calls `TableInfo`, `Define`, `Copy`, `Unset`,
`Remove`; `InfoFails`, `CallFails`, `Stops`; clients write with `WriteOld` and
`WriteNew`. `latest` and `past` are history. The table is SCHEMALESS and the field
may be unset (the UNSET of one that may not fails, which is `CallFails`).

### QueryRewrite: QueryCallback and executeSQL for reads

A statement's text is kept as its conditions in order, with what an edit would leave
behind that is no statement recorded as `broken`. `Build`, `OptimizeFindByID`,
`OptimizeFindByIDList`, `RewriteSQL` and `Execute` follow each other as the calls in
`QueryCallback`; `Server` is how SurrealDB evaluates a comparison and `Meant` what the
application means by it: they differ in `IN ($p1, $p2)`, which is no membership in
SurrealQL. `Places` are the comparisons of a text in order, so that `IsP1` is the one that has the
first argument, and `Without` is what a cut leaves. Record ids are numbers, because ORDER BY orders them;
`Ranked` is a set as a sequence, from which what the server returns (`Kept`, `Sorted`, `Page`,
together `Response`) is made without recursion.

`$p1` is also how `$p10` begins (`callback_query.go:143`): where a record id is the first argument and
an id is compared with the tenth, FROM becomes the first and the digit left of the cut predicate joins
the text before it, into another parameter or into nothing that parses. `QueryRewriteAssumption`
leaves such queries out (`NumberedApart`).

### Records: the write callbacks as the application sees them

`store` is the server's records, `model[c]` the struct of client c, `pending` the
clients whose Save met no row and is about to create (GORM's `Save` calls
UpdateCallback, then CreateCallback), `last` the call that returned last with its
RowsAffected. `Create`, `CreateWithID`, `CreateSlice`, `Save` and `SaveCreates`,
`Update`, `Restore`, `SoftDelete`, `HardDelete` and `Read` are the calls, with a
struct's id or a WHERE, scoped or not; `NewModel` and `SetName` are the application.
`Content` leaves zero values out of what a create sends, and `Merge` leaves fields
that a record lacks as they were in the struct. `used` and `hidden` are history.

### EdgeAssoc: associations over an edge table

`edges[p]` is how many relations the server has from `p[1]` to `p[2]`, `accepts` the
pairs the table's FROM and TO admit; `model[c]` is the struct of client c with the end
it is on, `call[c]` its call and the next element to insert. `Save`, `Add` (Append),
`Replace` (and Clear), `Delete` and `Preload` begin; `Inserts` is one relation of the
loop in UpdateCallback (`callback_update.go:54-87`), `Refused` a relation the table does
not take, `Saved` the UPDATE after the loop, `DeletesOthers` and `Deletes` the one DELETE of
Replace and of Delete (`callback_delete.go:162-206`), `Fails` an error at any point, with
or without effect. `Stored` is the pair UpdateCallback inserts: In is the struct's
record on whichever end it is. `Seen` is the pair a Preload, a Replace and a Delete look at.
`lost`, `quiet` and `fresh` are history.

### RawSql and Numbers: raw transactions, rows, numbers

`block[c]` is the builder of client c, `loop[c]` an `Exec` under way with the
parameters still to rename. `Exec`, `Renames` (one parameter, in any order, as a Go
map yields them) and `Collects` are `Tx.Exec`; `Abandons`, `Empty` and `Sends` how
`Transaction` ends: the block commits and is reported, commits and its reply is lost, fails with
any set of statements marked, or never arrives. `Query` and `NextRow` are the cursor of
`db.Raw(...).Rows()`: `Columns` from the first row, `Filled` what Next writes into the buffer that
database/sql keeps. `table` is the server's, `versions` its committed states, `meant` and `clean`
are history.

`Numbers` has `ToInt64`, `ToUint64` and `toDriverValue` with words of `2 * Half` values (2^64 in Go;
the proofs need no power of two). A conversion is the set of its results: Go leaves open what a float beyond the range becomes.

### Links: Link and SliceLink

`cell` is memory: what each RecordID names; `var[v]` and `book[b]` point into it. `Find` decodes
the reply into a new RecordID (`types/link.go:41`), `Scan` and `FindBook` through the one that
is there (`types/link.go:92`, `types/record.go:46`); `Assigns` and `Copies` make pointers shared, `Save` is
MarshalCBOR. A new RecordID takes a cell nobody points to. `want` and `excuse` are history.

### Connect: gorm.Open

`Dial`, `Check`, `SignIn`, `DefineNamespace`, `Use` and `DefineDatabase` are the steps of `Initialize`,
`Fail` an error of any of them, `Skip` and `Reopen` another `gorm.Open` of the same
Dialector. `links` are the connections dialled so far: none is ever closed, and those that rews wraps
dial again by themselves (`Reconnect`) with the token and the USE they recorded. `Drop`
loses a socket, `Wipe` is a server in memory that restarts. A Dialector that the application hands a
connection of its own skips all of this and is left out.

The modules do not share variables: `GormTx` composes sessions, handles, connection
and server, and takes what a statement writes as given; `Records` and `QueryRewrite`
say what a statement writes and reads, with every request atomic, and `EdgeAssoc` what the
requests of association calls do to edges; `RawSql` extends `Numbers`; `EdgeRegistry` is one
process's registry, and `Migrate` composes the registries of several with the schema.
`MC...` modules hold the instances for TLC, `..._proofs` the theorems.

## Runs

| run | question | bounds |
|---|---|---|
| transactions | are the writes of a handle stored only by its commit, are the reports of `db.Transaction` true, does a stored Save have its relations, is the driver a transactional store, and does every transaction end? | 2 sessions, 1 transaction, 2 records, 2 edges, 2 callbacks; 773 thousand states |
| edge_assoc | what is linked when a call returned nil, and when can a relation be there twice? | 2 clients, 3 records, slices and copies up to 2, 3 calls, a table of one direction and one of both; 1.3 million states |
| raw | do renamed parameters keep their values, is the report true, are the rows read those of one state, and are numbers read back whole? | 1 client, 2 statements of 3, names that clash, 2 rows of 2 fields, words of 3 bits, 1 query; 169 thousand states |
| links | does a Save write what was read or assigned? | a link and an element of a SliceLink, one struct they are assigned from, 1 row, 2 targets, 4 cells, unbounded calls; 230 thousand states |
| connect | can an open Dialector be used, and does it come back? | 3 dials, 1 wipe, every scheme and interval, incomplete DSNs; 62 thousand states |
| registry | are registered tables found, answers registered, and names resolved alike in any order? | 3 goroutines, a stem with up to 3 letters s |
| migrate | what can each process rely on once AutoMigrate returned nil, and does retrying get there? | 2 builds that differ in a field and a type, an edge table and a table with an index, 2 failures or restarts, early writes to one table, a schema that is empty or as a build left it |
| rename | does RenameField keep values and definition, wherever it stops? | 2 processes, 3 calls, 2 records, 2 values, 2 writes, 2 failures; 71 thousand states |
| query | do lookups by id return what their WHERE says, and is no condition lost? | WHERE of up to two conditions, of which one may be a group, with NOT and OR, in every style; order, count, limit and start; 4 stores of 2 records; 270 thousand states |
| query_or | violated: soft-deleted records appear in a query with Or | the same |
| records | do deleted records stay deleted, and do Saves store? | 2 clients, 2 ids, 2 values, 6 calls; 156 thousand states |
| create_with_id | violated: create of a struct with a new id stores nothing | 2 clients, 2 calls |

Why the bounds are enough. Two sessions and a transaction make a session inside and
one outside meet, and two callbacks one write and another; that two transactions do not
touch each other's writes is proved for any number of them. A Save with two targets can fail before,
between and after its relations. Three association calls are two that overlap and one before
or after them; three records give a slice a second element, and two copies are one too
many. Two statements are enough for a name of one to be what the other's is renamed to, and one
query reads them through at any point. Words of 3 bits have both edges of the signed
and of the unsigned word, and numbers beyond each. One more RecordID than there are pointers is
always free. Three dials are two failures and a success. Three goroutines are
two that register and one that looks up; three letters s are a table, its plural and
the plural's plural, and a registered name at the end of that chain. Two builds show
each pair of old and new, and two failures one during the retry of another. Three
calls of RenameField are two concurrent ones and one after them. Two conditions are
the ones before and behind the one that is cut out, with the soft-delete condition as
the third; two records separate those that match from those that do not. Six calls
are a create, a delete and two Saves with both of their requests between them.

Deadlock is checked in the runs registry and links. The others stop by design: when the
callbacks, calls or failures of the bound are used up and every transaction, migration
or query has ended.

### Fairness

`GormTx`'s `FairSpec` assumes weak fairness of a running job's next call (or its
failure), of a closure's return when no callback runs, and of GORM's commit and
rollback: goroutines that have something left to do are scheduled, and a call returns
or fails. Nothing is assumed of the application's callbacks, of reconnection, or of
deadlines. A context that expires before the rollback leaves the transaction open on
the server, because `Rollback` uses `t.ctx` (`transaction.go:128`): `EveryTxEnds`
excepts exactly that.

`Migrate`'s `FairSpec` assumes weak fairness of each process's `Migrates`: it goes on
with its calls and, as the application does at start-up, calls `AutoMigrate` again
after an error. Failures are not fair, only bounded. `EveryoneMigrates` fails if a
retry would not list the tables anew, because `DEFINE TABLE` refuses all but one of
the processes that create a table.

`Connect`'s `FairSpec` assumes weak fairness of `Reconnect`: the goroutine of rews tries at
every interval for as long as the process lives. That an attempt gets through in the
end is an assumption on the network. A server that lost its data is excepted, as the token it
signed is no longer valid.

### What the runs show

* Every callback that looks at ConnPool keeps its writes inside the transaction,
  also when the connection is lost and dialled again, and a transaction whose
  end went wrong leaves nothing behind. nil from `db.Transaction` means committed
  unless the closure had closed the handle; an error can hide a commit only when the
  commit's reply came too late.
* The callbacks of `callback_edge.go`, where an application asks for them, write on the shared
  connection also inside a transaction (`:88,146,190`); the refinement has these writes as
  writes of their own, next to those of `Relate` and `Transaction`.
* A save or append that returned nil has linked every element of its slice, unless another client
  removed one meanwhile. Nothing keeps a relation single: appending one
  after another, saving a preloaded struct, or trying again after an error duplicates what was linked
  (`callback_update.go:54`), and `FreshLinksAreSingle` states the one condition
  under which that does not happen.
* Replace by one value and Clear are exact if nobody else changes edges. With several
  values they are not: a list in parentheses contains nothing in SurrealQL, as
  `callback_query.go:21-26` says of queries, so Delete of several values removes nothing and Replace by
  several removes all. A struct on the `out` end stores its relations backwards
  (`callback_update.go:73`). The properties except these.
* Renamed parameters keep their values in any order of the map, whatever names statements share, unless
  the application uses names like tx0_a itself; nil from `Transaction` means that the block
  took effect, once.
* A cursor shows the rows of one committed state, each document under its own columns. Columns
  come from the first row, and a scalar among documents leaves stale values in all columns but the first.
* Integers and decimals come back as they are or as an error; floats are cut.
* A Save writes the link that was read or assigned, fetched or not. Not so in three cases, which the
  model has and `Excused` names: a row without a link leaves a struct that is used again as it was
  (stale), a fetched record whose type has no GetID leaves no id (bare), and Scan or a load into a struct
  with an id writes through a RecordID that others share (shared).
* gorm.Open may fail at any step and be called again: a Dialector that opened is signed in on
  a database that exists whenever its socket is there, and a reconnecting one comes back. The
  connections of failed attempts are never closed.
* A registered edge table is found under its name and its singular, at any
  interleaving. The alias of one table can be the name of another: with `wishlist`
  registered, registering `wishlists` redirects it. `ResolvesByName` says what holds
  all the same.
* Processes that migrate together get there by retrying and never lose the fields they
  share; a build that migrates alone gets exactly its own schema. A table that a
  client's write defined early stays TYPE ANY SCHEMALESS, as CreateTable is skipped
  (`migrator.go:66`).
* One RenameField loses no value wherever it stops, and its definition keeps others
  from copying meanwhile. A second one after its success erases the field
  (`alter.go:309` against `alter.go:283-286`), which `OneCopyKeepsValues` excepts by the number of copies. An INFO FOR TABLE that failed is taken for
  a field without definition (`alter.go:290`); the properties except it by `past.blind`.
* Lookups by id mean their WHERE if they are `Sensible`: conditions joined by AND, ids of
  the table once and in one condition, other columns compared by = and, where they hold ids, quoted.
  Outside of that the rewriting goes wrong in ways the model has: a raw
  `author_id = $p1` and a list of any column that ends in id are taken for the table's
  ids (`callback_query.go:19,143`), `NOT id = $p1` loses its NOT, `ORDER BY id DESC` of
  `db.Last` leaves DESC behind, ids of another table or twice the same are looked up as
  they are, and a count with LIMIT is no statement (`executor.go:77`). In all of them, the
  other conditions survive (`OtherConditionsKept`).
* With Or, the soft-delete condition covers the last alternative only
  (`callback_query.go:77` against `test/gorm_suite_test.go:579`).
* No interleaving of reads, updates and deletes, by id or by WHERE, brings a deleted
  record back; a Save does, as it writes the whole record. A record deleted for good
  returns by INSERT only, because create with an id is an UPDATE, which therefore does
  not upsert (`callback_create.go:416` against `CHANGELOG.md:32`).

## Proofs

All theorems hold for any values of the constants that satisfy the module's named
assumption: sets are arbitrary, the marks (`None`, `NoField`, ...) are no members of
what they stand beside, bounds are numbers.

`GormTx_proofs`: `TypeCorrect`, `Isolation`, `TrueReports`, `SavesComplete` (`Spec` implies the
four invariants of the run), and `Refinement` (`Spec => ImplementsTxStore`). Every
step sends one *tagged* write set over one connection (`DataStep`), ends one
transaction held by the session (`Finishing`), or leaves the store alone
(`StepKinds`). The isolation invariant alone is not inductive, because a commit
installs whatever the buffer holds; `BufferOwned` adds that a buffer holds only writes
of its own transaction, and only while it is open. For the reports, `HandleHeld` adds
that a handle is held by one session, that a handle closed before GORM's commit was
closed by the closure, and that a committed transaction whose report is still to come
has an expired context. For the Saves, `EdgesOnce` says that an edge in the store is the same
in every buffer and that one not yet in the store is in one buffer at most, `Shown` that in what any
connection sees a row with a Save has its relations, and `JobInv` that a running Save has
made the relations it has not left, unless its transaction is gone. A statement keeps these if it is
`Lawful` (it makes new edges, or changes seen ones without making them others, and writes rows
whose relations are seen), and so does the end of a transaction (`EndKeeps`). The refinement maps `Begin` to `Begin`, a sent write to
`Write` or `AutoWrite`, and the loss of a connection to one `Abort` of all open
transactions.

`Dialector_proofs` has the theorems of `EdgeRegistry` and of `Connect`. Of the registry: `TypeCorrect`,
`RegisteredFound`, `AnswersRegistered`, `ResolvedByName`. `MapInv` says what the map may hold under a name (the name itself or
its plural, if registration began) and must hold once registration returned;
`TaskInv` adds that a lookup which missed the name began before the name or its plural
was registered, and `AnswerInv` is what both give its answer. Of gorm.Open: `ConnectTypeCorrect` and
`OpenUsable`. That an open Dialector is usable is not inductive, as a socket may be lost between any two
steps: `ConnectInv` adds what each step of `Initialize` leaves to the next, and that a connection which is
lost has recorded it, so that dialling again restores it (`Achieved`), and that
`Conn` is set by the last step (`KeptLast`).

`Migrate_proofs`: `TypeCorrect`, `EdgesServed`, `SharedFieldsKept`, `ExactWhenAlone`. A
process's progress through its models is an invariant of its own (`ReadyInv` for the
shared fields, `ExactInv` for the whole schema): everything before `at` is done, and
in the table at `at` everything but `todo`. Each action is, for each process, a step
that stays, that leaves AutoMigrate or that advances, and its effect on the server
either defines a field as that build's model has it or removes one the model lacks.
`ServerInv` keeps fields to tables that exist.

`Rename_proofs`: `TypeCorrect`, `ValuesKept`, `CopyGuarded`, `DefinitionMoved`, from
`CopyInv` (before the first copy the latest values are under the old name, after it
under the new), `GuardInv` (while the old definition is there, one caller at most is about
to copy, and none without the new definition) and `MoveInv` (whoever is past it has the new definition).

`Callbacks_proofs` has the theorems of `Records` and of `QueryRewrite`. Of the records: `TypeCorrect`,
`Hidden`, `SaveStored`, `Gone`. `HiddenInv` adds to `DeletedStaysHidden` that hidden records were used
and that no pending Save is on one, as its create would replace the record.

Of the queries: `QueryTypeCorrect`, `KeepsOtherConditions`, `FindsWhatItMeans`, for WHERE clauses of any
length, groups of any size and any number of records. They rest on what the model's operators
return: a set has one order, in which each element stands behind as many as are below it (`RanksTaken`,
`RankedIs`, `RankedUnique`), so what is sorted without duplicates is its set in order
(`SortedIs`), a page's length depends on what it is taken from by length alone (`PageIs`), and conditions
joined by AND hold where each of them does (`AndOnly`). `ConditionsKept` says that until the
answer only conditions that look like a lookup by id have been cut. `CutsOnce` says of a sensible query
that the statement is the one that was built, or that its one lookup is what FROM lists and is cut
out, and that a lookup by a list is not left behind by `OptimizeFindByIDList`. Either way the
server finds `Intended` (`FoundByBuilt`, `FoundWithout`, `LookupIs`), each once, and the page of
that is the answer (`AnswersWhatItFinds`).

`EdgeAssoc_proofs`: `TypeCorrect`, `SavedLinked`, `FreshSingle`, `ReplaceExact`. `LoopInv` says that
whatever a call's loop has passed is linked or was removed by others; it gives `CoverInv`
once the call ends. `SingleInv` adds to single edges that what calls have still to insert is not
there, comes once, and is in no one else's call.

`RawSql_proofs`: `TypeCorrect`, `MeansItsStatements`, `ReportTrue`, `ShowsOneState`,
`ReadsNumbersBack`. `BlockInv` says
that every name of the n-th statement that was bound carries the number n, and which names of
the text the loop has replaced so far; without it a later renaming might catch an
earlier statement. `CursorInv` keeps the rows of the cursor to a result of one
committed state. `ReadsNumbersBack` follows from the types and the arithmetic of a word
(`FitsItsWord`, `ValueReadsBack`).

`Links_proofs`: `TypeCorrect`, `SavesRead`. The property is inductive with the types, once it is
known that a free cell exists (`NewIsFree`, from the number of cells) and that nobody points to it.

Every invariant and action property of a passing run is proved, and the refinement. Only model-checked is
liveness, which with ENABLED is out of the prover's reach: `EveryTxEnds`, `EveryoneMigrates` and
`ComesBack`. What the models compute over sequences is written with
functions and cardinalities instead of recursion, because the theorems on induction take an operator
as a parameter, which the provers cannot instantiate; `FiniteSetTheorems` and `SequenceTheorems`
are enough for those.

## Plan

Modelled and proved in the order: transactions and routing; registry; migration and renaming;
queries; records; associations; raw transactions, rows and numbers; links; connection. What could follow:

1. The rewriting of an association count with its JOIN (`executor.go:69-157`) in `QueryRewrite`.
2. `EdgeAssoc` under `GormTx`: an append in a transaction over a connection that is lost.

## Not modelled

Wording of statements and DDL beyond what QueryRewrite matches, CBOR and JSON
conversions other than those of links and numbers, logging, hooks of models, association
Count and raw reads by `db.Raw(...).Scan`, which change no state. The DDL helpers of `define.go`,
`event.go` and `analyzer.go` send one statement each. Live queries are calls of the SDK that keep only an
id in the driver: whether a notification between the reply of LIVE and the registration of
its channel is kept is decided in the SDK. Files and errors hold no state.
`Dialector.ExecContext` is in `GormTx`; `SurrealTx.ExecContext` and it differ in RowsAffected
(`transaction.go:96`), which `GormTx` does not have.
