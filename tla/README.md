# Verification of go-postgresql

A TLA+ development beside the Go PostgreSQL server framework in `src/postgresql` and its
example server in `src/examples/go-postgresqld`. Paths below are relative to
`src/postgresql` unless they begin with `examples/`. `PROJECT.json` maps each
definition to the lines it stands for.

## The system

| component | state | operations | talks to | modelled by |
|---|---|---|---|---|
| request loop and query handler: `protocol/server_impl.go` (`receive`), `server_query_handler.go` | the request in hand, the statements of a Query still to run | one handler per request type; `Query` runs statements one by one and writes each answer | reader, connection, prepared statements, executors | `Session` |
| connection: `protocol/conn_impl.go` | transaction mutex, TLS state, start time, tracer span | `LockTransaction`, `UnlockTransaction`, `TransactionStatus`, `ResponseMessages`, `ResponseError`, `ReadyForMessage`, `SkipMessage`, `Close` | client | `Session`, `Startup`, `Answer` |
| prepared statements and portals: `stmt/` | two maps of maps, shared by all connections, no lock | set, get, remove | query handler | `Session` |
| message reader: `protocol/reader.go`, `message_reader.go`, the `New...WithReader` decoders | `peekBuf`, the connection's stream | `ReadBytes`, `PeekBytes`, `PeekType`, `PeekTypeNonBlocking`, decoders | TCP, request loop | `MessageReader` |
| server life cycle: `server_impl.go`, `protocol/server_impl.go` | the field `tcpListener`, started or not | `Start`, `Stop`, `Restart`, `open`, `close`, `serve` | `main` and its signal handler, connection manager | `Lifecycle`, `Server` |
| start-up and authentication: first half of `receive`, `server_startup_handler.go` | TLS, what the authenticator said, registered connections | SSLRequest, Startup, password, greeting, `AddConn`, `RemoveConn` | life cycle, request loop | `Startup`, `Server` |
| COPY: `copy.go`, `copy_stream.go`, `executor_bulk.go` | rows copied and failed so far | the loop over CopyData messages | query handler, executor | `CopyIn` |
| default executors: `executor_query*.go`, `executor_error.go`, `server_impl.go` (the setters) | the executor in each slot, the SQL executor each of them holds | install, replace, hand a statement on | query handler, store | `Executors`, `Answer` |
| message encoding: `protocol/*.go`, `query/resultset.go`, `query/data_row.go` | none | a response to its bytes | connection | `Messages`, `Answer` |
| example store, tables: `examples/go-postgresqld/server/store/table.go`, `row.go`, `store.go` | a slice of row maps under a mutex | `Select`, `Insert`, `Update`, `Delete` | executors | `TableStore` |
| example store, databases: `store.go`, `database.go`, `databases.go` | maps of databases and tables, no lock | CREATE, ALTER and DROP | executors | `Catalog` |
| pgbench answers: `pgbench.go` | none | one canned answer, chosen by a prefix | error executor | `Answer` |
| system catalogue and types: `system/` | constant tables | lookups | executors, encoding | `Messages`, `Catalog`, in part |
| tools and deployment | none of the server | | | not |

Each accepted connection has one goroutine that runs `receive`; `serve` is one more
per Start; `main` makes the calls. What is hard:

* **pipelining against time.** A client may send ahead. `ReadyForQuery` is not sent
  at Sync but whenever no further byte is seen within 10ms, so who learns what
  depends on segments and deadlines.
* **the transaction mutex.** It represents the transaction; `sync.Mutex.Unlock` on
  a free mutex ends the process with all its connections.
* **shared maps without a lock** among the goroutines of all connections.
* **one field, three goroutines.** `Start`, `Stop` and the deferred `close` of
  `serve` read and write `tcpListener` without a lock.
* **a slice that is shifted while it is read**, in two separately locked sections.
* **partial reads**, of fields and of peeks, and polls that expire.
* **a dialogue inside a request.** COPY reads the stream itself, peeks to see where
  its data ends, and leaves what it does not know to the request loop.
* **lookup, then act.** DDL looks a name up in an unlocked map and then acts on the
  name; other connections do the same in between.
* **a connection that is replaced while it is used.** SSLRequest changes the reader
  and the writer in the middle of the start-up, and Stop closes what it knows of.
* **executors that are replaced while others hold them**, and errors of an encoder
  that come when half of the answer is written.

## Modules

| module | models | runs | proofs |
|---|---|---|---|
| `Session`, `MCSession` | request loop, handlers, connection, prepared statements, and the clients | `session_*` | `SessionProofs` |
| `Lifecycle` | starting, stopping, restarting | `lifecycle_*`, `server` | `LifecycleProofs` |
| `Startup` | `receive` before its request loop, for each connection, and its end | `server` | `ServerProofs` |
| `Server` | `Startup` and `Lifecycle` composed: who accepts, and what Stop closes | `server` | `ServerProofs` |
| `MessageReader`, `MCMessageReader` | the byte stream, peeks and decoders | `reader_stream` | `MessageReaderProofs` |
| `CopyIn` | the dialogue of COPY FROM STDIN beside DDL of another connection | `copy_in` | `CopyInProofs` |
| `TableStore`, `MCTableStore` | tables of the example store | `table_*` | `TableStoreProofs` |
| `RowList` | what a table promises; `TableStore` is shown to implement it | by `table_where` | `TableStoreProofs` |
| `Catalog`, `MCCatalog` | databases and tables by name, and the statements of a Query that reach them | `catalog` | `CatalogProofs` |
| `Executors` | which SQL executor a statement ends at | `answer` | `AnswerProofs` |
| `Messages` | responses to bytes, and a client that reads them back | `answer` | `AnswerProofs` |
| `Answer`, `MCAnswer` | the responses to each request, written one by one | `answer` | `AnswerProofs` |

### Session

`pc[c]` is where the goroutine of connection `c` is: in `PeekType`, in a handler, in
the statement loop, about to write, in the poll, about to write `ReadyForQuery`, or
gone. `inbox` and `outbox` are the two directions of the socket. An action is what
happens between two points where another goroutine or the client can be seen: a
handler that only touches the connection's own maps is one step, every statement of
a Query is a step of its own because its answer is written before the next one runs.
The two outcomes of an executor call, of a write to a client that has left, and of
the poll are choices.

Prepared statements are `PreparedManager`'s two maps. `MapRace` is the fatal outcome
of two unsynchronised accesses; `Hits` and `missed` the other one, a lookup that
misses while another connection inserts. SQL is abstracted to what `Query`'s switch
tells apart for the session: BEGIN, COMMIT/ROLLBACK, and the rest.

The clients are part of the model. `Careful` ones end a transaction only with a Query
of COMMIT or ROLLBACK alone, once they have read the completion of their BEGIN. `view`
is what such a client knows; `intent` what a client thinks its portals hold.

### Lifecycle

`control` is the goroutine that makes the calls, `serve[k]` the one that Start `k`
spawned. `close` is three steps: test the field, call `Close` on it (on the value
tested or read again: the compiler may do either, both are modelled), clear it. The
tests of `main` are in `Alive`: a Stop that fails ends the process.

### MessageReader

A byte is its place in the stream. A kind of message is the list of places where its
fields end. `buf` is what a running `ReadBytes` has, `peekBuf` the field of that
name. `taken` counts the bytes read from the connection, so that
`taken - Len(buf) - Len(peekBuf)` is what has been handed out for good. `Raw` are the
fields read with `Read` itself, which returns what has arrived. The module begins
with the Startup message; an SSLRequest or a password message before it is left out.
A Startup that fails closes the connection, as in `receive`; a request that fails is
answered and the loop goes on to the poll.

### TableStore and RowList

Go slices are modelled as they are: `arrays` are the backing arrays, a slice is an
array and a length, `append` writes in place or copies. Each loop of the code is a
function from the number of its turns to the state after them. A row is a name whose
`content` can change under every slice that holds it, as the maps of the code do.
UPDATE and DELETE pick rows in one locked section (`Select`) and act in another.
`Delete` is the double loop of `table.go:99` with its reads of moved cells. `Update` goes
over the rows it picked and gives each what the statement makes of it: `set` is the value
of the clause, or what a function makes of the row; where the function fails the row
keeps its value, because `Table.Update` drops the error (`row.go:134-145`).
The abstract `RowList` is a list, an update of chosen rows and a removal of the rows
that equal a chosen one; the refinement maps the visible part of the slice to the list.

### Startup and Server

`at[c]` is where the goroutine of connection `c` is: it peeks the length of the first
message, makes the TLS handshake, reads the Startup message, reads the password, writes
the greeting message by message, serves, or has ended. `sock` are the connections whose
socket is open on the server's side, `open` those whose client has not hung up: a read
fails when either is gone. `written` is everything a client was told, each message with
whether it went through TLS, and `asked` how a password travelled. The authenticator
and the connection manager are external; the first says yes or no, the second holds a
set of connections and closes them, all or, when it fails, some. A failed authentication
answers an error and goes on with ParameterStatus and ReadyForQuery, as the code does;
`GreetedAsVerified` and `ServedWasGreeted` say in which order and to whom: they ask that
what was told is what the code owes to the authenticator's word, not that a client it
turned down is left unserved.
`silent` and `late` are remembered facts: a certificate that was refused without
an error, and a connection that the manager did not hold when it was stopped.

`Server` instantiates `Lifecycle` and joins two of its steps to those of `Startup`: a
connection is accepted by a serve goroutine whose socket is bound, and the first step of
Stop stops the connection manager, before the listener is closed. A `Lifecycle` process
that has ended takes its connections with it.

### CopyIn

A COPY is one request in the request loop of its connection, but it reads messages of its
own. `stream` is what the client has sent, `taken` how far it is read, and `owner[i]` the
COPY that read message `i`, or 0 for the loop. The places of `pc` are the points between
which the other connection may create or drop the table: `handleCopyQuery` looks the
table up, `CopyData` of the example does so again, and every row is an INSERT that looks
it up once more and appends to the table it found, which may be gone by then. A message
is what the code tells apart: a row that fits, one that does not, a mark (`\.`), a length
that is none, CopyDone, CopyFail, and requests. `EndOfRows` is the fate of what ends the
rows: CopyDone is taken and every other message stays for the loop.

### Catalog

Databases and tables are numbered as they are made, so that a table that was dropped and
made again is another one. A statement is in `at[c]`: at its lookup of a database, at
that of a table, about to act on what it has found, in `db[c]` and `tbl[c]`, or about to
look at a map once more (`again`: DROP DATABASE looks the name up before it deletes it,
DROP TABLE looks whether the name is gone after it has deleted it, and fails if another
connection has made the table again); the lists of DROP TABLE and TRUNCATE go round. An
INSERT has a list of rows: `good` of them in front of one that is refused, or all of them
(`ok`). They are appended one by one under the lock of the table, which is one step for
whoever looks from outside, and those in front of a refused row stay.
`promised` is the abstract catalogue, what the
acknowledgements a client has read amount to; `leftover` are the rows that failed INSERTs
left, which nobody has acknowledged; and `torn` the names for which
an acknowledgement was worth nothing because the lookup it rested on was no longer true.
`CatalogIsAsAnswered` says of any other name that its table is there just when it is
promised, with the rows promised and left over and no others; `FailureLeavesItsBeginning`
says what a statement that failed may leave.
`MapRace` is Go's fatal error for two unsynchronised accesses of one map.

### Messages, Executors, Answer

`Messages` writes a response as bytes: type, length, body, with the number and text
formats of the columns' types; numbers are of 31 bits and a sign, and words are spelled by the
constant `Spelling`. Its second half is a client that reads the bytes, made from the
formats of the protocol and not from the encoders. `Executors` has the slots
of the server and which SQL executor each installed executor holds, `SetSQLExecutor` and
the setters. `Answer` puts them together: `Responses` makes the responses of a request
out of what the SQL executor returns (`Executed`), with the errors that `AppendData` drops and those
that come when a row is encoded; `WriteResponse` writes one response, and `WriteError`
what follows a failure. What the executors below may return are the constants
`ResultSets`, `Selectors` and `Counts`. Their assumptions are the limits of the formats:
columns and the lengths of texts are counted in 16 bits, rows in 31. A text has no zero
byte, since the formats end it with one. Of the tags, only VACUUM, TRUNCATE, that of
the empty query and the words before a count (SELECT, INSERT, UPDATE, DELETE) are literals
of the program. Those of BEGIN, COMMIT, ROLLBACK, CREATE, ALTER and DROP are the text that
the SQL library makes of the statement (`stmt.String()`), digits and names included, and
those of CREATE INDEX and DROP INDEX the text of the ALTER TABLE made of them: the constant
`Spelling` gives any text for each. `TagsAssumption` asks of these texts only that none of
the four counted words is in front, which is where a client looks before it reads a count
(`StartsWithCounted`): they begin with their own keyword. Of the counted words it asks that
they have no space in them. That a text has at most 32767 bytes is a bound of the model
for these tags, which nothing in the code limits.

## Runs

Passing runs, with the number of distinct states.

| run | instance | what it shows |
|---|---|---|
| `session_shared` | 2 connections, 2 requests each, symmetric; 3.8M | careful clients never unlock a free mutex, with both connections in the shared maps. Two requests are too few for a Parse, Bind and Execute: what Execute runs is checked by `session_pipeline` and proved for any number of connections |
| `session_pipeline` | 1 connection, 4 requests | the inductive invariant `CarefulInv`; no idle status to a client in a transaction; Execute runs what was bound when it was sent, and one statement |
| `session_live` | 1 connection, 2 requests of every type, careless | a client that stops sending is told its true status; a hang-up ends the goroutine |
| `lifecycle_calls` | 3 Starts, Listen and Accept may fail; 163k | what the calls report is what the sockets are, without overlap; goroutines return |
| `table_where` | 2 sessions, 3 keys, 2 values, 3 rows, UPDATEs to a value and by a function; 1.1M | the slice implements the list of rows; DELETE never slices past the end |
| `reader_stream` | 3 messages of 7 kinds, one- and two-byte fields; 25k | no byte is lost, doubled or moved; fields and messages are read whole; all of them in the end |
| `server` | 1 connection, 2 Starts, Listen may fail, TLS set, unset or broken; 477k | who is served was greeted with what the code owes to the authenticator's word (after a failed authentication an error, and the greeting all the same); nothing in clear once TLS is accepted; a refused client is told; Stop lets go what the manager holds and accepts no more; a client that has left is let go |
| `copy_in` | 4 messages of 9 kinds, 2 tables; 310k | COPY n counts stored rows and leaves none out; a row that is lost is answered for; CopyDone ends its COPY; the next request is answered |
| `catalog` | 2 connections, symmetric, 1 database name, 2 table names, 5 statements in Queries of any length, 2 databases, 3 tables, 3 rows, INSERTs of up to 2; 993k | the maps are what was acknowledged or left by a failed INSERT, except for names that were torn; a statement that fails leaves the beginning of its list |
| `answer` | every request, result sets of up to 2 columns and 2 rows with values of every kind, tags with digits and spaces, 2 SQL executors, 2 settings; 681k | the client reads what was written; a result set arrives whole or as an error; statements end at the last SQL executor |

Why the bounds are enough: two connections are the fewest that can meet in the maps,
and every hazard of theirs is between two. Four pipelined requests are Parse, Bind,
Execute and one that could disturb them, or BEGIN, COMMIT, BEGIN, COMMIT. Three Starts
give a stop, a restart and a failure after it. Three rows are the fewest with which a
shift leaves a wrong neighbour on both sides; capacities of backing arrays grow 1, 2,
4, so `append` is met in place and with a copy. Three messages give one
before and one behind the message being read; two bytes are the smallest field,
and the smallest value of a Bind, that arrives in parts; the longest a peek asks for is such a field. Connections of `server`
touch each other in the connection manager alone, whose Stop takes any subset of what it
holds; what one connection is told is proved for any number of them, and two Starts give
a Stop that overlaps a new serve. Four messages are a COPY, two rows, and what comes
after them, or two COPYs of a row. Five statements are enough to
create a database and a table, to insert, and to drop and create the table again while
the other connection is between its lookup and its act, also inside one Query. An INSERT
of two rows whose second is refused is the smallest that fails and leaves something; three
rows let one of those meet an INSERT that succeeds. Two columns and two rows are the
fewest for a value that is dropped before one that is not, and for a row that fails
behind one that was sent.

Runs that end in a violation. Each is a disagreement between code and text; the
findings in `PROJECT.json` quote the line.

| run | property | what happens |
|---|---|---|
| `lifecycle_restart` | `RestartListens` | the old `serve` closes or clears the new listener |
| `table_all` | `DeleteDeletesMatched` | a DELETE without WHERE leaves rows behind |

The properties of the passing runs hold where those disagreements are out of the way,
and say so: `~overlapped`, `~refused` and `~deaf` in `Lifecycle` are remembered facts,
`missed` in `Session` excuses a connection whose lookup met an insertion, `table_where`
has WHERE clauses and unique keys, `astray` in `MessageReader` is a decoder that was left in the
middle of a message, `silent` and `late` in `Startup`, `torn` in `Catalog`, `late` in `Executors`.

Other disagreements with a text of the repository, met while modelling and part of the
models, but not of a run: a BEGIN the executor refused leaves the transaction mutex
locked, and `ReadyForQuery` says "in a transaction" (`Session`; `ChangeLog.md:18`);
`ReadyForQuery` may follow a Parse, because 10ms passed (`Session`;
`doc/protocol-flow.dot`); a Start that could not listen returns nil (`Lifecycle`;
`examples/go-postgresqld/main.go:76`); a parameter value that comes in two segments makes
the decoder of Bind give up in the middle of a message (`MessageReader`;
`ChangeLog.md:100`).

`CHECK_DEADLOCK FALSE`: clients may stop sending and the bounds end every run.

## Fairness

* `Session`: weak fairness of each goroutine, and of a client reading what was
  written to it. The Go scheduler runs goroutines, and executors return. The poll
  needs none of its own: its deadline makes it return. Nobody has to send or hang up,
  and `MapRace` never has to happen.
* `Lifecycle`: a call that was made runs on, `close` and `serve` run on; Accept has to
  fail only once its listener is closed.
* `MessageReader`: what was written arrives, and `receive` goes on while it can.
* `Server`: a goroutine that has something to write, or whose client or socket is gone,
  goes on (`WritesOn`, `GivesUp`). A goroutine that waits for its client may wait forever.
* `CopyIn`: the goroutine of the connection goes on while it does not wait for a message;
  inserts return. The client owes it nothing.
* `TableStore`, `Catalog`, `Answer`: no liveness.

## Proofs

All theorems are about `Spec`, without fairness, and for all values of the constants.
The assumptions on constants are the named ASSUMEs of the modules; TLC evaluates them.

* **`SessionProofs`.** `TypeCorrect`, then `CarefulInvariant`. The property wanted, that
  no careful client unlocks a free mutex, is not inductive: whether the mutex is held
  depends on requests in the socket, in the handler, and on answers under way.
  `CarefulInv` follows the one COMMIT that may be anywhere: ahead of the server
  (`EndAhead`: then the mutex is held), or answered (`EndAnswered`: then it is not
  ahead), and the one BEGIN completion on its way back (`BeginStands`: the mutex is
  held and nothing behind it says idle). `OnlyPlainEnds` keeps COMMIT out of
  prepared statements. `CarefulSafe` and `NeverReportedIdle` follow. The proof goes
  action by action for the connection that moves (`...Careful`) and once for all the
  others (`...Elsewhere`).
  `RunsWhatWasBound` and `RunsOneStatement` are about what an Execute runs. `Followed`
  says that the requests in the socket lead, one after the other (`Leads`), from the
  maps of the server to what the client believes is in them, and that each of these
  requests was sent for what the portal map then holds. `OneStatement` says that the
  maps hold single statements only, which is all that Parse lets in and Bind keeps.
* **`LifecycleProofs`.** `LifecycleInv`: without overlap there is one listener and one
  goroutine for it; what is open is in the field (`OneListener`, `OneServe`), and it is
  closed once unless Accept has failed (`ClosesOnce`). `RunningServerListens`,
  `StoppedServerIsClosed`, `CloseFailureIsExplained` follow.
* **`MessageReaderProofs`.** `StreamInv`: messages lie end to end; a peek outlives only
  the field that it peeked; between two requests the loop stands at the end of a
  message, unless the stream has ended. Every step of `receive` is shown to
  satisfy one of `ToDecode`, `ToRequests`, `ToClosed`, which say what is due where the
  loop goes next. Values that one `Read` returns in part are covered, whatever their
  widths: `CutShort` says where such a value leaves the loop, and only behind one may a
  byte from the middle of a message be taken for a type. `StreamTyped`, `StreamInOrder`
  and `FieldsRead` follow, for any kinds of messages and any segments.
* **`ServerProofs`.** Of `Startup`: connections share nothing but the manager, so that the
  invariant `StartInv` is a conjunct for each of them, and a lemma says that a step of
  another one leaves it. `Standing` is what has been written at each place: it has to
  be known message by message, because the greeting is written in several steps and
  `ServedWasGreeted` is of its end. `Private`, `Told` and `Refused` carry the three other
  theorems: TLS, the greeting, the refusal.
  Of `Server`: every step is a step of `Startup` or a stutter of it, and also one of
  `Lifecycle` or a stutter of it (`ServerImplementsStartup`, `ServerImplementsLifecycle`).
  What was proved of either is so true of the whole server, for any number of connections
  and Starts. This is also why one connection is enough in `server`. Two theorems need
  both: `StopClosesConnections` follows a Stop from the step that empties the manager to
  its return (`Leftover`: meanwhile what is open is late), and `StoppedServerAcceptsNone`
  uses from `Lifecycle` that a stopped server has no open listener without overlap.
* **`CopyInProofs`.** The counters of a COPY are cardinalities of sets that depend on
  every variable of the stream. `CopyIsOpen` (the row in hand is not stored yet, nothing
  ahead of `taken` is owned, answered or stored) and `OwnersAreKnown` (no message is owned
  by a COPY that is still to come, so that a new COPY begins with nothing) make them
  inductive; each step then adds one element to one set, or none. `CountsAreTrue` adds
  that "COPY n" is written only at an end with no failure, and that a COPY that no longer
  runs gains and loses no row. `RowsAreNotLost` follows each row from the read on
  (`Accounted`): it is in hand, stored, or answered for, and a step changes that for one
  row only. `DoneIsTaken` needs to know, while the rows behind a COPY are read, that they
  are that COPY's (`OnCourse`): then it is still the one that runs when CopyDone comes, or
  it has failed.
* **`CatalogProofs`.** `CatalogIsAsAnswered` needs to know what a statement that is about
  to act has in hand: the database it found is under the name it looked up or under none
  (`FoundDb`), and so is its table (`FoundTbl`). Then a DROP or a DELETE that works on a
  stale object touches no promised row of another name, since a row is in one table only
  (`OneNameEach`). `Unmade` says that what is made next is empty, `NothingPromised` that an
  absent name is owed nothing, so that a table made again begins with no rows; `Steady`
  counts how far a list has come. `AsAnswered` says what is in the catalogue for any
  connections, names and lists of rows; `FailureLeaves` is the action property: of a DROP
  TABLE or a TRUNCATE that fails the tables in front are done with, and of a DROP TABLE that
  finds its name again another table is there; of an INSERT as many rows as there are in
  front of the refused one, all in its table, are there; any other has changed nothing. A step of one connection
  leaves the others in order because names are only lost or given to what is new
  (`NothingMoves`); what is left of each action is one lemma about one name (`Kept`).
* **`AnswerProofs`.** `WireIsFramed` and `ResultSetIsRead`, for any result sets, texts and
  counts within the limits above. The encoders put lists together, and the client reads
  them, by recursion on the number of items; what is said of them by induction is said
  of the set of numbers it holds of, from a least counterexample (`Turns`, `Loop`).
  From the bottom: the bytes of each encoder lie in the message one behind the other
  (`Lies`); reading a number, a text or a list at its place gives back what was written
  and the place behind it (`ReadsInt16`, `ReadsInt32`, `ReadsText`, `ReadsAll`); decimal
  digits read back as their number (`Upper` is what is left of it after some digits),
  and a tag as its word and its count. Hence `MessageIsRead`, for each type of message, and
  `FrameIsRead`: the frame at the head of whatever has arrived is read as its message
  and leaves exactly the bytes behind it.
  The invariant of the runs is not inductive, since it does not speak of bytes that
  are under way nor of responses that are still to be written. `AnswerInv` adds both:
  `Flows` says that the bytes on the connection are the frames of the messages that
  were sent and not yet read, and `Progress` that what was sent is the answer up to
  what is pending, or up to a row that could not be encoded and then an error.
  `WireIsAlwaysFramed` is `Flows`; `ResultSetIsAlwaysRead` looks at what both say when the
  client has read everything.
  Of the executors (`LastSQLExecutorIsServed`): each slot outside `late` that holds a SQL
  executor holds the server's; the one that works through another executor needs that
  SetSQLExecutor reaches it there. That is about `ExecutorsSpec`, the part that configures,
  which `Answer` implements (`AnswerImplementsExecutors`); so it holds of the statements of
  `Answer` too (`AnswersComeFromLastSQLExecutor`).

* **`TableStoreProofs`.** The loops of Insert, Select and Delete are functions defined by
  recursion on the number of turns. What holds after any number of turns is proved from a
  least counterexample: the set of turns it fails for would have a least element
  (`NatMin`, from the well-foundedness of `<`), so no induction scheme over predicates is
  needed. `Loop` says that such a loop has a state after each turn, `InnerLoop`,
  `OuterLoop`, `InsertLoop` and `SelectLoop` that this is what the model computes.
  `TableTyped` rests on `TableInv`: a slice that a statement still holds points into an
  array that may have been grown out of or shifted since, and every cell in it holds a row
  that was made, because `Delete` overwrites a cell only with another row (`Shrunk`) and
  `append` only with a new one (`Filled`). `DeletesDoNotPanic` and `TableIsRowList` add
  that the rows of the table are in the order they were made (`Ordered`) and that no two
  have the same key (`KeysUnique`, kept because clients do so and no UPDATE sets a key).
  Then at most one row equals the one that is looked for, `DeleteEqualFinds` says which
  state the inner loop has before and behind it, and each turn of the outer loop takes out
  that row (`DeletePickedKeeps`). An UPDATE may be a function of the row, so that it
  matters that each row is changed once: the picked rows are all different (`OwnList`,
  `Once`), and `UpdatedOnce` says that a picked row is what the statement makes of what it
  was before, and any other as it was. Two hypotheses are stated with the theorems, because the
  code does not promise more: `Distinct` (with equal rows DELETE may panic) and, for the
  refinement, `WherePresent` (without a WHERE clause DELETE ranges over the array it
  shifts; `table_all` shows what happens).

Every invariant and every action property of the runs is so stated by a theorem. Only
model-checked are the liveness properties, since the prover has no ENABLED.

## What is not modelled

* The generated table of object ids (`system/oid.go`) and the types no column
  can have: constants that no operation reads. Tools, benchmarks and deployment: no state
  of the server.
* A write that fails while a COPY runs: its goroutine ends at the next read anyway.
* A SELECT from no table or from several is refused before any lookup. Rows of
  aggregates belong to the SQL library.
* Floats as texts: the digits of a number are those of a whole one.
* The spans of the tracer and log lines.
* Column lookup by letter case, secondary indexes: `TableStore` has one column that
  identifies a row and one that changes.
* The unlocked reads of `SELECT` (`RowRace`) and of the prepared maps (`MapRace`) are
  modelled by their outcomes, not at the level of the memory model.
* With equal rows DELETE may slice past its end (`table.go:104`); `table_where` has
  unique keys, which the example store does not enforce.
* Some behaviour seen while modelling has no property because nothing in the
  repository promises otherwise: after an error the loop does not skip to Sync; a client
  whose authentication failed is served; a COPY whose first message is not CopyData gets
  no answer; a row is sent without the columns that could not be converted; a
  compound WHERE clause matches every row (`row.go`); `Begin` of the default executor
  calls the SQL executor's `Commit` (`executor_query.go:53`).

## Plan

Done: the components above. Left, in order:

1. An abstract session (one request, one answer, a status) that `Session` implements.
2. An abstract COPY (rows in, a count or an error out) that `CopyIn` implements.
