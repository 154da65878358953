------------------------------- MODULE Catalog -----------------------------
(***************************************************************************)
(* The databases and tables of the example store (store.go, database.go,   *)
(* databases.go), as the statements of a Query reach them: the switch of   *)
(* server.Query (server_query_handler.go), the default executors           *)
(* (executor_query.go, executor_query_ex.go), and the store's functions.   *)
(*                                                                         *)
(* Databases and tables are objects in maps that no lock guards.  Every    *)
(* statement looks its objects up by their names and then acts on what it  *)
(* has found, or on the name, whatever other connections have done in      *)
(* between.  What is in a row, and which rows a condition picks, is the    *)
(* subject of TableStore.                                                  *)
(***************************************************************************)
EXTENDS Naturals, Sequences, FiniteSets

CONSTANTS
    Conns,              \* connections; each is of the database it started with
    DbNames, TblNames,  \* names
    Database,           \* the name of the database of each connection
    Lists,              \* the lists of tables statements name
    MaxDbs, MaxTables, MaxRows,    \* bounds on the objects made, and on the rows
    MaxStatements,      \* bound on the statements
    MaxValues           \* bound on the rows that one INSERT adds

ASSUME DatabaseAssumption == Database \in [Conns -> DbNames]
ASSUME ListsAssumption    == Lists \subseteq Seq(TblNames) \ {<<>>}
ASSUME BoundsAssumption   == /\ MaxDbs \in Nat /\ MaxTables \in Nat
                             /\ MaxRows \in Nat /\ MaxStatements \in Nat
                             /\ MaxValues \in Nat

Dbs    == 1 .. MaxDbs
Tables == 1 .. MaxTables
Nil    == 0

None   == [type |-> "none"]     \* no statement runs
Single == {<<n>> : n \in TblNames}

\* An INSERT of good rows that the table accepts, in front of one that it does
\* not, or of nothing else: then it is ok.
Inserts == {s \in [type : {"INSERT"}, list : Single, good : 0 .. MaxValues, ok : BOOLEAN] :
                s.ok => s.good > 0}

\* CREATE and DROP INDEX are made ALTER TABLEs, ok if the schema takes the
\* alteration; UPDATE is a SELECT for the catalog.
Statement ==
         [type : {"CREATE DATABASE", "DROP DATABASE"}, name : DbNames, unless : BOOLEAN]
    \cup [type : {"CREATE TABLE"}, list : Single, unless : BOOLEAN]
    \cup [type : {"DROP TABLE"}, list : Lists, unless : BOOLEAN]
    \cup Inserts \cup [type : {"ALTER TABLE"}, list : Single, ok : BOOLEAN]
    \cup [type : {"SELECT", "DELETE"}, list : Single]
    \cup [type : {"TRUNCATE"}, list : Lists]
    \cup [type : {"SYSTEM SELECT"}, list : Lists, name : DbNames]
    \cup [type : {"ALTER DATABASE", "VACUUM"}]

VARIABLES
    databases,  \* the map of the store: a name to a database, or to Nil
    madeDbs,    \* how many databases have been made
    tables,     \* the map of each database: a name to a table, or to Nil
    madeTables,
    rows,       \* what each table holds
    madeRows,
    asked,      \* how many statements have been sent
    statement,  \* the statement of each connection that runs
    more,       \* how many of its Query are still to come
    at,         \* where the goroutine of each connection is
    db, tbl,    \* what its statement has looked up
    left,       \* the tables of its list that are still to come
    changed,    \* how many tables of the list it has dropped or emptied
    answer,     \* the last answer to a statement of the Query
    promised,   \* tables and rows acknowledged, and not removed since
    leftover,   \* rows that an INSERT answered with an error has left, likewise
    torn,       \* the tables for which an acknowledgement was worth nothing
    crashed     \* two connections met in a map

mapVars  == <<databases, madeDbs, tables, madeTables>>
rowVars  == <<rows, madeRows>>
connVars == <<asked, statement, more, at, db, tbl, left, changed, answer>>
owedVars == <<promised, leftover>>
vars     == <<mapVars, rowVars, connVars, owedVars, torn, crashed>>

TypeOK ==
    /\ madeDbs \in 0 .. MaxDbs /\ madeTables \in 0 .. MaxTables /\ madeRows \in 0 .. MaxRows
    /\ databases \in [DbNames -> 0 .. madeDbs]
    /\ tables \in [Dbs -> [TblNames -> 0 .. madeTables]]
    /\ rows \in [Tables -> SUBSET (1 .. MaxRows)]
    /\ asked \in 0 .. MaxStatements
    /\ statement \in [Conns -> Statement \cup {None}]
    /\ more \in [Conns -> 0 .. MaxStatements]
    /\ at \in [Conns -> {"idle", "begin", "db", "table", "act", "again"}]
    /\ db \in [Conns -> 0 .. madeDbs] /\ tbl \in [Conns -> 0 .. madeTables]
    /\ left \in [Conns -> Seq(TblNames)]
    /\ changed \in [Conns -> Nat]
    /\ answer \in [Conns -> {"none", "OK", "E"}]
    /\ promised \subseteq DbNames \X TblNames \X (0 .. MaxRows)
    /\ leftover \subseteq DbNames \X TblNames \X (1 .. MaxRows)
    /\ torn \subseteq DbNames \X TblNames
    /\ crashed \in BOOLEAN

Init ==
    /\ databases = [n \in DbNames |-> Nil] /\ madeDbs = 0
    /\ tables = [d \in Dbs |-> [n \in TblNames |-> Nil]] /\ madeTables = 0
    /\ rows = [t \in Tables |-> {}] /\ madeRows = 0
    /\ asked = 0
    /\ statement = [c \in Conns |-> None] /\ more = [c \in Conns |-> 0]
    /\ at = [c \in Conns |-> "idle"]
    /\ db = [c \in Conns |-> Nil] /\ tbl = [c \in Conns |-> Nil]
    /\ left = [c \in Conns |-> <<>>]
    /\ changed = [c \in Conns |-> 0]
    /\ answer = [c \in Conns |-> "none"]
    /\ promised = {} /\ leftover = {} /\ torn = {} /\ crashed = FALSE

-----------------------------------------------------------------------------
(***************************************************************************)
(* Running the statements of a Query.  Nothing looks ahead, so that each is *)
(* chosen when it begins.                                                  *)
(***************************************************************************)
Is(c, types) == statement[c].type \in types
Name(c)      == Head(left[c])           \* the table it has come to

\* The database a statement looks up.
DbOf(c) == IF Is(c, {"CREATE DATABASE", "DROP DATABASE", "SYSTEM SELECT"})
           THEN statement[c].name ELSE Database[c]

TableStatements == {"CREATE TABLE", "DROP TABLE", "INSERT", "ALTER TABLE", "SELECT", "DELETE",
                    "TRUNCATE", "SYSTEM SELECT"}

Begin(c, s) ==
    /\ statement' = [statement EXCEPT ![c] = s]
    /\ at' = [at EXCEPT ![c] = "db"]
    /\ left' = [left EXCEPT ![c] = IF s.type \in TableStatements THEN s.list ELSE <<>>]
    /\ UNCHANGED <<db, tbl, changed>>

\* A Query of n statements, and the first of them.
Query(c, n, s) ==
    /\ ~crashed
    /\ at[c] = "idle"
    /\ asked + n <= MaxStatements
    /\ Begin(c, s)
    /\ asked' = asked + n
    /\ more' = [more EXCEPT ![c] = n - 1]
    /\ answer' = [answer EXCEPT ![c] = "none"]
    /\ UNCHANGED <<mapVars, rowVars, owedVars, torn, crashed>>

NextStatement(c, s) ==
    /\ ~crashed
    /\ at[c] = "begin"
    /\ Begin(c, s)
    /\ more' = [more EXCEPT ![c] = @ - 1]
    /\ UNCHANGED <<mapVars, rowVars, asked, answer, owedVars, torn, crashed>>

\* Variant: the next statement begins after an error, too.
AnswerGoesOn(c, a) ==
    /\ answer' = [answer EXCEPT ![c] = a]
    /\ IF more[c] > 0
       THEN at' = [at EXCEPT ![c] = "begin"] /\ UNCHANGED more
       ELSE at' = [at EXCEPT ![c] = "idle"] /\ UNCHANGED more
    /\ statement' = [statement EXCEPT ![c] = None]
    /\ db' = [db EXCEPT ![c] = Nil] /\ tbl' = [tbl EXCEPT ![c] = Nil]
    /\ left' = [left EXCEPT ![c] = <<>>]
    /\ changed' = [changed EXCEPT ![c] = 0]
    /\ UNCHANGED asked

\* The answer is written, and the next statement begins: not after an error.
Answer(c, a) ==
    /\ answer' = [answer EXCEPT ![c] = a]
    /\ IF more[c] > 0 /\ a = "OK"
       THEN at' = [at EXCEPT ![c] = "begin"] /\ UNCHANGED more
       ELSE at' = [at EXCEPT ![c] = "idle"] /\ more' = [more EXCEPT ![c] = 0]
    /\ statement' = [statement EXCEPT ![c] = None]
    /\ db' = [db EXCEPT ![c] = Nil] /\ tbl' = [tbl EXCEPT ![c] = Nil]
    /\ left' = [left EXCEPT ![c] = <<>>]
    /\ changed' = [changed EXCEPT ![c] = 0]
    /\ UNCHANGED asked

Goto(c, place) ==
    /\ at' = [at EXCEPT ![c] = place]
    /\ UNCHANGED <<asked, statement, more, left, changed, answer>>

\* The table is done with, n of its kind having been changed: on to the next
\* of the list, looked up from place, or the end of the statement.
NextTable(c, place, n) ==
    IF Len(left[c]) > 1
    THEN /\ left' = [left EXCEPT ![c] = Tail(@)]
         /\ changed' = [changed EXCEPT ![c] = @ + n]
         /\ at' = [at EXCEPT ![c] = place]
         /\ UNCHANGED <<asked, statement, more, db, tbl, answer>>
    ELSE Answer(c, "OK")

-----------------------------------------------------------------------------
(***************************************************************************)
(* The statements.  The answer of a lookup that decides, and the lookups.  *)
(***************************************************************************)

\* IF EXISTS and IF NOT EXISTS make a success of what is an error without.
Unless(c) == IF statement[c].unless THEN "OK" ELSE "E"

\* Statements that reach no map: one is not implemented, one does nothing.
NoLookup(c) ==
    /\ ~crashed
    /\ at[c] = "db" /\ Is(c, {"ALTER DATABASE", "VACUUM"})
    /\ Answer(c, IF statement[c].type = "VACUUM" THEN "OK" ELSE "E")
    /\ UNCHANGED <<mapVars, rowVars, owedVars, torn, crashed>>

LookupDatabase(c) ==
    LET found == databases[DbOf(c)]
    IN  /\ ~crashed
        /\ at[c] = "db" /\ ~Is(c, {"ALTER DATABASE", "VACUUM"})
        /\ \/ Is(c, {"CREATE DATABASE"}) /\ found # Nil /\ Answer(c, Unless(c))
           \/ Is(c, {"CREATE DATABASE"}) /\ found = Nil /\ Goto(c, "act") /\ UNCHANGED <<db, tbl>>
           \/ Is(c, {"DROP DATABASE"}) /\ found = Nil /\ Answer(c, Unless(c))
           \/ Is(c, {"DROP DATABASE"}) /\ found # Nil /\ Goto(c, "act") /\ UNCHANGED <<db, tbl>>
           \/ Is(c, TableStatements) /\ found = Nil /\ Answer(c, "E")
           \/ /\ Is(c, TableStatements) /\ found # Nil
              /\ db' = [db EXCEPT ![c] = found]
              /\ Goto(c, "table") /\ UNCHANGED tbl
        /\ UNCHANGED <<mapVars, rowVars, owedVars, torn, crashed>>

\* The schemas of a list of tables, each looked up in its database anew.
SystemSelect(c) == Is(c, {"SYSTEM SELECT"}) /\ NextTable(c, "db", 0)

LookupTable(c) ==
    LET found == tables[db[c]][Name(c)]
    IN  /\ ~crashed
        /\ at[c] = "table"
        /\ \/ Is(c, {"CREATE TABLE"}) /\ found # Nil /\ Answer(c, Unless(c))
           \/ Is(c, {"CREATE TABLE"}) /\ found = Nil /\ Goto(c, "act") /\ UNCHANGED <<db, tbl>>
           \/ Is(c, {"DROP TABLE"}) /\ found = Nil /\ statement[c].unless /\ NextTable(c, "table", 0)
           \/ Is(c, {"DROP TABLE"}) /\ found = Nil /\ ~statement[c].unless /\ Answer(c, "E")
           \/ ~Is(c, {"CREATE TABLE", "DROP TABLE"}) /\ found = Nil /\ Answer(c, "E")
           \/ SystemSelect(c) /\ found # Nil
           \/ /\ ~Is(c, {"CREATE TABLE", "SYSTEM SELECT"}) /\ found # Nil
              /\ tbl' = [tbl EXCEPT ![c] = found]
              /\ Goto(c, "act") /\ UNCHANGED db
        /\ UNCHANGED <<mapVars, rowVars, owedVars, torn, crashed>>

-----------------------------------------------------------------------------
(***************************************************************************)
(* What the statements do with what they have found.                       *)
(***************************************************************************)

\* The table of a name, as a statement that begins now would find it.
TableOf(d, n) == IF databases[d] = Nil THEN Nil ELSE tables[databases[d]][n]

Act(c, types)   == ~crashed /\ at[c] = "act" /\ Is(c, types)
Again(c, types) == ~crashed /\ at[c] = "again" /\ Is(c, types)

CreateDatabase(c) ==
    /\ Act(c, {"CREATE DATABASE"})
    /\ madeDbs < MaxDbs
    /\ madeDbs' = madeDbs + 1
    /\ databases' = [databases EXCEPT ![DbOf(c)] = madeDbs + 1]
    /\ torn' = IF databases[DbOf(c)] = Nil THEN torn ELSE torn \cup {DbOf(c)} \X TblNames
    /\ Answer(c, "OK")
    /\ UNCHANGED <<tables, madeTables, rowVars, owedVars, crashed>>

\* Databases.DropDatabase looks the name up once more, and then deletes it.
DropDatabase(c) ==
    /\ Act(c, {"DROP DATABASE"})
    /\ IF databases[DbOf(c)] = Nil THEN Answer(c, "E")
       ELSE Goto(c, "again") /\ UNCHANGED <<db, tbl>>
    /\ UNCHANGED <<mapVars, rowVars, owedVars, torn, crashed>>

RemoveDatabase(c) ==
    /\ Again(c, {"DROP DATABASE"})
    /\ databases' = [databases EXCEPT ![DbOf(c)] = Nil]
    /\ promised' = {p \in promised : p[1] # DbOf(c)}
    /\ leftover' = {p \in leftover : p[1] # DbOf(c)}
    /\ Answer(c, "OK")
    /\ UNCHANGED <<madeDbs, tables, madeTables, rowVars, torn, crashed>>

\* AddTable replaces what has come under the name since the lookup, and adds
\* to a database that may have been dropped.
CreateTable(c) ==
    /\ Act(c, {"CREATE TABLE"})
    /\ madeTables < MaxTables
    /\ madeTables' = madeTables + 1
    /\ tables' = [tables EXCEPT ![db[c]][Name(c)] = madeTables + 1]
    /\ promised' = promised \cup {<<Database[c], Name(c), 0>>}
    /\ torn' = IF databases[Database[c]] = db[c] /\ tables[db[c]][Name(c)] = Nil
               THEN torn ELSE torn \cup {<<Database[c], Name(c)>>}
    /\ Answer(c, "OK")
    /\ UNCHANGED <<databases, madeDbs, rowVars, leftover, crashed>>

\* What is owed of the tables of a name goes with the name.
Without(owed, c) == IF databases[Database[c]] = db[c]
                    THEN {p \in owed : ~(p[1] = Database[c] /\ p[2] = Name(c))}
                    ELSE owed

\* Variant: it is the first table of the list that is removed, each time.
DropTableFirst(c) ==
    /\ Act(c, {"DROP TABLE"})
    /\ tables' = [tables EXCEPT ![db[c]][Head(statement[c].list)] = Nil]
    /\ promised' = Without(promised, c) /\ leftover' = Without(leftover, c)
    /\ Goto(c, "again")
    /\ UNCHANGED <<databases, madeDbs, madeTables, rowVars, db, tbl, torn, crashed>>

\* The table of the name is removed, whichever that is by now.
DropTable(c) ==
    /\ Act(c, {"DROP TABLE"})
    /\ tables' = [tables EXCEPT ![db[c]][Name(c)] = Nil]
    /\ promised' = Without(promised, c) /\ leftover' = Without(leftover, c)
    /\ Goto(c, "again")
    /\ UNCHANGED <<databases, madeDbs, madeTables, rowVars, db, tbl, torn, crashed>>

\* Database.DropTable looks whether the name is gone.
ConfirmDrop(c) ==
    /\ Again(c, {"DROP TABLE"})
    /\ IF tables[db[c]][Name(c)] = Nil THEN NextTable(c, "table", 1) ELSE Answer(c, "E")
    /\ UNCHANGED <<mapVars, rowVars, owedVars, torn, crashed>>

\* The next n rows, appended to the table the INSERT has found.
AppendRows(c, n) ==
    /\ madeRows + n <= MaxRows
    /\ madeRows' = madeRows + n
    /\ rows' = [rows EXCEPT ![tbl[c]] = @ \cup (madeRows + 1 .. madeRows + n)]

\* Variant: a row is appended before its values are looked at.
InsertUnchecked(c) ==
    /\ Act(c, {"INSERT"})
    /\ AppendRows(c, IF statement[c].ok THEN statement[c].good ELSE statement[c].good + 1)
    /\ Answer(c, IF statement[c].ok THEN "OK" ELSE "E")
    /\ UNCHANGED <<mapVars, owedVars, torn, crashed>>

\* Row by row under the lock of the table, which may have been dropped, until
\* a row is refused: the rows in front of that one stay.
Insert(c) ==
    LET new   == {Database[c]} \X {Name(c)} \X (madeRows + 1 .. madeRows + statement[c].good)
        there == TableOf(Database[c], Name(c)) = tbl[c]
    IN  /\ Act(c, {"INSERT"})
        /\ AppendRows(c, statement[c].good)
        /\ \/ /\ statement[c].ok
              /\ promised' = promised \cup new
              /\ torn' = IF there THEN torn ELSE torn \cup {<<Database[c], Name(c)>>}
              /\ Answer(c, "OK")
              /\ UNCHANGED leftover
           \/ /\ ~statement[c].ok
              /\ leftover' = IF there THEN leftover \cup new ELSE leftover
              /\ Answer(c, "E")
              /\ UNCHANGED <<promised, torn>>
        /\ UNCHANGED <<mapVars, crashed>>

\* UPDATE, SELECT and the alteration of a schema leave the catalog as it is.
Update(c) ==
    /\ Act(c, {"SELECT"})
    /\ Answer(c, "OK")
    /\ UNCHANGED <<mapVars, rowVars, owedVars, torn, crashed>>

AlterTable(c) ==
    /\ Act(c, {"ALTER TABLE"})
    /\ Answer(c, IF statement[c].ok THEN "OK" ELSE "E")
    /\ UNCHANGED <<mapVars, rowVars, owedVars, torn, crashed>>

\* Some rows go.  TRUNCATE is a DELETE of each table of its list.
Delete(c) ==
    /\ Act(c, {"DELETE", "TRUNCATE"})
    /\ \E gone \in SUBSET rows[tbl[c]] :
         /\ rows' = [rows EXCEPT ![tbl[c]] = @ \ gone]
         /\ promised' = promised \ ({Database[c]} \X {Name(c)} \X gone)
         /\ leftover' = leftover \ ({Database[c]} \X {Name(c)} \X gone)
    /\ NextTable(c, "db", 1)
    /\ UNCHANGED <<mapVars, madeRows, torn, crashed>>

-----------------------------------------------------------------------------
(***************************************************************************)
(* Two connections in one map, one of them to write it: Go ends the        *)
(* process when it notices.                                                *)
(***************************************************************************)
StoreMap == 0       \* the map of the databases; that of a database is its number

Reads(c)  == CASE at[c] = "db" /\ ~Is(c, {"ALTER DATABASE", "VACUUM"}) -> {StoreMap}
               [] at[c] = "act" /\ Is(c, {"DROP DATABASE"}) -> {StoreMap}
               [] at[c] = "table" -> {db[c]}
               [] at[c] = "again" /\ Is(c, {"DROP TABLE"}) -> {db[c]}
               [] OTHER -> {}
Writes(c) == CASE at[c] = "act" /\ Is(c, {"CREATE DATABASE"}) -> {StoreMap}
               [] at[c] = "again" /\ Is(c, {"DROP DATABASE"}) -> {StoreMap}
               [] at[c] = "act" /\ Is(c, {"CREATE TABLE", "DROP TABLE"}) -> {db[c]}
               [] OTHER -> {}

MapRace(c, d) ==
    /\ ~crashed
    /\ c # d
    /\ Writes(c) \cap (Reads(d) \cup Writes(d)) # {}
    /\ crashed' = TRUE
    /\ UNCHANGED <<mapVars, rowVars, connVars, owedVars, torn>>

Run(c) == \/ NoLookup(c) \/ LookupDatabase(c) \/ LookupTable(c)
          \/ CreateDatabase(c) \/ DropDatabase(c) \/ RemoveDatabase(c)
          \/ CreateTable(c) \/ DropTable(c) \/ ConfirmDrop(c)
          \/ Insert(c) \/ Update(c) \/ AlterTable(c) \/ Delete(c)

Next == \E c \in Conns :
            \/ \E s \in Statement : \/ \E n \in 1 .. MaxStatements : Query(c, n, s)
                                   \/ NextStatement(c, s)
            \/ Run(c)
            \/ \E d \in Conns : MapRace(c, d)

Spec == Init /\ [][Next]_vars

-----------------------------------------------------------------------------
(***************************************************************************)
(* Properties.                                                             *)
(***************************************************************************)

\* A Query is over when one of its statements has failed, and a statement has
\* what it works on: the database it was found in, the table that it found.
StatementsHaveObjects ==
    \A c \in Conns :
        /\ statement[c] = None <=> at[c] \in {"idle", "begin"}
        /\ at[c] = "idle" => more[c] = 0
        /\ at[c] = "begin" => more[c] > 0
        /\ answer[c] = "E" => at[c] = "idle"
        /\ (at[c] = "table" \/ (at[c] \in {"act", "again"} /\ Is(c, TableStatements))) =>
             db[c] # Nil /\ left[c] # <<>>
        /\ (at[c] \in {"act", "again"} /\ Is(c, TableStatements \ {"CREATE TABLE"})) =>
             tbl[c] # Nil

\* No table, and no database, is there under two names, and a row is in one
\* table only: connections that create at the same time never share an object.
OneNameEach ==
    /\ \A n, m \in DbNames : databases[n] # Nil /\ databases[n] = databases[m] => n = m
    /\ \A d, e \in Dbs : \A n, m \in TblNames :
          tables[d][n] # Nil /\ tables[d][n] = tables[e][m] => d = e /\ n = m
    /\ \A s, t \in Tables : s # t => rows[s] \cap rows[t] = {}

CatalogInv == TypeOK /\ StatementsHaveObjects /\ OneNameEach

Owed == promised \cup leftover

\* A table is there if and only if its CREATE was acknowledged and no DROP
\* came since, and its rows are those whose INSERT was acknowledged and those
\* that an INSERT has left in front of a row it failed at, unless a CREATE or
\* an acknowledged INSERT has acted on a lookup that was no longer true:
\* nothing else can lose, add or revive them.
CatalogIsAsAnswered ==
    \A d \in DbNames, n \in TblNames :
        <<d, n>> \notin torn =>
            /\ TableOf(d, n) # Nil <=> <<d, n, 0>> \in promised
            /\ TableOf(d, n) # Nil =>
                 rows[TableOf(d, n)] = {r \in 1 .. MaxRows : <<d, n, r>> \in Owed}

\* A statement of c ends, with an error; and what it may have changed.
Fails(c) == statement[c] # None /\ statement'[c] = None /\ answer'[c] = "E"

\* It has not come to the end of its list.
FailsMidway(c) == changed[c] = 0 \/ (/\ Is(c, {"DROP TABLE", "TRUNCATE"})
                                    /\ changed[c] < Len(statement[c].list))

\* The table it has removed has come back: it is another, of the same name.
FoundAnother(c) == at[c] = "again" => tables[db[c]][Name(c)] \notin {Nil, tbl[c]}

\* Its table has the rows in front of the one it failed at, and no other.
LeavesItsRows(c) ==
    /\ Is(c, {"INSERT"}) /\ ~statement[c].ok
    /\ \A t \in Tables \ {tbl[c]} : rows'[t] = rows[t]
    /\ rows[tbl[c]] \subseteq rows'[tbl[c]]
    /\ Cardinality(rows'[tbl[c]] \ rows[tbl[c]]) = statement[c].good

FailsInPlace ==
    \A c \in Conns : Fails(c) =>
        /\ FailsMidway(c) /\ FoundAnother(c)
        /\ UNCHANGED <<mapVars, promised>>
        /\ UNCHANGED rowVars \/ LeavesItsRows(c)

\* What a statement answered with an error leaves behind: of a DROP TABLE or
\* a TRUNCATE the tables in front of the one it failed at, and of a DROP TABLE
\* that one too if the name has been given to another table since; of an
\* INSERT the rows in front of the one it failed at; of any other nothing.
FailureLeavesItsBeginning == [][FailsInPlace]_vars

=============================================================================
