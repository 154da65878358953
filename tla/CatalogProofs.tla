--------------------------- MODULE CatalogProofs ---------------------------
(***************************************************************************)
(* Proofs about Catalog, for any connections, names and bounds: the maps   *)
(* of databases and tables are what the acknowledgements say, wherever     *)
(* nothing came between a lookup and what was done with it.                *)
(***************************************************************************)
EXTENDS Catalog, SequenceTheorems, FiniteSetTheorems, TLAPS

\* What has not been made yet is empty, and rows are numbered as they are made.
Unmade ==
    /\ \A e \in Dbs : e > madeDbs => \A n \in TblNames : tables[e][n] = Nil
    /\ \A t \in Tables : t > madeTables => rows[t] = {}
    /\ \A t \in Tables : rows[t] \subseteq 1 .. madeRows

\* How far a statement has come with its list, and which ones get how far.
Steady(c) ==
    /\ (statement[c] # None /\ Is(c, TableStatements)) =>
          left[c] # <<>> /\ changed[c] + Len(left[c]) <= Len(statement[c].list)
    /\ changed[c] > 0 => Is(c, {"DROP TABLE", "TRUNCATE"})
    /\ at[c] = "act" => ~Is(c, {"SYSTEM SELECT", "ALTER DATABASE", "VACUUM"})
    /\ at[c] = "table" => Is(c, TableStatements)
    /\ at[c] = "again" => Is(c, {"DROP TABLE", "DROP DATABASE"})

\* What a statement has looked up is under the name it looked up, or under none.
FoundDb(c) ==
    (at[c] = "table" \/ (at[c] \in {"act", "again"} /\ Is(c, TableStatements))) =>
        \A n \in DbNames : databases[n] = db[c] => n = DbOf(c)
FoundTbl(c) ==
    (at[c] = "act" /\ Is(c, TableStatements \ {"CREATE TABLE"})) =>
        \A e \in Dbs, m \in TblNames : tables[e][m] = tbl[c] => e = db[c] /\ m = Name(c)

\* A table that has been dropped is under no name.
GoneTbl(c) ==
    (at[c] = "again" /\ Is(c, {"DROP TABLE"})) =>
        \A e \in Dbs, m \in TblNames : tables[e][m] # tbl[c]

\* Nothing is owed of a name that is not there.
NothingOwed ==
    \A e \in DbNames, n \in TblNames :
        (<<e, n>> \notin torn /\ TableOf(e, n) = Nil) =>
            \A r \in 0 .. MaxRows : <<e, n, r>> \notin Owed

\* StatementsHaveObjects, of one connection.
HasObjects(c) ==
    /\ statement[c] = None <=> at[c] \in {"idle", "begin"}
    /\ at[c] = "idle" => more[c] = 0
    /\ at[c] = "begin" => more[c] > 0
    /\ answer[c] = "E" => at[c] = "idle"
    /\ (at[c] = "table" \/ (at[c] \in {"act", "again"} /\ Is(c, TableStatements))) =>
         db[c] # Nil /\ left[c] # <<>>
    /\ (at[c] \in {"act", "again"} /\ Is(c, TableStatements \ {"CREATE TABLE"})) => tbl[c] # Nil

Connection(c) == HasObjects(c) /\ Steady(c) /\ FoundDb(c) /\ FoundTbl(c) /\ GoneTbl(c)

Maps == OneNameEach /\ Unmade /\ CatalogIsAsAnswered /\ NothingOwed

CatalogIInv == TypeOK /\ (\A c \in Conns : Connection(c)) /\ Maps

-----------------------------------------------------------------------------
(***************************************************************************)
(* Types.                                                                  *)
(***************************************************************************)
LEMMA Bounds ==
    /\ MaxDbs \in Nat /\ MaxTables \in Nat /\ MaxRows \in Nat /\ MaxStatements \in Nat
    /\ MaxValues \in Nat
    /\ Database \in [Conns -> DbNames] /\ Lists \subseteq Seq(TblNames) \ {<<>>}
  BY BoundsAssumption, DatabaseAssumption, ListsAssumption

\* A list names tables; only DROP TABLE, TRUNCATE and the system's SELECT name
\* more than one.
LEMMA StatementType ==
    ASSUME NEW s \in Statement
    PROVE  /\ s # None /\ s.type # "none"
           /\ s.type \in {"CREATE DATABASE", "DROP DATABASE", "SYSTEM SELECT"} =>
                s.name \in DbNames
           /\ s.type \in TableStatements => s.list \in Seq(TblNames) /\ s.list # <<>>
           /\ s.type \in TableStatements \ {"DROP TABLE", "TRUNCATE", "SYSTEM SELECT"} =>
                Len(s.list) = 1
           /\ s.type = "INSERT" => s.good \in Nat /\ s.ok \in BOOLEAN
  <1>1. ASSUME NEW l \in Single PROVE l \in Seq(TblNames) /\ l # <<>> /\ Len(l) = 1
    <2>1. PICK n \in TblNames : l = <<n>>
      BY <1>1 DEF Single
    <2> QED
      BY <2>1
  <1>2. \A l \in Lists : l \in Seq(TblNames) /\ l # <<>>
    BY Bounds
  <1>3. \/ s.type \in {"CREATE DATABASE", "DROP DATABASE"} /\ s.name \in DbNames
        \/ /\ s.type \in {"CREATE TABLE", "INSERT", "ALTER TABLE", "SELECT", "DELETE"}
           /\ s.list \in Single
        \/ s.type \in {"DROP TABLE", "TRUNCATE"} /\ s.list \in Lists
        \/ s.type = "SYSTEM SELECT" /\ s.list \in Lists /\ s.name \in DbNames
        \/ s.type \in {"ALTER DATABASE", "VACUUM"}
    <2>1. CASE s \in [type : {"CREATE DATABASE", "DROP DATABASE"}, name : DbNames, unless : BOOLEAN]
      BY <2>1
    <2>2. CASE s \in [type : {"CREATE TABLE"}, list : Single, unless : BOOLEAN]
      BY <2>2
    <2>3. CASE s \in [type : {"DROP TABLE"}, list : Lists, unless : BOOLEAN]
      BY <2>3
    <2>4. CASE s \in Inserts \cup [type : {"ALTER TABLE"}, list : Single, ok : BOOLEAN]
      BY <2>4 DEF Inserts
    <2>5. CASE s \in [type : {"SELECT", "DELETE"}, list : Single]
      BY <2>5
    <2>6. CASE s \in [type : {"TRUNCATE"}, list : Lists]
      BY <2>6
    <2>7. CASE s \in [type : {"SYSTEM SELECT"}, list : Lists, name : DbNames]
      BY <2>7
    <2>8. CASE s \in [type : {"ALTER DATABASE", "VACUUM"}]
      BY <2>8
    <2> QED
      BY <2>1, <2>2, <2>3, <2>4, <2>5, <2>6, <2>7, <2>8 DEF Statement
  <1>4. None.type = "none"
    BY DEF None
  <1>5. s.type # "none" /\ s # None
    BY <1>3, <1>4
  <1>6. ASSUME s.type = "INSERT" PROVE s.good \in Nat /\ s.ok \in BOOLEAN
    <2>1. s \in Inserts
      BY <1>6 DEF Statement
    <2>2. 0 .. MaxValues \subseteq Nat
      BY Bounds
    <2> QED
      BY <2>1, <2>2 DEF Inserts
  <1> QED
    BY <1>1, <1>2, <1>3, <1>5, <1>6 DEF TableStatements

\* The name a statement looks up, and the table it has come to.
LEMMA NameTypes ==
    ASSUME TypeOK, NEW c \in Conns, statement[c] # None
    PROVE  /\ statement[c] \in Statement
           /\ DbOf(c) \in DbNames /\ Database[c] \in DbNames
           /\ ~Is(c, {"CREATE DATABASE", "DROP DATABASE", "SYSTEM SELECT"}) => DbOf(c) = Database[c]
           /\ left[c] \in Seq(TblNames)
           /\ left[c] # <<>> => Name(c) \in TblNames /\ Len(left[c]) \in Nat \ {0}
                                  /\ Tail(left[c]) \in Seq(TblNames)
                                  /\ Len(Tail(left[c])) = Len(left[c]) - 1
  <1>1. statement[c] \in Statement /\ left[c] \in Seq(TblNames)
    BY DEF TypeOK
  <1>2. DbOf(c) \in DbNames /\ Database[c] \in DbNames
    BY <1>1, StatementType, Bounds DEF DbOf, Is
  <1>3. ~Is(c, {"CREATE DATABASE", "DROP DATABASE", "SYSTEM SELECT"}) => DbOf(c) = Database[c]
    BY DEF DbOf
  <1>4. left[c] # <<>> => /\ Head(left[c]) \in TblNames /\ Len(left[c]) \in Nat \ {0}
                          /\ Tail(left[c]) \in Seq(TblNames)
                          /\ Len(Tail(left[c])) = Len(left[c]) - 1
    BY <1>1, HeadTailProperties, EmptySeq, LenProperties
  <1> QED
    BY <1>1, <1>2, <1>3, <1>4 DEF Name

-----------------------------------------------------------------------------
(***************************************************************************)
(* What an action does to its connection, and leaves of the others.        *)
(***************************************************************************)
Places == {"idle", "begin", "db", "table", "act", "again"}

ConnTypes ==
    /\ asked \in 0 .. MaxStatements
    /\ statement \in [Conns -> Statement \cup {None}]
    /\ more \in [Conns -> 0 .. MaxStatements]
    /\ at \in [Conns -> Places]
    /\ left \in [Conns -> Seq(TblNames)]
    /\ changed \in [Conns -> Nat]
    /\ answer \in [Conns -> {"none", "OK", "E"}]
    /\ db \in [Conns -> 0 .. MaxDbs] /\ tbl \in [Conns -> 0 .. MaxTables]

Still(b) ==
    /\ statement'[b] = statement[b] /\ more'[b] = more[b] /\ at'[b] = at[b]
    /\ db'[b] = db[b] /\ tbl'[b] = tbl[b] /\ left'[b] = left[b]
    /\ changed'[b] = changed[b] /\ answer'[b] = answer[b]
Others(c) == \A b \in Conns \ {c} : Still(b)

LEMMA ConnTypesOf == TypeOK => ConnTypes
  BY Bounds DEF TypeOK, ConnTypes, Places

LEMMA BeginDoes ==
    ASSUME ConnTypes, NEW c \in Conns, NEW s \in Statement, Begin(c, s)
    PROVE  /\ statement' \in [Conns -> Statement \cup {None}] /\ at' \in [Conns -> Places]
           /\ left' \in [Conns -> Seq(TblNames)]
           /\ statement'[c] = s /\ at'[c] = "db"
           /\ s.type \in TableStatements => left'[c] = s.list
           /\ \A b \in Conns \ {c} : /\ statement'[b] = statement[b] /\ at'[b] = at[b]
                                     /\ left'[b] = left[b]
           /\ db' = db /\ tbl' = tbl /\ changed' = changed
  <1>1. s.type \in TableStatements => s.list \in Seq(TblNames)
    BY StatementType
  <1>2. (IF s.type \in TableStatements THEN s.list ELSE <<>>) \in Seq(TblNames)
    BY <1>1
  <1> QED
    BY <1>2 DEF Begin, ConnTypes, Places

LEMMA AnswerDoes ==
    ASSUME ConnTypes, NEW c \in Conns, NEW a \in {"OK", "E"}, Answer(c, a)
    PROVE  /\ ConnTypes' /\ Others(c)
           /\ statement'[c] = None /\ answer'[c] = a /\ changed'[c] = 0
           /\ \/ at'[c] = "begin" /\ a = "OK" /\ more'[c] > 0
              \/ at'[c] = "idle" /\ more'[c] = 0
  <1>1. ConnTypes'
    <2>1. /\ statement' \in [Conns -> Statement \cup {None}]
          /\ answer' \in [Conns -> {"none", "OK", "E"}]
      BY DEF Answer, ConnTypes
    <2>4. at' \in [Conns -> Places]
      BY DEF Answer, ConnTypes, Places
    <2>5. more' \in [Conns -> 0 .. MaxStatements]
      <3>1. more' = more \/ more' = [more EXCEPT ![c] = 0]
        BY DEF Answer
      <3>2. 0 \in 0 .. MaxStatements
        BY Bounds
      <3>3. more \in [Conns -> 0 .. MaxStatements]
        BY DEF ConnTypes
      <3> QED
        BY ONLY <3>1, <3>2, <3>3
    <2>2. left' \in [Conns -> Seq(TblNames)] /\ changed' \in [Conns -> Nat]
      BY DEF Answer, ConnTypes
    <2>3. db' \in [Conns -> 0 .. MaxDbs] /\ tbl' \in [Conns -> 0 .. MaxTables]
      BY Bounds DEF Answer, ConnTypes, Nil
    <2> QED
      BY <2>1, <2>2, <2>3, <2>4, <2>5 DEF ConnTypes, Answer
  <1>2. Others(c)
    BY DEF Answer, ConnTypes, Others, Still
  <1> QED
    BY <1>1, <1>2 DEF Answer, ConnTypes

LEMMA GotoDoes ==
    ASSUME ConnTypes, NEW c \in Conns, NEW place \in Places, Goto(c, place),
           db' \in [Conns -> 0 .. MaxDbs], tbl' \in [Conns -> 0 .. MaxTables],
           \A b \in Conns \ {c} : db'[b] = db[b] /\ tbl'[b] = tbl[b]
    PROVE  /\ ConnTypes' /\ Others(c) /\ at'[c] = place
           /\ UNCHANGED <<asked, statement, more, left, changed, answer>>
  BY DEF Goto, ConnTypes, Others, Still

LEMMA NextTableDoes ==
    ASSUME ConnTypes, NEW c \in Conns, NEW place \in Places, NEW n \in Nat,
           NextTable(c, place, n), statement[c] # None, left[c] # <<>>
    PROVE  /\ ConnTypes' /\ Others(c)
           /\ \/ /\ Len(left[c]) > 1 /\ at'[c] = place /\ changed'[c] = changed[c] + n
                 /\ left'[c] \in Seq(TblNames) /\ left'[c] # <<>>
                 /\ Len(left'[c]) = Len(left[c]) - 1
                 /\ UNCHANGED <<statement, more, db, tbl, answer>>
              \/ Answer(c, "OK")
  <1>1. CASE Len(left[c]) > 1
    <2>1. left[c] \in Seq(TblNames)
      BY DEF ConnTypes
    <2>2. /\ Tail(left[c]) \in Seq(TblNames) /\ Len(Tail(left[c])) = Len(left[c]) - 1
          /\ Len(left[c]) \in Nat
      <3>1. left[c] # <<>>
        OBVIOUS
      <3>2. Tail(left[c]) \in Seq(TblNames) /\ Len(Tail(left[c])) = Len(left[c]) - 1
        BY ONLY <2>1, <3>1, HeadTailProperties
      <3>3. Len(left[c]) \in Nat
        BY ONLY <2>1, LenProperties
      <3> QED
        BY <3>2, <3>3
    <2>3. Tail(left[c]) # <<>>
      <3>1. Len(Tail(left[c])) # 0
        <4>1. PICK k : k = Len(left[c])
          OBVIOUS
        <4>2. PICK l : l = Len(Tail(left[c]))
          OBVIOUS
        <4>3. k \in Nat /\ k > 1 /\ l = k - 1
          BY <1>1, <2>2, <4>1, <4>2, Zenon
        <4>4. l # 0
          BY ONLY <4>3
        <4> QED
          BY <4>2, <4>4, Zenon
      <3>2. Len(<<>>) = 0
        OBVIOUS
      <3> QED
        BY <3>1, <3>2, Zenon
    <2>4. /\ left' = [left EXCEPT ![c] = Tail(@)]
          /\ changed' = [changed EXCEPT ![c] = @ + n]
          /\ at' = [at EXCEPT ![c] = place]
          /\ UNCHANGED <<asked, statement, more, db, tbl, answer>>
      BY <1>1 DEF NextTable
    <2>5. left'[c] = Tail(left[c]) /\ changed'[c] = changed[c] + n /\ at'[c] = place
      BY <2>4 DEF ConnTypes
    <2>6. ConnTypes'
      BY <2>2, <2>4 DEF ConnTypes
    <2>7. Others(c)
      BY <2>4 DEF ConnTypes, Others, Still
    <2> QED
      BY <1>1, <2>2, <2>3, <2>4, <2>5, <2>6, <2>7
  <1>2. CASE ~(Len(left[c]) > 1)
    BY <1>2, AnswerDoes DEF NextTable
  <1> QED
    BY <1>1, <1>2

-----------------------------------------------------------------------------
(***************************************************************************)
(* The invariant is put together from what is the catalogue's, and what is *)
(* a connection's.                                                         *)
(***************************************************************************)
MapTypes ==
    /\ madeDbs \in 0 .. MaxDbs /\ madeTables \in 0 .. MaxTables /\ madeRows \in 0 .. MaxRows
    /\ databases \in [DbNames -> 0 .. madeDbs]
    /\ tables \in [Dbs -> [TblNames -> 0 .. madeTables]]
    /\ rows \in [Tables -> SUBSET (1 .. MaxRows)]
    /\ promised \subseteq DbNames \X TblNames \X (0 .. MaxRows)
    /\ leftover \subseteq DbNames \X TblNames \X (1 .. MaxRows)
    /\ torn \subseteq DbNames \X TblNames
    /\ crashed \in BOOLEAN

FoundIsMade(c) == db[c] \in 0 .. madeDbs /\ tbl[c] \in 0 .. madeTables

LEMMA TypeParts ==
    /\ TypeOK <=> MapTypes /\ ConnTypes /\ \A c \in Conns : FoundIsMade(c)
    /\ TypeOK' <=> MapTypes' /\ ConnTypes' /\ \A c \in Conns : FoundIsMade(c)'
  <1>1. TypeOK => MapTypes /\ ConnTypes /\ \A c \in Conns : FoundIsMade(c)
    BY ConnTypesOf DEF TypeOK, MapTypes, FoundIsMade
  <1>2. (MapTypes /\ ConnTypes /\ \A c \in Conns : FoundIsMade(c)) => TypeOK
    <2> SUFFICES ASSUME MapTypes, ConnTypes, \A c \in Conns : FoundIsMade(c) PROVE TypeOK
      OBVIOUS
    <2>1. db \in [Conns -> 0 .. madeDbs] /\ tbl \in [Conns -> 0 .. madeTables]
      BY DEF ConnTypes, FoundIsMade
    <2> QED
      BY <2>1 DEF MapTypes, ConnTypes, TypeOK, Places
  <1>3. (TypeOK => MapTypes /\ ConnTypes /\ \A c \in Conns : FoundIsMade(c))'
    BY <1>1, PTL
  <1>4. ((MapTypes /\ ConnTypes /\ \A c \in Conns : FoundIsMade(c)) => TypeOK)'
    BY <1>2, PTL
  <1> QED
    BY <1>1, <1>2, <1>3, <1>4

Catalogue == <<mapVars, rowVars, owedVars, torn>>

\* Names are only lost, or given to what is new.
NothingMoves ==
    /\ madeDbs' \in Nat /\ madeDbs <= madeDbs'
    /\ madeTables' \in Nat /\ madeTables <= madeTables'
    /\ \A n \in DbNames :
          databases'[n] = databases[n] \/ databases'[n] = Nil \/ databases'[n] > madeDbs
    /\ \A e \in Dbs, m \in TblNames :
          tables'[e][m] = tables[e][m] \/ tables'[e][m] = Nil \/ tables'[e][m] > madeTables

LEMMA OthersKeep ==
    ASSUME CatalogIInv, NEW c \in Conns, Others(c), NothingMoves, NEW b \in Conns \ {c}
    PROVE  Connection(b)' /\ FoundIsMade(b)'
  <1>1. Still(b) /\ Connection(b) /\ TypeOK
    BY DEF Others, CatalogIInv
  <1>2. db[b] \in 0 .. madeDbs /\ tbl[b] \in 0 .. madeTables /\ madeDbs \in Nat /\ madeTables \in Nat
    BY <1>1 DEF TypeOK
  <1>3. HasObjects(b)' /\ Steady(b)'
    BY <1>1 DEF Still, Connection, HasObjects, Steady, Is
  <1>4. (DbOf(b) = DbOf(b)') /\ (Name(b) = Name(b)')
    BY <1>1 DEF Still, DbOf, Name, Is
  <1>5. FoundDb(b)'
    <2>1. SUFFICES ASSUME (\/ at[b] = "table"
                           \/ at[b] \in {"act", "again"} /\ Is(b, TableStatements))',
                          NEW n \in DbNames, databases'[n] = db'[b]
                   PROVE  n = DbOf(b)'
      BY DEF FoundDb
    <2>2. at[b] = "table" \/ (at[b] \in {"act", "again"} /\ Is(b, TableStatements))
      BY <1>1, <2>1 DEF Still, Is
    <2>3. db[b] # Nil /\ db'[b] = db[b]
      BY <1>1, <2>2 DEF Connection, HasObjects, Still
    <2>4. databases[n] = db[b]
      BY <1>2, <2>1, <2>3 DEF NothingMoves
    <2> QED
      BY <1>1, <1>4, <2>2, <2>4 DEF Connection, FoundDb
  <1>6. FoundTbl(b)'
    <2>1. SUFFICES ASSUME (at[b] = "act" /\ Is(b, TableStatements \ {"CREATE TABLE"}))',
                          NEW e \in Dbs, NEW m \in TblNames, tables'[e][m] = tbl'[b]
                   PROVE  e = db'[b] /\ m = Name(b)'
      BY DEF FoundTbl
    <2>2. at[b] = "act" /\ Is(b, TableStatements \ {"CREATE TABLE"})
      BY <1>1, <2>1 DEF Still, Is
    <2>3. tbl[b] # Nil /\ tbl'[b] = tbl[b] /\ db'[b] = db[b]
      BY <1>1, <2>2 DEF Connection, HasObjects, Still
    <2>4. tables[e][m] = tbl[b]
      <3>1. \/ tables'[e][m] = tables[e][m] \/ tables'[e][m] = Nil
            \/ tables'[e][m] > madeTables
        BY DEF NothingMoves
      <3>2. tables'[e][m] = tbl[b]
        BY <2>1, <2>3
      <3> QED
        BY <1>2, <2>3, <3>1, <3>2
    <2> QED
      BY <1>1, <1>4, <2>2, <2>3, <2>4 DEF Connection, FoundTbl
  <1>7. FoundIsMade(b)'
    BY <1>1, <1>2 DEF FoundIsMade, Still, NothingMoves
  <1>8. GoneTbl(b)'
    <2>1. SUFFICES ASSUME (at[b] = "again" /\ Is(b, {"DROP TABLE"}))',
                          NEW e \in Dbs, NEW m \in TblNames, tables'[e][m] = tbl'[b]
                   PROVE  FALSE
      BY DEF GoneTbl
    <2>2. at[b] = "again" /\ Is(b, {"DROP TABLE"})
      BY <1>1, <2>1 DEF Still, Is
    <2>3. Is(b, TableStatements \ {"CREATE TABLE"})
      BY <2>2 DEF Is, TableStatements
    <2>4. tbl[b] # Nil /\ tbl'[b] = tbl[b] /\ tables[e][m] # tbl[b]
      BY <1>1, <2>2, <2>3 DEF Connection, HasObjects, GoneTbl, Still
    <2>5. \/ tables'[e][m] = tables[e][m] \/ tables'[e][m] = Nil
          \/ tables'[e][m] > madeTables
      BY DEF NothingMoves
    <2>6. tables'[e][m] = tbl[b] /\ tables'[e][m] # Nil /\ tables'[e][m] # tables[e][m]
      BY <2>1, <2>4
    <2>7. tbl[b] > madeTables
      BY <2>5, <2>6, Zenon
    <2> QED
      BY ONLY <1>2, <2>7
  <1> QED
    BY <1>3, <1>5, <1>6, <1>7, <1>8 DEF Connection

\* A step of c is right if it is right for c, and for the catalogue.
LEMMA StepOf ==
    ASSUME CatalogIInv, NEW c \in Conns, Others(c), ConnTypes', MapTypes', NothingMoves,
           Connection(c)', FoundIsMade(c)', Maps'
    PROVE  CatalogIInv'
  <1>1. \A b \in Conns : Connection(b)' /\ FoundIsMade(b)'
    BY OthersKeep
  <1> QED
    BY <1>1, TypeParts DEF CatalogIInv

LEMMA MapsKept ==
    ASSUME CatalogIInv, UNCHANGED Catalogue, crashed' \in BOOLEAN
    PROVE  MapTypes' /\ Maps' /\ NothingMoves
  <1> USE DEF Catalogue, mapVars, rowVars, owedVars
  <1>1. TypeOK /\ Maps
    BY DEF CatalogIInv
  <1>2. MapTypes'
    BY <1>1, TypeParts DEF MapTypes
  <1>3. OneNameEach' /\ Unmade'
    BY <1>1 DEF Maps, OneNameEach, Unmade
  <1>4. CatalogIsAsAnswered' /\ NothingOwed'
    BY <1>1 DEF Maps, CatalogIsAsAnswered, NothingOwed, TableOf, Owed
  <1>5. NothingMoves
    BY <1>1 DEF TypeOK, NothingMoves
  <1> QED
    BY <1>2, <1>3, <1>4, <1>5 DEF Maps

\* A statement that is over leaves its connection in order.
LEMMA AnswerKeeps ==
    ASSUME CatalogIInv, NEW c \in Conns, NEW a \in {"OK", "E"}, Answer(c, a), NothingMoves
    PROVE  ConnTypes' /\ Others(c) /\ Connection(c)' /\ FoundIsMade(c)'
  <1>1. ConnTypes
    BY TypeParts DEF CatalogIInv
  <1>2. /\ ConnTypes' /\ Others(c)
        /\ statement'[c] = None /\ answer'[c] = a /\ changed'[c] = 0
        /\ \/ at'[c] = "begin" /\ a = "OK" /\ more'[c] > 0
           \/ at'[c] = "idle" /\ more'[c] = 0
    BY <1>1, AnswerDoes
  <1>3. None.type = "none"
    BY DEF None
  <1>4. HasObjects(c)' /\ FoundDb(c)' /\ FoundTbl(c)' /\ GoneTbl(c)'
    BY <1>2 DEF HasObjects, FoundDb, FoundTbl, GoneTbl
  <1>5. Steady(c)'
    BY <1>2, <1>3 DEF Steady, Is
  <1>6. FoundIsMade(c)'
    <2>1. db'[c] = 0 /\ tbl'[c] = 0
      BY <1>1 DEF Answer, ConnTypes, Nil
    <2>2. madeDbs' \in Nat /\ madeTables' \in Nat
      BY DEF NothingMoves
    <2> QED
      BY <2>1, <2>2 DEF FoundIsMade
  <1> QED
    BY <1>2, <1>4, <1>5, <1>6 DEF Connection

-----------------------------------------------------------------------------
(***************************************************************************)
(* Steps that leave the catalogue as it is: a statement begins, looks up,  *)
(* or is answered.                                                         *)
(***************************************************************************)
LEMMA BeginStep ==
    ASSUME CatalogIInv, NEW c \in Conns, NEW s \in Statement, Begin(c, s),
           at[c] \in {"idle", "begin"}, UNCHANGED <<mapVars, rowVars, owedVars, torn, crashed>>,
           asked' \in 0 .. MaxStatements, more' \in [Conns -> 0 .. MaxStatements],
           answer' \in [Conns -> {"none", "OK", "E"}], answer'[c] # "E",
           \A b \in Conns \ {c} : more'[b] = more[b] /\ answer'[b] = answer[b]
    PROVE  CatalogIInv'
  <1>1. ConnTypes /\ TypeOK /\ Connection(c) /\ FoundIsMade(c)
    BY TypeParts DEF CatalogIInv
  <1>2. /\ statement' \in [Conns -> Statement \cup {None}] /\ at' \in [Conns -> Places]
        /\ left' \in [Conns -> Seq(TblNames)]
        /\ statement'[c] = s /\ at'[c] = "db"
        /\ s.type \in TableStatements => left'[c] = s.list
        /\ \A b \in Conns \ {c} : /\ statement'[b] = statement[b] /\ at'[b] = at[b]
                                  /\ left'[b] = left[b]
        /\ db' = db /\ tbl' = tbl /\ changed' = changed
    BY <1>1, BeginDoes
  <1>3. ConnTypes' /\ Others(c)
    BY <1>1, <1>2 DEF ConnTypes, Others, Still
  <1>4. statement[c] = None /\ changed[c] = 0
    <2>1. statement[c] = None
      BY <1>1 DEF Connection, HasObjects
    <2>2. None.type = "none"
      BY DEF None
    <2>3. changed[c] \in Nat /\ ~(changed[c] > 0)
      BY <1>1, <2>1, <2>2 DEF Connection, Steady, Is, ConnTypes
    <2> QED
      BY <2>1, <2>3
  <1>5. HasObjects(c)' /\ FoundDb(c)' /\ FoundTbl(c)' /\ GoneTbl(c)'
    BY <1>2, StatementType DEF HasObjects, FoundDb, FoundTbl, GoneTbl
  <1>6. Steady(c)'
    <2>1. s.type \in TableStatements => s.list # <<>> /\ Len(s.list) \in Nat
      <3>1. s.type \in TableStatements => s.list # <<>> /\ s.list \in Seq(TblNames)
        BY StatementType
      <3> QED
        BY <3>1, LenProperties
    <2> QED
      BY <1>2, <1>4, <2>1 DEF Steady, Is
  <1>7. FoundIsMade(c)'
    BY <1>1, <1>2 DEF FoundIsMade, mapVars
  <1>8. MapTypes' /\ Maps' /\ NothingMoves
    <2>1. UNCHANGED Catalogue /\ crashed' \in BOOLEAN
      BY <1>1 DEF Catalogue, TypeOK
    <2> QED
      BY <2>1, MapsKept
  <1> QED
    BY <1>3, <1>5, <1>6, <1>7, <1>8, StepOf DEF Connection

LEMMA QueryStep ==
    ASSUME CatalogIInv, NEW c \in Conns, NEW s \in Statement,
           NEW n \in 1 .. MaxStatements, Query(c, n, s)
    PROVE  CatalogIInv'
  <1>1. ConnTypes /\ MaxStatements \in Nat
    BY TypeParts, Bounds DEF CatalogIInv
  <1>2. asked' \in 0 .. MaxStatements
    <2>1. asked \in Nat /\ asked + n <= MaxStatements /\ asked' = asked + n
      BY <1>1 DEF Query, ConnTypes
    <2> QED
      BY <1>1, <2>1
  <1>3. more' \in [Conns -> 0 .. MaxStatements]
    <2>1. n - 1 \in 0 .. MaxStatements
      BY <1>1
    <2> QED
      BY <1>1, <2>1 DEF Query, ConnTypes
  <1>4. answer' \in [Conns -> {"none", "OK", "E"}] /\ answer'[c] # "E"
    BY <1>1 DEF Query, ConnTypes
  <1>5. \A b \in Conns \ {c} : more'[b] = more[b] /\ answer'[b] = answer[b]
    BY <1>1 DEF Query, ConnTypes
  <1>6. Begin(c, s) /\ at[c] = "idle" /\ UNCHANGED <<mapVars, rowVars, owedVars, torn, crashed>>
    BY DEF Query
  <1> QED
    BY <1>2, <1>3, <1>4, <1>5, <1>6, BeginStep

LEMMA NextStatementStep ==
    ASSUME CatalogIInv, NEW c \in Conns, NEW s \in Statement, NextStatement(c, s)
    PROVE  CatalogIInv'
  <1>1. ConnTypes /\ MaxStatements \in Nat /\ HasObjects(c)
    BY TypeParts, Bounds DEF CatalogIInv, Connection
  <1>2. /\ Begin(c, s) /\ at[c] = "begin"
        /\ UNCHANGED <<mapVars, rowVars, asked, answer, owedVars, torn, crashed>>
        /\ more' = [more EXCEPT ![c] = @ - 1]
    BY DEF NextStatement
  <1>3. more[c] - 1 \in 0 .. MaxStatements
    <2>1. more[c] \in 0 .. MaxStatements /\ more[c] > 0
      BY <1>1, <1>2 DEF HasObjects, ConnTypes
    <2> QED
      BY <1>1, <2>1
  <1>4. more' \in [Conns -> 0 .. MaxStatements]
    BY <1>1, <1>2, <1>3 DEF ConnTypes
  <1>5. /\ answer' \in [Conns -> {"none", "OK", "E"}] /\ answer'[c] # "E"
        /\ asked' \in 0 .. MaxStatements
    BY <1>1, <1>2 DEF HasObjects, ConnTypes
  <1>6. \A b \in Conns \ {c} : more'[b] = more[b] /\ answer'[b] = answer[b]
    BY <1>1, <1>2 DEF ConnTypes
  <1> QED
    BY <1>2, <1>4, <1>5, <1>6, BeginStep

LEMMA AnsweredStep ==
    ASSUME CatalogIInv, NEW c \in Conns, NEW a \in {"OK", "E"}, Answer(c, a),
           UNCHANGED Catalogue, UNCHANGED crashed
    PROVE  CatalogIInv'
  <1>1. MapTypes' /\ Maps' /\ NothingMoves
    BY MapsKept DEF CatalogIInv, TypeOK
  <1> QED
    BY <1>1, AnswerKeeps, StepOf

\* The lookup of a database, and the last one before a statement acts.
LEMMA GotoStep ==
    ASSUME CatalogIInv, NEW c \in Conns, NEW place \in {"table", "act", "again"}, Goto(c, place),
           statement[c] # None, at[c] \in {"db", "table", "act"},
           UNCHANGED Catalogue, UNCHANGED crashed,
           db' \in [Conns -> 0 .. MaxDbs], tbl' \in [Conns -> 0 .. MaxTables],
           \A b \in Conns \ {c} : db'[b] = db[b] /\ tbl'[b] = tbl[b],
           db'[c] \in 0 .. madeDbs, tbl'[c] \in 0 .. madeTables,
           Is(c, TableStatements) => db'[c] # Nil /\ \A n \in DbNames : databases[n] = db'[c] => n = DbOf(c),
           place = "table" => Is(c, TableStatements),
           (place = "act" /\ Is(c, TableStatements \ {"CREATE TABLE"})) =>
              tbl'[c] # Nil /\ \A e \in Dbs, m \in TblNames :
                                  tables[e][m] = tbl'[c] => e = db'[c] /\ m = Name(c),
           place = "act" => ~Is(c, {"SYSTEM SELECT", "ALTER DATABASE", "VACUUM"}),
           place = "again" => Is(c, {"DROP DATABASE"})
    PROVE  CatalogIInv'
  <1>1. ConnTypes /\ Connection(c) /\ TypeOK
    BY TypeParts DEF CatalogIInv
  <1>2. /\ ConnTypes' /\ Others(c) /\ at'[c] = place
        /\ UNCHANGED <<asked, statement, more, left, changed, answer>>
    BY <1>1, GotoDoes DEF Places
  <1>3. MapTypes' /\ Maps' /\ NothingMoves
    BY <1>1, MapsKept DEF TypeOK
  <1>4. Steady(c)'
    BY <1>1, <1>2 DEF Connection, Steady, Is
  <1>5. answer[c] # "E" /\ (Is(c, TableStatements) => left[c] # <<>>)
    BY <1>1 DEF Connection, HasObjects, Steady
  <1>6. HasObjects(c)'
    BY <1>2, <1>5 DEF HasObjects, Is, TableStatements
  <1>7. (DbOf(c) = DbOf(c)') /\ (Name(c) = Name(c)') /\ databases' = databases /\ tables' = tables
    BY <1>2 DEF DbOf, Name, Is, Catalogue, mapVars
  <1>8. FoundDb(c)' /\ FoundTbl(c)' /\ GoneTbl(c)'
    BY <1>2, <1>7 DEF FoundDb, FoundTbl, GoneTbl, Is
  <1>9. FoundIsMade(c)'
    BY DEF FoundIsMade, Catalogue, mapVars
  <1> QED
    BY <1>2, <1>3, <1>4, <1>6, <1>8, <1>9, StepOf DEF Connection

\* The rest of a list, when the catalogue may have lost a name.
Continues(c, place) ==
    /\ ConnTypes' /\ Others(c)
    /\ Len(left[c]) > 1 /\ at'[c] = place
    /\ \/ changed'[c] = changed[c]
       \/ /\ changed'[c] = changed[c] + 1
          /\ Is(c, {"DROP TABLE", "TRUNCATE"}) \/ Len(statement[c].list) = 1
    /\ left'[c] \in Seq(TblNames) /\ left'[c] # <<>>
    /\ Len(left'[c]) = Len(left[c]) - 1
    /\ UNCHANGED <<statement, more, db, tbl, answer>>

LEMMA NextTableContinues ==
    ASSUME CatalogIInv, NEW c \in Conns, NEW place \in {"table", "db"}, NEW n \in {0, 1},
           NextTable(c, place, n), statement[c] # None, Is(c, TableStatements),
           n = 1 => Is(c, {"DROP TABLE", "TRUNCATE"}) \/ Len(statement[c].list) = 1
    PROVE  Answer(c, "OK") \/ Continues(c, place)
  <1>1. ConnTypes /\ left[c] # <<>>
    BY TypeParts DEF CatalogIInv, Connection, Steady
  <1>2. \/ /\ ConnTypes' /\ Others(c)
           /\ Len(left[c]) > 1 /\ at'[c] = place /\ changed'[c] = changed[c] + n
           /\ left'[c] \in Seq(TblNames) /\ left'[c] # <<>>
           /\ Len(left'[c]) = Len(left[c]) - 1
           /\ UNCHANGED <<statement, more, db, tbl, answer>>
        \/ Answer(c, "OK")
    <2>1. n \in Nat /\ place \in Places
      BY ONLY n \in {0, 1}, place \in {"table", "db"} DEF Places
    <2> QED
      BY <1>1, <2>1, NextTableDoes, Zenon
  <1>3. changed[c] \in Nat
    BY <1>1, Zenon DEF ConnTypes
  <1>4. n = 0 \/ n = 1
    OBVIOUS
  <1>5. changed[c] + 0 = changed[c]
    BY ONLY <1>3
  <1> QED
    BY <1>2, <1>4, <1>5, Zenon DEF Continues

LEMMA ContinuesStep ==
    ASSUME CatalogIInv, NEW c \in Conns, NEW place \in {"table", "db"},
           Continues(c, place), statement[c] # None,
           Is(c, TableStatements), at[c] \in {"table", "act", "again"},
           NothingMoves, MapTypes', Maps'
    PROVE  CatalogIInv'
  <1>1. ConnTypes /\ Connection(c) /\ FoundIsMade(c) /\ MapTypes
    BY TypeParts DEF CatalogIInv
  <1>2. left[c] # <<>> /\ changed[c] + Len(left[c]) <= Len(statement[c].list)
    BY <1>1 DEF Connection, Steady
  <1>3. statement[c] \in Statement
    BY NameTypes DEF CatalogIInv
  <1>4. ConnTypes' /\ Others(c)
    BY DEF Continues
  <1>5. (Is(c, TableStatements) = Is(c, TableStatements)') /\ (DbOf(c) = DbOf(c)')
    BY DEF Continues, Is, DbOf
  <1>6. answer[c] # "E" /\ db[c] # Nil
    BY <1>1 DEF Connection, HasObjects
  <1>7. HasObjects(c)'
    BY <1>6 DEF Continues, HasObjects, Is
  <1>8. Steady(c)'
    <2>1. changed[c] \in Nat /\ Len(left[c]) \in Nat
      BY <1>1, LenProperties DEF ConnTypes
    <2>2. Len(statement[c].list) \in Nat
      <3>1. statement[c].list \in Seq(TblNames)
        BY <1>3, StatementType DEF Is
      <3> QED
        BY <3>1, LenProperties
    <2>6. /\ Len(left[c]) > 1 /\ Len(left'[c]) = Len(left[c]) - 1
          /\ changed'[c] = changed[c] \/ changed'[c] = changed[c] + 1
      BY DEF Continues
    <2>3. Len(statement[c].list) > 1
      BY ONLY <1>2, <2>1, <2>2, <2>6
    <2>4. changed'[c] + Len(left'[c]) <= Len(statement[c].list)
      BY ONLY <1>2, <2>1, <2>2, <2>6
    <2>7. Len(statement[c].list) # 1
      <3>1. \A l \in Nat : l > 1 => l # 1
        OBVIOUS
      <3> QED
        BY <2>2, <2>3, <3>1, Zenon
    <2>5. changed'[c] > 0 => Is(c, {"DROP TABLE", "TRUNCATE"})
      BY <1>1, <2>7 DEF Connection, Steady, Continues
    <2> QED
      BY <2>4, <2>5 DEF Steady, Is, Continues
  <1>9. FoundDb(c)'
    <2>1. ASSUME NEW m \in DbNames, databases'[m] = db'[c] PROVE m = DbOf(c)'
      <3>1. db[c] \in 0 .. madeDbs /\ madeDbs \in Nat
        BY <1>1 DEF MapTypes, FoundIsMade
      <3>2. /\ databases'[m] = db[c]
            /\ \/ databases'[m] = databases[m] \/ databases'[m] = Nil
               \/ databases'[m] > madeDbs
        BY <2>1 DEF NothingMoves, Continues
      <3>3. databases[m] = db[c]
        BY ONLY <1>6, <3>1, <3>2
      <3> QED
        BY <1>1, <1>5, <3>3 DEF Connection, FoundDb
    <2> QED
      BY <2>1 DEF FoundDb
  <1>10. FoundTbl(c)' /\ GoneTbl(c)'
    BY DEF FoundTbl, GoneTbl, Continues
  <1>11. FoundIsMade(c)'
    <2>1. /\ db[c] \in 0 .. madeDbs /\ tbl[c] \in 0 .. madeTables
          /\ madeDbs \in Nat /\ madeTables \in Nat
      BY <1>1 DEF MapTypes, FoundIsMade
    <2>2. /\ db'[c] = db[c] /\ tbl'[c] = tbl[c]
          /\ madeDbs' \in Nat /\ madeDbs <= madeDbs'
          /\ madeTables' \in Nat /\ madeTables <= madeTables'
      BY DEF NothingMoves, Continues
    <2> QED
      BY ONLY <2>1, <2>2 DEF FoundIsMade
  <1> QED
    BY <1>4, <1>7, <1>8, <1>9, <1>10, <1>11, StepOf DEF Connection

LEMMA NoLookupStep ==
    ASSUME CatalogIInv, NEW c \in Conns, NoLookup(c)
    PROVE  CatalogIInv'
  <1>1. PICK a \in {"OK", "E"} : Answer(c, a)
    BY DEF NoLookup
  <1>2. UNCHANGED Catalogue /\ UNCHANGED crashed
    BY DEF NoLookup, Catalogue
  <1> QED
    BY <1>1, <1>2, AnsweredStep

LEMMA LookupDatabaseStep ==
    ASSUME CatalogIInv, NEW c \in Conns, LookupDatabase(c)
    PROVE  CatalogIInv'
  <1> DEFINE found == databases[DbOf(c)]
  <1>1. UNCHANGED Catalogue /\ UNCHANGED crashed /\ at[c] = "db"
    BY DEF LookupDatabase, Catalogue
  <1>2. ConnTypes /\ MapTypes /\ Connection(c) /\ FoundIsMade(c) /\ OneNameEach
    BY TypeParts DEF CatalogIInv, Maps
  <1>3. statement[c] # None
    BY <1>1, <1>2 DEF Connection, HasObjects
  <1>4. DbOf(c) \in DbNames /\ found \in 0 .. madeDbs /\ found \in 0 .. MaxDbs
    <2>1. DbOf(c) \in DbNames
      BY <1>3, NameTypes DEF CatalogIInv
    <2>2. found \in 0 .. madeDbs
      BY <1>2, <2>1 DEF MapTypes
    <2>3. madeDbs \in 0 .. MaxDbs
      BY <1>2 DEF MapTypes
    <2> QED
      BY <2>1, <2>2, <2>3, Bounds
  <1>5. CASE \E a \in {"OK", "E"} : Answer(c, a)
    BY <1>1, <1>5, AnsweredStep
  <1>6. CASE Is(c, {"CREATE DATABASE", "DROP DATABASE"}) /\ Goto(c, "act") /\ UNCHANGED <<db, tbl>>
    <2>1. ~Is(c, TableStatements) /\ ~Is(c, {"SYSTEM SELECT", "ALTER DATABASE", "VACUUM"})
          /\ ~Is(c, TableStatements \ {"CREATE TABLE"})
      BY <1>6 DEF Is, TableStatements
    <2>2. /\ db' \in [Conns -> 0 .. MaxDbs] /\ tbl' \in [Conns -> 0 .. MaxTables]
          /\ \A b \in Conns \ {c} : db'[b] = db[b] /\ tbl'[b] = tbl[b]
          /\ db'[c] \in 0 .. madeDbs /\ tbl'[c] \in 0 .. madeTables
      BY <1>2, <1>6 DEF ConnTypes, FoundIsMade
    <2> QED
      BY <1>1, <1>3, <1>6, <2>1, <2>2, GotoStep
  <1>7. CASE /\ Is(c, TableStatements) /\ found # Nil
             /\ db' = [db EXCEPT ![c] = found] /\ Goto(c, "table") /\ UNCHANGED tbl
    <2>1. /\ db' \in [Conns -> 0 .. MaxDbs] /\ tbl' \in [Conns -> 0 .. MaxTables]
          /\ \A b \in Conns \ {c} : db'[b] = db[b] /\ tbl'[b] = tbl[b]
          /\ db'[c] = found /\ tbl'[c] \in 0 .. madeTables
      BY <1>2, <1>4, <1>7 DEF ConnTypes, FoundIsMade
    <2>2. \A n \in DbNames : databases[n] = found => n = DbOf(c)
      BY <1>2, <1>4, <1>7 DEF OneNameEach
    <2> QED
      BY <1>1, <1>3, <1>4, <1>7, <2>1, <2>2, GotoStep
  <1>8. Unless(c) \in {"OK", "E"}
    BY DEF Unless
  <1> QED
    BY <1>5, <1>6, <1>7, <1>8 DEF LookupDatabase, Is

LEMMA LookupTableStep ==
    ASSUME CatalogIInv, NEW c \in Conns, LookupTable(c)
    PROVE  CatalogIInv'
  <1> DEFINE found == tables[db[c]][Name(c)]
  <1>1. UNCHANGED Catalogue /\ UNCHANGED crashed /\ at[c] = "table"
    BY DEF LookupTable, Catalogue
  <1>2. ConnTypes /\ MapTypes /\ Connection(c) /\ FoundIsMade(c) /\ OneNameEach /\ Maps
    BY TypeParts DEF CatalogIInv, Maps
  <1>3. /\ statement[c] # None /\ db[c] # Nil /\ left[c] # <<>>
        /\ Is(c, TableStatements)
        /\ \A n \in DbNames : databases[n] = db[c] => n = DbOf(c)
    BY <1>1, <1>2 DEF Connection, HasObjects, Steady, FoundDb
  <1>4. Name(c) \in TblNames /\ db[c] \in Dbs /\ found \in 0 .. madeTables /\ found \in 0 .. MaxTables
    <2>1. Name(c) \in TblNames
      BY <1>3, NameTypes DEF CatalogIInv
    <2>2. db[c] \in Dbs
      BY <1>2, <1>3, Bounds DEF ConnTypes, Nil, Dbs
    <2>3. found \in 0 .. madeTables
      BY <1>2, <2>1, <2>2 DEF MapTypes
    <2> QED
      BY <1>2, <2>1, <2>2, <2>3, Bounds DEF MapTypes
  <1>5. CASE \E a \in {"OK", "E"} : Answer(c, a)
    BY <1>1, <1>5, AnsweredStep
  <1>6. MapTypes' /\ Maps' /\ NothingMoves
    <2>1. crashed' \in BOOLEAN
      BY <1>1, <1>2 DEF MapTypes
    <2> QED
      BY <1>1, <2>1, MapsKept
  <1>7. CASE Is(c, {"CREATE TABLE"}) /\ Goto(c, "act") /\ UNCHANGED <<db, tbl>>
    <2>1. /\ ~Is(c, {"SYSTEM SELECT", "ALTER DATABASE", "VACUUM"})
          /\ ~Is(c, TableStatements \ {"CREATE TABLE"})
      BY <1>7 DEF Is
    <2>2. /\ db' \in [Conns -> 0 .. MaxDbs] /\ tbl' \in [Conns -> 0 .. MaxTables]
          /\ \A b \in Conns \ {c} : db'[b] = db[b] /\ tbl'[b] = tbl[b]
          /\ db'[c] \in 0 .. madeDbs /\ tbl'[c] \in 0 .. madeTables /\ db'[c] = db[c]
      BY <1>2, <1>7 DEF ConnTypes, FoundIsMade
    <2> QED
      BY <1>1, <1>3, <1>7, <2>1, <2>2, GotoStep
  <1>8. CASE \/ Is(c, {"DROP TABLE"}) /\ NextTable(c, "table", 0)
             \/ SystemSelect(c)
    <2>1. PICK place \in {"table", "db"} : NextTable(c, place, 0)
      BY <1>8 DEF SystemSelect
    <2>3. 0 \in {0, 1} /\ 0 # 1
      OBVIOUS
    <2>2. Answer(c, "OK") \/ Continues(c, place)
      BY <1>3, <2>1, <2>3, NextTableContinues, Zenon
    <2> QED
      BY <1>1, <1>3, <1>5, <1>6, <2>2, ContinuesStep
  <1>9. CASE /\ ~Is(c, {"CREATE TABLE", "SYSTEM SELECT"}) /\ found # Nil
             /\ tbl' = [tbl EXCEPT ![c] = found] /\ Goto(c, "act") /\ UNCHANGED db
    <2>1. /\ db' \in [Conns -> 0 .. MaxDbs] /\ tbl' \in [Conns -> 0 .. MaxTables]
          /\ \A b \in Conns \ {c} : db'[b] = db[b] /\ tbl'[b] = tbl[b]
          /\ tbl'[c] = found /\ db'[c] \in 0 .. madeDbs /\ db'[c] = db[c]
      BY <1>2, <1>4, <1>9 DEF ConnTypes, FoundIsMade
    <2>2. ASSUME NEW e \in Dbs, NEW m \in TblNames, tables[e][m] = found
          PROVE  e = db[c] /\ m = Name(c)
      <3>1. \A d1, d2 \in Dbs : \A n1, n2 \in TblNames :
               tables[d1][n1] # Nil /\ tables[d1][n1] = tables[d2][n2] => d1 = d2 /\ n1 = n2
        BY <1>2 DEF OneNameEach
      <3>2. (tables[e][m] # Nil /\ tables[e][m] = tables[db[c]][Name(c)]) =>
               e = db[c] /\ m = Name(c)
        BY ONLY <1>4, <3>1, e \in Dbs, m \in TblNames
      <3>3. tables[e][m] # Nil /\ tables[e][m] = tables[db[c]][Name(c)]
        BY <1>9, <2>2
      <3> QED
        BY <3>2, <3>3, Zenon
    <2>3. ~Is(c, {"SYSTEM SELECT", "ALTER DATABASE", "VACUUM"})
      BY <1>3, <1>9 DEF Is, TableStatements
    <2>4. /\ Goto(c, "act") /\ db'[c] # Nil
          /\ \A n \in DbNames : databases[n] = db'[c] => n = DbOf(c)
      BY <1>3, <1>9, <2>1
    <2>5. tbl'[c] # Nil /\ tbl'[c] \in 0 .. madeTables
      BY <1>4, <1>9, <2>1
    <2>6. \A e \in Dbs, m \in TblNames : tables[e][m] = tbl'[c] => e = db'[c] /\ m = Name(c)
      BY <2>1, <2>2
    <2> QED
      BY <1>1, <1>3, <2>1, <2>3, <2>4, <2>5, <2>6, GotoStep
  <1>10. Unless(c) \in {"OK", "E"}
    BY DEF Unless
  <1> QED
    BY <1>5, <1>7, <1>8, <1>9, <1>10 DEF LookupTable

-----------------------------------------------------------------------------
(***************************************************************************)
(* What is promised of a name, in the terms a step changes.                *)
(***************************************************************************)
LEMMA TableOfType ==
    ASSUME MapTypes, NEW e \in DbNames, NEW n \in TblNames
    PROVE  /\ TableOf(e, n) \in 0 .. madeTables
           /\ TableOf(e, n) # Nil => TableOf(e, n) \in Tables
           /\ databases[e] # Nil => databases[e] \in Dbs /\ TableOf(e, n) = tables[databases[e]][n]
  <1>1. madeDbs \in 0 .. MaxDbs /\ madeTables \in 0 .. MaxTables /\ MaxDbs \in Nat /\ MaxTables \in Nat
    BY Bounds DEF MapTypes
  <1>2. databases[e] # Nil => databases[e] \in Dbs
    <2>1. databases[e] \in 0 .. madeDbs
      BY DEF MapTypes
    <2> QED
      BY <1>1, <2>1 DEF Dbs, Nil
  <1>3. TableOf(e, n) \in 0 .. madeTables
    <2>1. CASE databases[e] = Nil
      BY <1>1, <2>1 DEF TableOf, Nil
    <2>2. CASE databases[e] # Nil
      BY <1>2, <2>2 DEF TableOf, MapTypes
    <2> QED
      BY <2>1, <2>2
  <1> QED
    BY <1>1, <1>2, <1>3 DEF TableOf, Tables, Nil

\* What the catalogue owes to one name.
Kept(e, n) ==
    <<e, n>> \notin torn =>
        /\ TableOf(e, n) # Nil <=> <<e, n, 0>> \in promised
        /\ TableOf(e, n) # Nil =>
             rows[TableOf(e, n)] = {r \in 1 .. MaxRows : <<e, n, r>> \in Owed}
        /\ TableOf(e, n) = Nil => \A r \in 0 .. MaxRows : <<e, n, r>> \notin Owed

LEMMA KeptParts ==
    /\ CatalogIsAsAnswered /\ NothingOwed <=> \A e \in DbNames, n \in TblNames : Kept(e, n)
    /\ (CatalogIsAsAnswered /\ NothingOwed)' <=>
          \A e \in DbNames, n \in TblNames : Kept(e, n)'
  BY DEF CatalogIsAsAnswered, NothingOwed, Kept

\* A name whose table and rows, and what is owed of them, are the same is kept.
LEMMA KeptIf ==
    ASSUME NEW e \in DbNames, NEW n \in TblNames, Kept(e, n),
           <<e, n>> \notin torn' => <<e, n>> \notin torn,
           TableOf(e, n)' = TableOf(e, n),
           TableOf(e, n) # Nil => rows'[TableOf(e, n)] = rows[TableOf(e, n)],
           \A r \in 0 .. MaxRows : /\ <<e, n, r>> \in promised' <=> <<e, n, r>> \in promised
                                   /\ <<e, n, r>> \in leftover' <=> <<e, n, r>> \in leftover
    PROVE  Kept(e, n)'
  <1>1. \A r \in 1 .. MaxRows : r \in 0 .. MaxRows
    OBVIOUS
  <1>2. 0 \in 0 .. MaxRows
    BY Bounds
  <1>3. \A r \in 0 .. MaxRows : <<e, n, r>> \in Owed' <=> <<e, n, r>> \in Owed
    BY DEF Owed
  <1> QED
    BY <1>1, <1>2, <1>3 DEF Kept

LEMMA CreateDatabaseStep ==
    ASSUME CatalogIInv, NEW c \in Conns, CreateDatabase(c)
    PROVE  CatalogIInv'
  <1> DEFINE x == DbOf(c)
  <1>1. /\ ConnTypes /\ MapTypes /\ Connection(c) /\ Maps /\ at[c] = "act"
        /\ madeDbs < MaxDbs /\ madeDbs' = madeDbs + 1
        /\ databases' = [databases EXCEPT ![x] = madeDbs + 1]
        /\ torn' = IF databases[x] = Nil THEN torn ELSE torn \cup {x} \X TblNames
        /\ Answer(c, "OK")
        /\ UNCHANGED <<tables, madeTables, rows, madeRows, promised, leftover, crashed>>
    BY TypeParts DEF CatalogIInv, CreateDatabase, Act, rowVars, owedVars
  <1>2. x \in DbNames
    <2>1. statement[c] # None
      BY <1>1 DEF Connection, HasObjects
    <2> QED
      BY <2>1, NameTypes DEF CatalogIInv
  <1>3. /\ madeDbs \in Nat /\ MaxDbs \in Nat /\ madeDbs + 1 \in Dbs /\ madeDbs + 1 \in 0 .. madeDbs'
        /\ madeTables \in Nat /\ madeDbs' \in 0 .. MaxDbs
        /\ databases \in [DbNames -> 0 .. madeDbs]
    BY <1>1, Bounds DEF MapTypes, Dbs
  <1>4. /\ databases'[x] = madeDbs + 1
        /\ \A n \in DbNames \ {x} : databases'[n] = databases[n]
    BY <1>1, <1>2, <1>3
  <1>5. NothingMoves
    BY <1>1, <1>3, <1>4 DEF NothingMoves
  <1>6. MapTypes'
    <2>1. databases' \in [DbNames -> 0 .. madeDbs']
      BY <1>1, <1>2, <1>3
    <2>2. torn' \subseteq DbNames \X TblNames
      BY <1>1, <1>2 DEF MapTypes
    <2> QED
      BY <1>1, <1>3, <2>1, <2>2 DEF MapTypes
  <1>7. OneNameEach'
    <2>1. ASSUME NEW n \in DbNames, NEW m \in DbNames, databases'[n] # Nil,
                 databases'[n] = databases'[m]
          PROVE  n = m
      <3>1. databases[n] \in 0 .. madeDbs /\ databases[m] \in 0 .. madeDbs
        BY <1>3
      <3> QED
        BY <1>1, <1>3, <1>4, <2>1, <3>1 DEF Maps, OneNameEach
    <2> QED
      BY <1>1, <2>1 DEF Maps, OneNameEach
  <1>8. Unmade'
    BY <1>1, <1>3 DEF Maps, Unmade, Dbs
  <1>9. ASSUME NEW e \in DbNames, NEW n \in TblNames PROVE Kept(e, n)'
    <2>1. Kept(e, n)
      BY <1>1, KeptParts DEF Maps
    <2>2. CASE e # x
      <3>1. TableOf(e, n)' = TableOf(e, n)
        BY <1>1, <1>4, <2>2 DEF TableOf
      <3>2. <<e, n>> \in torn' <=> <<e, n>> \in torn
        BY <1>1, <2>2
      <3> QED
        BY <1>1, <2>1, <3>1, <3>2, KeptIf
    <2>3. CASE e = x /\ databases[x] # Nil
      <3>1. <<e, n>> \in torn'
        BY <1>1, <2>3
      <3> QED
        BY <3>1 DEF Kept
    <2>4. CASE e = x /\ databases[x] = Nil
      <3>1. TableOf(e, n) = Nil
        BY <2>4 DEF TableOf
      <3>2. TableOf(e, n)' = Nil
        <4>1. tables[madeDbs + 1][n] = Nil
          BY <1>1, <1>3 DEF Maps, Unmade
        <4> QED
          BY <1>1, <1>4, <2>4, <4>1 DEF TableOf
      <3>3. torn' = torn
        BY <1>1, <2>4
      <3> QED
        BY <1>1, <2>1, <3>1, <3>2, <3>3, KeptIf
    <2> QED
      BY <2>2, <2>3, <2>4
  <1>10. Maps'
    BY <1>7, <1>8, <1>9, KeptParts DEF Maps
  <1> QED
    BY <1>1, <1>5, <1>6, <1>10, AnswerKeeps, StepOf

LEMMA DropDatabaseStep ==
    ASSUME CatalogIInv, NEW c \in Conns, DropDatabase(c)
    PROVE  CatalogIInv'
  <1>1. /\ ConnTypes /\ Connection(c) /\ FoundIsMade(c) /\ at[c] = "act"
        /\ Is(c, {"DROP DATABASE"})
        /\ UNCHANGED Catalogue /\ UNCHANGED crashed
    BY TypeParts DEF CatalogIInv, DropDatabase, Act, Catalogue
  <1>2. CASE Answer(c, "E")
    BY <1>1, <1>2, AnsweredStep
  <1>3. CASE Goto(c, "again") /\ UNCHANGED <<db, tbl>>
    <2>1. /\ ~Is(c, TableStatements) /\ ~Is(c, TableStatements \ {"CREATE TABLE"})
          /\ ~Is(c, {"SYSTEM SELECT", "ALTER DATABASE", "VACUUM"}) /\ ~Is(c, {"DROP TABLE"})
          /\ Is(c, {"DROP TABLE", "DROP DATABASE"})
      BY <1>1 DEF Is, TableStatements
    <2>2. /\ db' \in [Conns -> 0 .. MaxDbs] /\ tbl' \in [Conns -> 0 .. MaxTables]
          /\ \A b \in Conns \ {c} : db'[b] = db[b] /\ tbl'[b] = tbl[b]
          /\ db'[c] \in 0 .. madeDbs /\ tbl'[c] \in 0 .. madeTables
      BY <1>1, <1>3 DEF ConnTypes, FoundIsMade
    <2>3. statement[c] # None
      BY <1>1 DEF Connection, HasObjects
    <2> QED
      BY <1>1, <1>3, <2>1, <2>2, <2>3, GotoStep
  <1> QED
    BY <1>2, <1>3 DEF DropDatabase

LEMMA RemoveDatabaseStep ==
    ASSUME CatalogIInv, NEW c \in Conns, RemoveDatabase(c)
    PROVE  CatalogIInv'
  <1> DEFINE x == DbOf(c)
  <1>1. /\ ConnTypes /\ MapTypes /\ Connection(c) /\ Maps /\ at[c] = "again"
        /\ UNCHANGED <<madeDbs, tables, madeTables, rows, madeRows, torn, crashed>>
    BY TypeParts DEF CatalogIInv, RemoveDatabase, Again, rowVars
  <1>2. x \in DbNames
    <2>1. statement[c] # None
      BY <1>1 DEF Connection, HasObjects
    <2> QED
      BY <2>1, NameTypes DEF CatalogIInv
  <1>3. /\ databases' = [databases EXCEPT ![x] = Nil]
        /\ promised' = {p \in promised : p[1] # x}
        /\ leftover' = {p \in leftover : p[1] # x}
        /\ Answer(c, "OK")
    BY DEF RemoveDatabase
  <1>4. /\ madeDbs \in Nat /\ madeTables \in Nat /\ databases \in [DbNames -> 0 .. madeDbs]
    BY <1>1, Bounds DEF MapTypes
  <1>5. databases'[x] = Nil /\ \A n \in DbNames \ {x} : databases'[n] = databases[n]
    BY <1>2, <1>3, <1>4
  <1>6. NothingMoves
    BY <1>1, <1>4, <1>5 DEF NothingMoves
  <1>7. MapTypes'
    <2>1. databases' \in [DbNames -> 0 .. madeDbs]
      <3>1. 0 \in 0 .. madeDbs /\ Nil = 0
        BY <1>4 DEF Nil
      <3> QED
        BY <1>2, <1>3, <1>4, <3>1
    <2>2. promised' \subseteq promised /\ leftover' \subseteq leftover
      BY <1>3
    <2> QED
      BY <1>1, <2>1, <2>2 DEF MapTypes
  <1>8. OneNameEach' /\ Unmade'
    BY <1>1, <1>5 DEF Maps, OneNameEach, Unmade
  <1>9. ASSUME NEW e \in DbNames, NEW n \in TblNames PROVE Kept(e, n)'
    <2>1. Kept(e, n)
      BY <1>1, KeptParts DEF Maps
    <2>2. \A r \in 0 .. MaxRows :
             /\ <<e, n, r>> \in promised' <=> <<e, n, r>> \in promised /\ e # x
             /\ <<e, n, r>> \in leftover' <=> <<e, n, r>> \in leftover /\ e # x
      BY <1>3
    <2>3. CASE e # x
      <3>1. TableOf(e, n)' = TableOf(e, n)
        BY <1>1, <1>5, <2>3 DEF TableOf
      <3> QED
        BY <1>1, <2>1, <2>2, <2>3, <3>1, KeptIf
    <2>4. CASE e = x
      <3>1. TableOf(e, n)' = Nil
        BY <1>5, <2>4 DEF TableOf
      <3>2. 0 \in 0 .. MaxRows
        BY Bounds
      <3> QED
        BY <2>2, <2>4, <3>1, <3>2 DEF Kept, Owed
    <2> QED
      BY <2>3, <2>4
  <1>10. Maps'
    BY <1>8, <1>9, KeptParts DEF Maps
  <1> QED
    BY <1>3, <1>6, <1>7, <1>10, AnswerKeeps, StepOf

\* What a statement that acts on tables has at hand.
LEMMA AtHand ==
    ASSUME CatalogIInv, NEW c \in Conns, at[c] \in {"act", "again"},
           Is(c, TableStatements \ {"SYSTEM SELECT"})
    PROVE  /\ statement[c] \in Statement /\ statement[c] # None /\ left[c] # <<>>
           /\ Is(c, TableStatements)
           /\ db[c] \in Dbs /\ Name(c) \in TblNames /\ Database[c] \in DbNames
           /\ \A n \in DbNames : databases[n] = db[c] => n = Database[c]
           /\ ~Is(c, {"CREATE TABLE"}) =>
                /\ tbl[c] \in Tables
                /\ at[c] = "act" =>
                     \A e \in Dbs, m \in TblNames :
                         tables[e][m] = tbl[c] => e = db[c] /\ m = Name(c)
  <1>1. ConnTypes /\ MapTypes /\ Connection(c) /\ FoundIsMade(c)
    BY TypeParts DEF CatalogIInv
  <1>2. at[c] \in {"act", "again"} /\ Is(c, TableStatements)
    BY DEF Is
  <1>3. /\ statement[c] # None /\ db[c] # Nil /\ left[c] # <<>>
        /\ \A n \in DbNames : databases[n] = db[c] => n = DbOf(c)
    BY <1>1, <1>2 DEF Connection, HasObjects, FoundDb
  <1>4. /\ statement[c] \in Statement /\ Database[c] \in DbNames /\ Name(c) \in TblNames
        /\ DbOf(c) = Database[c]
    <2>1. ~Is(c, {"CREATE DATABASE", "DROP DATABASE", "SYSTEM SELECT"})
      BY DEF Is, TableStatements
    <2>2. TypeOK
      BY DEF CatalogIInv
    <2> QED
      BY <1>3, <2>1, <2>2, NameTypes
  <1>5. db[c] \in Dbs
    <2>1. db[c] \in 0 .. MaxDbs
      BY <1>1 DEF ConnTypes
    <2>2. MaxDbs \in Nat /\ db[c] # 0
      BY <1>3, Bounds DEF Nil
    <2> QED
      BY ONLY <2>1, <2>2 DEF Dbs
  <1>6. ASSUME ~Is(c, {"CREATE TABLE"})
        PROVE  /\ tbl[c] \in Tables
               /\ at[c] = "act" =>
                    \A e \in Dbs, m \in TblNames :
                        tables[e][m] = tbl[c] => e = db[c] /\ m = Name(c)
    <2>1. Is(c, TableStatements \ {"CREATE TABLE"})
      BY <1>2, <1>6 DEF Is
    <2>2. /\ tbl[c] # Nil
          /\ at[c] = "act" =>
               \A e \in Dbs, m \in TblNames : tables[e][m] = tbl[c] => e = db[c] /\ m = Name(c)
      BY <1>1, <1>2, <2>1 DEF Connection, HasObjects, FoundTbl
    <2>3. tbl[c] \in Tables
      <3>1. tbl[c] \in 0 .. MaxTables
        BY <1>1 DEF ConnTypes
      <3>2. MaxTables \in Nat /\ tbl[c] # 0
        BY <2>2, Bounds DEF Nil
      <3> QED
        BY ONLY <3>1, <3>2 DEF Tables
    <2> QED
      BY <2>2, <2>3
  <1> QED
    BY <1>2, <1>3, <1>4, <1>5, <1>6

LEMMA CreateTableStep ==
    ASSUME CatalogIInv, NEW c \in Conns, CreateTable(c)
    PROVE  CatalogIInv'
  <1> DEFINE x == Database[c]
             y == Name(c)
             t == madeTables + 1
  <1>1. /\ ConnTypes /\ MapTypes /\ Maps
        /\ madeTables < MaxTables /\ madeTables' = madeTables + 1
        /\ tables' = [tables EXCEPT ![db[c]][y] = t]
        /\ promised' = promised \cup {<<x, y, 0>>}
        /\ torn' = IF databases[x] = db[c] /\ tables[db[c]][y] = Nil
                   THEN torn ELSE torn \cup {<<x, y>>}
        /\ Answer(c, "OK")
        /\ UNCHANGED <<databases, madeDbs, rows, madeRows, leftover, crashed>>
    BY TypeParts DEF CatalogIInv, CreateTable, Act, rowVars
  <1>2. /\ db[c] \in Dbs /\ y \in TblNames /\ x \in DbNames
        /\ \A n \in DbNames : databases[n] = db[c] => n = x
    <2>1. at[c] = "act" /\ Is(c, TableStatements \ {"SYSTEM SELECT"})
      BY DEF CreateTable, Act, Is, TableStatements
    <2> QED
      BY <2>1, AtHand
  <1>3. /\ madeTables \in Nat /\ MaxTables \in Nat /\ t \in Tables /\ t \in 0 .. madeTables'
        /\ madeDbs \in Nat /\ madeTables' \in 0 .. MaxTables /\ MaxRows \in Nat
        /\ tables \in [Dbs -> [TblNames -> 0 .. madeTables]]
    BY <1>1, Bounds DEF MapTypes, Tables
  <1>4. /\ tables'[db[c]][y] = t
        /\ \A e \in Dbs, m \in TblNames : (e # db[c] \/ m # y) => tables'[e][m] = tables[e][m]
    BY <1>1, <1>2, <1>3
  <1>5. NothingMoves
    <2>1. \A e \in Dbs, m \in TblNames : tables'[e][m] = tables[e][m] \/ tables'[e][m] > madeTables
      <3> TAKE e \in Dbs, m \in TblNames
      <3>1. CASE e = db[c] /\ m = y
        BY <1>3, <1>4, <3>1
      <3>2. CASE e # db[c] \/ m # y
        BY <1>4, <3>2
      <3> QED
        BY <3>1, <3>2
    <2> QED
      BY <1>1, <1>3, <2>1 DEF NothingMoves
  <1>6. MapTypes'
    <2>1. tables' \in [Dbs -> [TblNames -> 0 .. madeTables']]
      <3>1. 0 .. madeTables \subseteq 0 .. madeTables'
        BY <1>1, <1>3
      <3> QED
        BY <1>1, <1>2, <1>3, <3>1
    <2>2. torn' \subseteq DbNames \X TblNames
      BY <1>1, <1>2 DEF MapTypes
    <2>3. promised' \subseteq DbNames \X TblNames \X (0 .. MaxRows)
      BY <1>1, <1>2, <1>3 DEF MapTypes
    <2> QED
      BY <1>1, <1>3, <2>1, <2>2, <2>3 DEF MapTypes
  <1>7. OneNameEach'
    <2>1. ASSUME NEW d1 \in Dbs, NEW d2 \in Dbs, NEW n1 \in TblNames, NEW n2 \in TblNames,
                 tables'[d1][n1] # Nil, tables'[d1][n1] = tables'[d2][n2]
          PROVE  d1 = d2 /\ n1 = n2
      <3>1. tables[d1][n1] \in 0 .. madeTables /\ tables[d2][n2] \in 0 .. madeTables
        BY <1>3
      <3>2. tables[d1][n1] # t /\ tables[d2][n2] # t
        BY <1>3, <3>1
      <3>3. CASE d1 = db[c] /\ n1 = y
        BY <1>4, <2>1, <3>2, <3>3
      <3>4. CASE d2 = db[c] /\ n2 = y
        BY <1>4, <2>1, <3>2, <3>4
      <3>5. CASE (d1 # db[c] \/ n1 # y) /\ (d2 # db[c] \/ n2 # y)
        <4>1. tables[d1][n1] # Nil /\ tables[d1][n1] = tables[d2][n2]
          BY <1>4, <2>1, <3>5
        <4> QED
          BY <1>1, <4>1 DEF Maps, OneNameEach
      <3> QED
        BY <3>3, <3>4, <3>5
    <2> QED
      BY <1>1, <2>1 DEF Maps, OneNameEach
  <1>8. Unmade'
    <2>1. db[c] \in 0 .. madeDbs
      BY TypeParts DEF CatalogIInv, FoundIsMade
    <2>2. \A e \in Dbs : e > madeDbs => e # db[c]
      BY <1>3, <2>1 DEF Dbs
    <2>3. \A e \in Dbs : e > madeDbs => \A n \in TblNames : tables'[e][n] = Nil
      BY <1>1, <1>4, <2>2 DEF Maps, Unmade
    <2>4. \A s \in Tables : s > madeTables' => rows'[s] = {}
      BY <1>1, <1>3 DEF Maps, Unmade, Tables
    <2> QED
      BY <1>1, <2>3, <2>4 DEF Maps, Unmade
  <1>9. ASSUME NEW e \in DbNames, NEW n \in TblNames PROVE Kept(e, n)'
    <2>1. Kept(e, n)
      BY <1>1, KeptParts DEF Maps
    <2>2. CASE e # x \/ n # y
      <3>1. TableOf(e, n)' = TableOf(e, n)
        <4>1. CASE databases[e] = Nil
          BY <1>1, <4>1 DEF TableOf
        <4>2. CASE databases[e] # Nil
          <5>1. databases[e] \in Dbs
            BY <1>1, <4>2, TableOfType
          <5>2. databases[e] # db[c] \/ n # y
            BY <1>2, <2>2
          <5> QED
            BY <1>1, <1>4, <4>2, <5>1, <5>2 DEF TableOf
        <4> QED
          BY <4>1, <4>2
      <3>2. <<e, n>> \in torn' <=> <<e, n>> \in torn
        BY <1>1, <2>2
      <3>3. \A r \in 0 .. MaxRows : /\ <<e, n, r>> \in promised' <=> <<e, n, r>> \in promised
                                    /\ <<e, n, r>> \in leftover' <=> <<e, n, r>> \in leftover
        BY <1>1, <2>2
      <3> QED
        BY <1>1, <2>1, <3>1, <3>2, <3>3, KeptIf
    <2>3. CASE e = x /\ n = y /\ ~(databases[x] = db[c] /\ tables[db[c]][y] = Nil)
      <3>1. <<e, n>> \in torn'
        BY <1>1, <2>3
      <3> QED
        BY <3>1 DEF Kept
    <2>4. CASE e = x /\ n = y /\ databases[x] = db[c] /\ tables[db[c]][y] = Nil
      <3>1. torn' = torn /\ db[c] # Nil
        BY <1>1, <1>2, <2>4 DEF Dbs, Nil
      <3>2. TableOf(e, n) = Nil /\ TableOf(e, n)' = t /\ t # Nil
        BY <1>1, <1>3, <1>4, <2>4, <3>1 DEF TableOf, Nil
      <3>3. rows'[t] = {}
        BY <1>1, <1>3 DEF Maps, Unmade, Tables
      <3>4. <<e, n>> \notin torn => \A r \in 1 .. MaxRows : <<e, n, r>> \notin Owed'
        <4>1. \A r \in 1 .. MaxRows : r \in 0 .. MaxRows /\ r # 0
          BY <1>3
        <4>2. \A r \in 1 .. MaxRows : <<e, n, r>> \in Owed' => <<e, n, r>> \in Owed
          BY <1>1, <4>1 DEF Owed
        <4> QED
          BY <2>1, <3>2, <4>1, <4>2 DEF Kept
      <3>5. <<e, n, 0>> \in promised'
        BY <1>1, <2>4
      <3> QED
        BY <3>1, <3>2, <3>3, <3>4, <3>5 DEF Kept
    <2> QED
      BY <2>2, <2>3, <2>4
  <1>10. Maps'
    BY <1>7, <1>8, <1>9, KeptParts DEF Maps
  <1> QED
    BY <1>1, <1>5, <1>6, <1>10, AnswerKeeps, StepOf

LEMMA DropTableStep ==
    ASSUME CatalogIInv, NEW c \in Conns, DropTable(c)
    PROVE  CatalogIInv'
  <1> DEFINE x == Database[c]
             y == Name(c)
  <1>1. /\ ConnTypes /\ MapTypes /\ Maps /\ at[c] = "act" /\ Is(c, {"DROP TABLE"})
        /\ tables' = [tables EXCEPT ![db[c]][y] = Nil]
        /\ promised' = IF databases[x] = db[c]
                       THEN {p \in promised : ~(p[1] = x /\ p[2] = y)} ELSE promised
        /\ leftover' = IF databases[x] = db[c]
                       THEN {p \in leftover : ~(p[1] = x /\ p[2] = y)} ELSE leftover
        /\ Goto(c, "again")
        /\ UNCHANGED <<databases, madeDbs, madeTables, rows, madeRows, db, tbl, torn, crashed>>
    BY TypeParts DEF CatalogIInv, DropTable, Without, Act, rowVars
  <1>2. /\ statement[c] # None /\ Is(c, TableStatements) /\ left[c] # <<>>
        /\ db[c] \in Dbs /\ y \in TblNames /\ x \in DbNames
        /\ \A n \in DbNames : databases[n] = db[c] => n = x
        /\ tbl[c] \in Tables
        /\ \A e \in Dbs, m \in TblNames : tables[e][m] = tbl[c] => e = db[c] /\ m = y
    <2>1. /\ at[c] = "act" /\ Is(c, TableStatements \ {"SYSTEM SELECT"})
          /\ ~Is(c, {"CREATE TABLE"})
      BY DEF DropTable, Act, Is, TableStatements
    <2> QED
      BY <2>1, AtHand
  <1>3. /\ madeTables \in Nat /\ madeDbs \in Nat /\ MaxRows \in Nat
        /\ tables \in [Dbs -> [TblNames -> 0 .. madeTables]]
    <2>1. MapTypes
      BY TypeParts DEF CatalogIInv
    <2> QED
      BY ONLY <2>1, Bounds DEF MapTypes
  <1>4. /\ tables'[db[c]][y] = Nil
        /\ \A e \in Dbs, m \in TblNames : (e # db[c] \/ m # y) => tables'[e][m] = tables[e][m]
    BY <1>1, <1>2, <1>3
  <1>5. \A e \in Dbs, m \in TblNames : tables'[e][m] = tables[e][m] \/ tables'[e][m] = Nil
    <2> TAKE e \in Dbs, m \in TblNames
    <2>1. CASE e = db[c] /\ m = y
      BY <1>4, <2>1
    <2>2. CASE e # db[c] \/ m # y
      BY <1>4, <2>2
    <2> QED
      BY <2>1, <2>2
  <1>6. NothingMoves
    <2>1. databases' = databases /\ madeDbs' = madeDbs /\ madeTables' = madeTables
      BY <1>1
    <2> QED
      BY ONLY <1>3, <1>5, <2>1 DEF NothingMoves
  <1>7. MapTypes'
    <2>1. tables' \in [Dbs -> [TblNames -> 0 .. madeTables]]
      <3>1. Nil \in 0 .. madeTables
        BY <1>3 DEF Nil
      <3> QED
        BY <1>1, <1>2, <1>3, <3>1
    <2>2. promised' \subseteq promised /\ leftover' \subseteq leftover
      BY <1>1
    <2> QED
      BY <1>1, <2>1, <2>2 DEF MapTypes
  <1>8. OneNameEach' /\ Unmade'
    <2>3. OneNameEach /\ databases' = databases /\ rows' = rows
      BY <1>1 DEF Maps
    <2>1. OneNameEach'
      <3>1. ASSUME NEW d1 \in Dbs, NEW d2 \in Dbs, NEW n1 \in TblNames, NEW n2 \in TblNames,
                   tables'[d1][n1] # Nil, tables'[d1][n1] = tables'[d2][n2]
            PROVE  d1 = d2 /\ n1 = n2
        <4>1. tables'[d1][n1] = tables[d1][n1] /\ tables'[d2][n2] = tables[d2][n2]
          BY <1>5, <3>1
        <4> QED
          <5>1. \A e, f \in Dbs : \A m, n \in TblNames :
                   tables[e][m] # Nil /\ tables[e][m] = tables[f][n] => e = f /\ m = n
            BY <2>3 DEF OneNameEach
          <5>2. tables[d1][n1] # Nil /\ tables[d1][n1] = tables[d2][n2]
            BY <3>1, <4>1, Zenon
          <5> QED
            BY ONLY <5>1, <5>2, d1 \in Dbs, d2 \in Dbs, n1 \in TblNames, n2 \in TblNames
      <3> QED
        BY ONLY <2>3, <3>1 DEF OneNameEach
    <2>2. \A e \in Dbs : e > madeDbs => \A m \in TblNames : tables'[e][m] = Nil
      BY <1>1, <1>5 DEF Maps, Unmade
    <2> QED
      BY <1>1, <2>1, <2>2 DEF Maps, Unmade
  <1>9. ASSUME NEW e \in DbNames, NEW n \in TblNames PROVE Kept(e, n)'
    <2>1. Kept(e, n)
      BY <1>1, KeptParts DEF Maps
    <2>2. CASE ~(databases[e] = db[c] /\ n = y)
      <3>1. TableOf(e, n)' = TableOf(e, n)
        <4>1. CASE databases[e] = Nil
          BY <1>1, <4>1 DEF TableOf
        <4>2. CASE databases[e] # Nil
          <5>1. databases[e] \in Dbs
            BY <1>1, <4>2, TableOfType
          <5> QED
            BY <1>1, <1>4, <2>2, <4>2, <5>1 DEF TableOf
        <4> QED
          BY <4>1, <4>2
      <3>2. \A r \in 0 .. MaxRows : /\ <<e, n, r>> \in promised' <=> <<e, n, r>> \in promised
                                    /\ <<e, n, r>> \in leftover' <=> <<e, n, r>> \in leftover
        BY <1>1, <2>2
      <3> QED
        BY <1>1, <2>1, <3>1, <3>2, KeptIf
    <2>3. CASE databases[e] = db[c] /\ n = y
      <3>1. e = x
        BY <1>2, <2>3
      <3>2. TableOf(e, n)' = Nil
        BY <1>1, <1>4, <2>3 DEF TableOf
      <3>3. \A r \in 0 .. MaxRows : <<e, n, r>> \notin promised' /\ <<e, n, r>> \notin leftover'
        BY <1>1, <2>3, <3>1
      <3>4. 0 \in 0 .. MaxRows
        BY <1>3
      <3> QED
        BY <3>2, <3>3, <3>4 DEF Kept, Owed
    <2> QED
      BY <2>2, <2>3
  <1>10. Maps'
    BY <1>8, <1>9, KeptParts DEF Maps
  <1>11. /\ ConnTypes' /\ Others(c) /\ at'[c] = "again"
         /\ UNCHANGED <<asked, statement, more, left, changed, answer>>
    <2>1. /\ db' \in [Conns -> 0 .. MaxDbs] /\ tbl' \in [Conns -> 0 .. MaxTables]
          /\ \A b \in Conns \ {c} : db'[b] = db[b] /\ tbl'[b] = tbl[b]
      BY <1>1 DEF ConnTypes
    <2>2. "again" \in Places
      BY DEF Places
    <2> QED
      BY <1>1, <2>1, <2>2, GotoDoes
  <1>12. Connection(c)'
    <2>1. Connection(c)
      BY DEF CatalogIInv
    <2>2. HasObjects(c)' /\ Steady(c)' /\ FoundTbl(c)'
      <3>1. answer[c] # "E" /\ db[c] # Nil /\ left[c] # <<>> /\ tbl[c] # Nil
        <4>1. answer[c] # "E"
          BY <1>1, <2>1 DEF Connection, HasObjects
        <4>2. db[c] # Nil /\ tbl[c] # Nil
          BY <1>2 DEF Dbs, Tables, Nil
        <4> QED
          BY <1>2, <4>1, <4>2
      <3>2. HasObjects(c)'
        BY <1>1, <1>2, <1>11, <3>1 DEF HasObjects, Is
      <3>3. Steady(c)'
        BY <1>1, <1>11, <2>1 DEF Connection, Steady, Is
      <3> QED
        BY <1>11, <3>2, <3>3 DEF FoundTbl
    <2>3. FoundDb(c)'
      <3>1. (DbOf(c) = DbOf(c)') /\ databases' = databases /\ db' = db
        BY <1>1, <1>11 DEF DbOf, Is
      <3> QED
        BY <1>1, <1>2, <2>1, <3>1 DEF Connection, FoundDb
    <2>4. GoneTbl(c)'
      <3>1. ASSUME NEW e \in Dbs, NEW m \in TblNames PROVE tables'[e][m] # tbl[c]
        <4>1. CASE e = db[c] /\ m = y
          BY <1>2, <1>4, <4>1 DEF Tables, Nil
        <4>2. CASE e # db[c] \/ m # y
          BY <1>2, <1>4, <4>2
        <4> QED
          BY <4>1, <4>2
      <3> QED
        BY <1>1, <3>1 DEF GoneTbl
    <2> QED
      BY <2>2, <2>3, <2>4 DEF Connection
  <1>13. FoundIsMade(c)'
    BY <1>1, TypeParts DEF CatalogIInv, FoundIsMade
  <1> QED
    BY <1>6, <1>7, <1>10, <1>11, <1>12, <1>13, StepOf

LEMMA ConfirmDropStep ==
    ASSUME CatalogIInv, NEW c \in Conns, ConfirmDrop(c)
    PROVE  CatalogIInv'
  <1>1. /\ MapTypes /\ at[c] = "again" /\ Is(c, {"DROP TABLE"})
        /\ UNCHANGED Catalogue /\ UNCHANGED crashed
    BY TypeParts DEF CatalogIInv, ConfirmDrop, Again, Catalogue
  <1>2. statement[c] # None /\ Is(c, TableStatements)
    <2>1. Is(c, TableStatements \ {"SYSTEM SELECT"})
      BY <1>1 DEF Is, TableStatements
    <2> QED
      BY <1>1, <2>1, AtHand
  <1>3. MapTypes' /\ Maps' /\ NothingMoves
    BY <1>1, MapsKept DEF MapTypes
  <1>4. CASE NextTable(c, "table", 1)
    <2>1. 1 \in {0, 1}
      OBVIOUS
    <2>2. Is(c, {"DROP TABLE", "TRUNCATE"})
      BY <1>1 DEF Is
    <2>3. Answer(c, "OK") \/ Continues(c, "table")
      BY <1>2, <1>4, <2>1, <2>2, NextTableContinues, Zenon
    <2>4. CASE Answer(c, "OK")
      BY <1>1, <2>4, AnsweredStep
    <2>5. CASE Continues(c, "table")
      BY <1>1, <1>2, <1>3, <2>5, ContinuesStep
    <2> QED
      BY <2>3, <2>4, <2>5
  <1>5. CASE Answer(c, "E")
    BY <1>1, <1>5, AnsweredStep
  <1> QED
    BY <1>4, <1>5 DEF ConfirmDrop

\* A row is in one table only, so that what is appended to a table, or goes
\* from it, is no business of another.
LEMMA InsertStep ==
    ASSUME CatalogIInv, NEW c \in Conns, Insert(c)
    PROVE  CatalogIInv'
  <1> DEFINE x == Database[c]
             y == Name(c)
             fresh == madeRows + 1 .. madeRows + statement[c].good
  <1>1. /\ ConnTypes /\ MapTypes /\ Maps /\ at[c] = "act" /\ Is(c, {"INSERT"})
        /\ UNCHANGED <<databases, madeDbs, tables, madeTables, crashed>>
    BY TypeParts DEF CatalogIInv, Insert, Act, mapVars
  <1>2. /\ statement[c] \in Statement
        /\ y \in TblNames /\ x \in DbNames /\ tbl[c] \in Tables
        /\ \A n \in DbNames : databases[n] = db[c] => n = x
        /\ \A e \in Dbs, m \in TblNames : tables[e][m] = tbl[c] => e = db[c] /\ m = y
        /\ tbl[c] \in 0 .. madeTables
    <2>1. Is(c, TableStatements \ {"SYSTEM SELECT"}) /\ ~Is(c, {"CREATE TABLE"})
      BY <1>1 DEF Is, TableStatements
    <2>2. FoundIsMade(c)
      BY TypeParts DEF CatalogIInv
    <2> QED
      BY <1>1, <2>1, <2>2, AtHand DEF FoundIsMade
  <1>3. /\ madeRows + statement[c].good <= MaxRows /\ madeRows' = madeRows + statement[c].good
        /\ rows' = [rows EXCEPT ![tbl[c]] = @ \cup fresh]
    BY DEF Insert, AppendRows
  <1>4. \/ /\ promised' = promised \cup ({x} \X {y} \X fresh) /\ leftover' = leftover
           /\ torn' = IF TableOf(x, y) = tbl[c] THEN torn ELSE torn \cup {<<x, y>>}
           /\ Answer(c, "OK")
        \/ /\ promised' = promised /\ torn' = torn
           /\ leftover' = IF TableOf(x, y) = tbl[c]
                          THEN leftover \cup ({x} \X {y} \X fresh) ELSE leftover
           /\ Answer(c, "E")
    BY DEF Insert
  <1>5. /\ madeRows \in Nat /\ MaxRows \in Nat /\ statement[c].good \in Nat
        /\ madeDbs \in Nat /\ madeTables \in Nat
        /\ rows \in [Tables -> SUBSET (1 .. MaxRows)]
    <2>1. statement[c].good \in Nat
      BY <1>1, <1>2, StatementType DEF Is
    <2> QED
      BY <1>1, <2>1, Bounds DEF MapTypes
  <1>6. /\ fresh \subseteq 1 .. MaxRows /\ fresh \subseteq 0 .. MaxRows /\ 0 \notin fresh
        /\ fresh \cap (1 .. madeRows) = {} /\ fresh \subseteq 1 .. madeRows'
        /\ 1 .. madeRows \subseteq 1 .. madeRows' /\ madeRows' \in 0 .. MaxRows
    BY ONLY <1>3, <1>5
  <1> HIDE DEF fresh
  <1>7. /\ rows'[tbl[c]] = rows[tbl[c]] \cup fresh
        /\ \A s \in Tables \ {tbl[c]} : rows'[s] = rows[s]
    BY <1>2, <1>3, <1>5
  <1>8. \A s \in Tables : rows[s] \subseteq 1 .. madeRows /\ rows[s] \cap fresh = {}
    <2>1. \A s \in Tables : rows[s] \subseteq 1 .. madeRows
      BY <1>1 DEF Maps, Unmade
    <2> QED
      BY <1>6, <2>1
  <1>9. NothingMoves
    BY <1>1, <1>5 DEF NothingMoves
  <1>10. MapTypes'
    <2>1. rows' \in [Tables -> SUBSET (1 .. MaxRows)]
      BY <1>2, <1>3, <1>5, <1>6
    <2>2. torn' \subseteq DbNames \X TblNames
      BY <1>1, <1>2, <1>4 DEF MapTypes
    <2>3. /\ {x} \X {y} \X fresh \subseteq DbNames \X TblNames \X (0 .. MaxRows)
          /\ {x} \X {y} \X fresh \subseteq DbNames \X TblNames \X (1 .. MaxRows)
      BY <1>2, <1>6
    <2>4. /\ promised' \subseteq DbNames \X TblNames \X (0 .. MaxRows)
          /\ leftover' \subseteq DbNames \X TblNames \X (1 .. MaxRows)
      BY <1>1, <1>4, <2>3 DEF MapTypes
    <2> QED
      BY <1>1, <1>6, <2>1, <2>2, <2>4 DEF MapTypes
  <1>11. OneNameEach'
    <2>1. ASSUME NEW s \in Tables, NEW t \in Tables, s # t
          PROVE  rows'[s] \cap rows'[t] = {}
      <3>1. rows[s] \cap rows[t] = {} /\ rows[s] \cap fresh = {} /\ rows[t] \cap fresh = {}
        BY <1>1, <1>8, <2>1 DEF Maps, OneNameEach
      <3>2. CASE s = tbl[c]
        BY <1>7, <2>1, <3>1, <3>2
      <3>3. CASE t = tbl[c]
        BY <1>7, <2>1, <3>1, <3>3
      <3>4. CASE s # tbl[c] /\ t # tbl[c]
        BY <1>7, <3>1, <3>4
      <3> QED
        BY <3>2, <3>3, <3>4
    <2> QED
      BY <1>1, <2>1 DEF Maps, OneNameEach
  <1>12. Unmade'
    <2>1. ASSUME NEW s \in Tables, s > madeTables PROVE rows'[s] = {}
      <3>1. s # tbl[c]
        BY <1>2, <1>5, <2>1 DEF Tables
      <3> QED
        BY <1>1, <1>7, <2>1, <3>1 DEF Maps, Unmade
    <2>2. ASSUME NEW s \in Tables PROVE rows'[s] \subseteq 1 .. madeRows'
      <3>1. rows'[s] \subseteq rows[s] \cup fresh
        BY <1>7
      <3> QED
        BY <1>6, <1>8, <3>1
    <2> QED
      BY <1>1, <2>1, <2>2 DEF Maps, Unmade
  <1>13. ASSUME NEW e \in DbNames, NEW n \in TblNames PROVE Kept(e, n)'
    <2>1. Kept(e, n) /\ TableOf(e, n)' = TableOf(e, n)
      BY <1>1, KeptParts DEF Maps, TableOf
    <2>2. \A r : <<e, n, r>> \in {x} \X {y} \X fresh <=> e = x /\ n = y /\ r \in fresh
      OBVIOUS
    <2>3. TableOf(e, n) = tbl[c] => e = x /\ n = y
      <3> SUFFICES ASSUME TableOf(e, n) = tbl[c] PROVE e = x /\ n = y
        OBVIOUS
      <3>1. databases[e] # Nil
        BY <1>2 DEF TableOf, Tables, Nil
      <3>2. databases[e] \in Dbs /\ TableOf(e, n) = tables[databases[e]][n]
        BY <1>1, <3>1, TableOfType
      <3> QED
        BY <1>2, <3>2
    <2>4. CASE TableOf(e, n) # tbl[c]
      <3>1. TableOf(e, n) # Nil => rows'[TableOf(e, n)] = rows[TableOf(e, n)]
        BY <1>1, <1>7, <2>4, TableOfType
      <3>2. CASE <<e, n>> \in torn'
        BY <3>2 DEF Kept
      <3>3. CASE <<e, n>> \notin torn'
        <4>1. <<e, n>> \notin torn
          BY <1>4, <3>3
        <4>2. \A r : /\ <<e, n, r>> \in promised' <=> <<e, n, r>> \in promised
                     /\ <<e, n, r>> \in leftover' <=> <<e, n, r>> \in leftover
          BY <1>4, <2>2, <2>4, <3>3
        <4> QED
          BY <2>1, <3>1, <4>1, <4>2, KeptIf
      <3> QED
        BY <3>2, <3>3
    <2>5. CASE TableOf(e, n) = tbl[c]
      <3>1. e = x /\ n = y /\ torn' = torn /\ TableOf(e, n) # Nil
        BY <1>2, <1>4, <2>3, <2>5 DEF Tables, Nil
      <3>2. \A r \in 1 .. MaxRows : <<e, n, r>> \in Owed' <=> <<e, n, r>> \in Owed \/ r \in fresh
        BY <1>4, <2>2, <2>5, <3>1 DEF Owed
      <3>3. <<e, n, 0>> \in promised' <=> <<e, n, 0>> \in promised
        BY <1>4, <1>6, <2>2
      <3>4. <<e, n>> \notin torn =>
              rows[tbl[c]] = {r \in 1 .. MaxRows : <<e, n, r>> \in Owed}
        BY <2>1, <2>5, <3>1 DEF Kept
      <3>5. <<e, n>> \notin torn =>
              rows'[tbl[c]] = {r \in 1 .. MaxRows : <<e, n, r>> \in Owed'}
        BY <1>6, <1>7, <3>2, <3>4
      <3> QED
        BY <2>1, <2>5, <3>1, <3>3, <3>5 DEF Kept
    <2> QED
      BY <2>4, <2>5
  <1>14. Maps'
    BY <1>11, <1>12, <1>13, KeptParts DEF Maps
  <1>15. PICK a \in {"OK", "E"} : Answer(c, a)
    BY <1>4
  <1> QED
    BY <1>9, <1>10, <1>14, <1>15, AnswerKeeps, StepOf

LEMMA DeleteStep ==
    ASSUME CatalogIInv, NEW c \in Conns, Delete(c)
    PROVE  CatalogIInv'
  <1> DEFINE x == Database[c]
             y == Name(c)
  <1>1. /\ ConnTypes /\ MapTypes /\ Maps /\ at[c] = "act"
        /\ UNCHANGED <<databases, madeDbs, tables, madeTables, madeRows, torn, crashed>>
    BY TypeParts DEF CatalogIInv, Delete, Act, mapVars
  <1>2. /\ statement[c] # None /\ Is(c, TableStatements) /\ statement[c] \in Statement
        /\ y \in TblNames /\ x \in DbNames /\ tbl[c] \in Tables
        /\ \A n \in DbNames : databases[n] = db[c] => n = x
        /\ \A e \in Dbs, m \in TblNames : tables[e][m] = tbl[c] => e = db[c] /\ m = y
    <2>1. /\ at[c] = "act" /\ Is(c, TableStatements \ {"SYSTEM SELECT"})
          /\ ~Is(c, {"CREATE TABLE"})
      BY DEF Delete, Act, Is, TableStatements
    <2> QED
      BY <2>1, AtHand
  <1>3. PICK gone \in SUBSET rows[tbl[c]] :
           /\ rows' = [rows EXCEPT ![tbl[c]] = @ \ gone]
           /\ promised' = promised \ ({x} \X {y} \X gone)
           /\ leftover' = leftover \ ({x} \X {y} \X gone)
    BY DEF Delete
  <1>4. /\ madeRows \in Nat /\ MaxRows \in Nat /\ madeDbs \in Nat /\ madeTables \in Nat
        /\ rows \in [Tables -> SUBSET (1 .. MaxRows)]
    <2>1. MapTypes
      BY <1>1
    <2> QED
      BY ONLY <2>1, Bounds DEF MapTypes
  <1>5. /\ rows'[tbl[c]] = rows[tbl[c]] \ gone
        /\ \A s \in Tables \ {tbl[c]} : rows'[s] = rows[s]
    BY <1>2, <1>3, <1>4
  <1>6. \A s \in Tables : rows'[s] \subseteq rows[s]
    BY <1>5
  <1>7. NothingMoves
    <2>1. /\ databases' = databases /\ madeDbs' = madeDbs
          /\ madeTables' = madeTables /\ tables' = tables
      BY <1>1
    <2> QED
      BY ONLY <1>4, <2>1 DEF NothingMoves
  <1>8. MapTypes'
    <2>1. rows' \in [Tables -> SUBSET (1 .. MaxRows)]
      BY <1>2, <1>3, <1>4
    <2>2. promised' \subseteq promised /\ leftover' \subseteq leftover
      BY <1>3
    <2> QED
      BY <1>1, <2>1, <2>2 DEF MapTypes
  <1>9. OneNameEach' /\ Unmade'
    BY <1>1, <1>6 DEF Maps, OneNameEach, Unmade
  <1>10. ASSUME NEW e \in DbNames, NEW n \in TblNames PROVE Kept(e, n)'
    <2>1. Kept(e, n) /\ TableOf(e, n)' = TableOf(e, n) /\ torn' = torn
      BY <1>1, KeptParts DEF Maps, TableOf
    <2>2. \A r \in 0 .. MaxRows :
             /\ <<e, n, r>> \in promised' <=>
                   <<e, n, r>> \in promised /\ ~(e = x /\ n = y /\ r \in gone)
             /\ <<e, n, r>> \in leftover' <=>
                   <<e, n, r>> \in leftover /\ ~(e = x /\ n = y /\ r \in gone)
      BY <1>3
    <2>3. gone \subseteq 1 .. MaxRows /\ 0 \notin gone
      <3>1. rows[tbl[c]] \subseteq 1 .. MaxRows
        BY <1>2, <1>4
      <3> QED
        BY <1>4, <3>1
    <2>4. CASE TableOf(e, n) = tbl[c]
      <3>1. e = x /\ n = y
        <4>1. databases[e] # Nil
          BY <1>2, <2>4 DEF TableOf, Tables, Nil
        <4>2. databases[e] \in Dbs /\ TableOf(e, n) = tables[databases[e]][n]
          BY <1>1, <4>1, TableOfType
        <4>3. databases[e] = db[c] /\ n = y
          BY <1>2, <2>4, <4>2
        <4> QED
          BY <1>2, <4>3
      <3>2. TableOf(e, n) # Nil
        BY <1>2, <2>4 DEF Tables, Nil
      <3>3. <<e, n, 0>> \in promised' <=> <<e, n, 0>> \in promised
        <4>1. 0 \in 0 .. MaxRows
          BY <1>4
        <4> QED
          BY <2>2, <2>3, <4>1
      <3>4. <<e, n>> \notin torn =>
              /\ <<e, n, 0>> \in promised
              /\ rows[tbl[c]] = {r \in 1 .. MaxRows : <<e, n, r>> \in Owed}
        BY <2>1, <2>4, <3>2 DEF Kept
      <3>5. <<e, n>> \notin torn =>
              rows'[tbl[c]] = {r \in 1 .. MaxRows : <<e, n, r>> \in Owed'}
        <4>1. \A r \in 1 .. MaxRows : r \in 0 .. MaxRows
          BY <1>4
        <4>2. \A r \in 1 .. MaxRows :
                 <<e, n, r>> \in Owed' <=> <<e, n, r>> \in Owed /\ r \notin gone
          BY <2>2, <3>1, <4>1 DEF Owed
        <4> QED
          BY <1>5, <3>4, <4>2
      <3> QED
        BY <2>1, <2>4, <3>2, <3>3, <3>4, <3>5 DEF Kept
    <2>5. CASE TableOf(e, n) # tbl[c]
      <3>1. TableOf(e, n) # Nil => rows'[TableOf(e, n)] = rows[TableOf(e, n)]
        BY <1>1, <1>5, <2>5, TableOfType
      <3>2. CASE <<e, n>> \in torn
        BY <2>1, <3>2 DEF Kept
      <3>3. CASE <<e, n>> \notin torn
        <4>1. ASSUME NEW r \in 0 .. MaxRows, <<e, n, r>> \in Owed, r \in gone PROVE FALSE
          <5>1. TableOf(e, n) # Nil
            BY <2>1, <3>3, <4>1 DEF Kept
          <5>2. r \in rows[TableOf(e, n)]
            <6>1. r \in 1 .. MaxRows
              BY <2>3, <4>1
            <6> QED
              BY <2>1, <3>3, <4>1, <5>1, <6>1 DEF Kept
          <5>3. TableOf(e, n) \in Tables
            BY <1>1, <5>1, TableOfType
          <5>4. rows[TableOf(e, n)] \cap rows[tbl[c]] = {}
            BY <1>1, <1>2, <2>5, <5>3 DEF Maps, OneNameEach
          <5>5. r \in rows[tbl[c]]
            BY <4>1
          <5> QED
            BY <5>2, <5>4, <5>5
        <4>2. \A r \in 0 .. MaxRows :
                 /\ <<e, n, r>> \in promised' <=> <<e, n, r>> \in promised
                 /\ <<e, n, r>> \in leftover' <=> <<e, n, r>> \in leftover
          BY <2>2, <4>1 DEF Owed
        <4> QED
          BY <2>1, <3>1, <4>2, KeptIf
      <3> QED
        BY <3>2, <3>3
    <2> QED
      BY <2>4, <2>5
  <1>11. Maps'
    BY <1>9, <1>10, KeptParts DEF Maps
  <1>12. Answer(c, "OK") \/ Continues(c, "db")
    <2>1. 1 \in {0, 1}
      OBVIOUS
    <2>2. Is(c, {"DROP TABLE", "TRUNCATE"}) \/ Len(statement[c].list) = 1
      <3>1. statement[c].type \in {"DELETE", "TRUNCATE"}
        BY DEF Delete, Act, Is
      <3>2. CASE statement[c].type = "DELETE"
        <4>1. statement[c].type \in TableStatements \ {"DROP TABLE", "TRUNCATE", "SYSTEM SELECT"}
          BY <3>2 DEF TableStatements
        <4> QED
          BY <1>2, <4>1, StatementType, Zenon
      <3> QED
        BY <3>1, <3>2 DEF Is
    <2>3. NextTable(c, "db", 1)
      BY DEF Delete
    <2> QED
      BY <1>2, <2>1, <2>2, <2>3, NextTableContinues, Zenon
  <1>13. CASE Answer(c, "OK")
    BY <1>7, <1>8, <1>11, <1>13, AnswerKeeps, StepOf
  <1>14. CASE Continues(c, "db")
    BY <1>1, <1>2, <1>7, <1>8, <1>11, <1>14, ContinuesStep
  <1> QED
    BY <1>12, <1>13, <1>14

\* UPDATE, SELECT and ALTER TABLE.
LEMMA LeavesStep ==
    ASSUME CatalogIInv, NEW c \in Conns, Update(c) \/ AlterTable(c)
    PROVE  CatalogIInv'
  <1>1. PICK a \in {"OK", "E"} : Answer(c, a)
    BY DEF Update, AlterTable
  <1>2. UNCHANGED Catalogue /\ UNCHANGED crashed
    BY DEF Update, AlterTable, Catalogue
  <1> QED
    BY <1>1, <1>2, AnsweredStep

\* No connection moves, and the catalogue stays, at a crash too.
LEMMA CrashStep ==
    ASSUME CatalogIInv, UNCHANGED <<mapVars, rowVars, connVars, owedVars, torn>>,
           crashed' \in BOOLEAN
    PROVE  CatalogIInv'
  <1>1. MapTypes' /\ Maps'
    BY MapsKept DEF Catalogue
  <1>2. ConnTypes /\ \A c \in Conns : Connection(c) /\ FoundIsMade(c)
    BY TypeParts DEF CatalogIInv
  <1>3. ConnTypes'
    BY <1>2 DEF ConnTypes, connVars
  <1>4. ASSUME NEW c \in Conns PROVE Connection(c)' /\ FoundIsMade(c)'
    <2>1. Connection(c) /\ FoundIsMade(c)
      BY <1>2
    <2> QED
      BY <2>1 DEF Connection, HasObjects, Steady, FoundDb, FoundTbl, GoneTbl, FoundIsMade, Is,
                  DbOf, Name, connVars, mapVars
  <1> QED
    BY <1>1, <1>3, <1>4, TypeParts DEF CatalogIInv

-----------------------------------------------------------------------------
(***************************************************************************)
(* The invariant, and what follows from it.                                *)
(***************************************************************************)
LEMMA InitHolds == Init => CatalogIInv
  <1> SUFFICES ASSUME Init PROVE CatalogIInv
    OBVIOUS
  <1>1. TypeOK
    <2>1. 0 \in 0 .. MaxDbs /\ 0 \in 0 .. MaxTables /\ 0 \in 0 .. MaxRows /\ 0 \in 0 .. MaxStatements
          /\ 0 \in 0 .. 0
      BY Bounds
    <2>2. <<>> \in Seq(TblNames)
      OBVIOUS
    <2> QED
      BY <2>1, <2>2 DEF Init, TypeOK, Nil
  <1>2. None.type = "none"
    BY DEF None
  <1>3. ASSUME NEW c \in Conns PROVE Connection(c)
    BY <1>2, <1>3 DEF Init, Connection, HasObjects, Steady, FoundDb, FoundTbl, GoneTbl, Is
  <1>4. \A e \in DbNames, n \in TblNames : TableOf(e, n) = Nil
    BY DEF Init, TableOf
  <1>5. Maps
    BY <1>4 DEF Init, Maps, OneNameEach, Unmade, CatalogIsAsAnswered, NothingOwed, Owed
  <1> QED
    BY <1>1, <1>3, <1>5 DEF CatalogIInv

LEMMA NextKeeps == CatalogIInv /\ [Next]_vars => CatalogIInv'
  <1> SUFFICES ASSUME CatalogIInv, [Next]_vars PROVE CatalogIInv'
    OBVIOUS
  <1>1. CASE UNCHANGED vars
    BY <1>1, CrashStep DEF vars, CatalogIInv, TypeOK
  <1>2. ASSUME NEW c \in Conns, NEW s \in Statement, NEW n \in 1 .. MaxStatements, Query(c, n, s)
        PROVE  CatalogIInv'
    BY <1>2, QueryStep
  <1>3. ASSUME NEW c \in Conns, NEW s \in Statement, NextStatement(c, s) PROVE CatalogIInv'
    BY <1>3, NextStatementStep
  <1>4. ASSUME NEW c \in Conns, Run(c) PROVE CatalogIInv'
    BY <1>4, NoLookupStep, LookupDatabaseStep, LookupTableStep, CreateDatabaseStep,
       DropDatabaseStep, RemoveDatabaseStep, CreateTableStep, DropTableStep, ConfirmDropStep,
       InsertStep, LeavesStep, DeleteStep DEF Run
  <1>5. ASSUME NEW c \in Conns, NEW d \in Conns, MapRace(c, d) PROVE CatalogIInv'
    BY <1>5, CrashStep DEF MapRace
  <1> QED
    BY <1>1, <1>2, <1>3, <1>4, <1>5 DEF Next

LEMMA Always == Spec => []CatalogIInv
  BY InitHolds, NextKeeps, PTL DEF Spec

\* Whatever two connections create, drop and fill at the same time, no object
\* is under two names, and each statement has at hand what it looked up.
THEOREM CatalogInvariant == Spec => []CatalogInv
  <1>1. CatalogIInv => CatalogInv
    BY DEF CatalogIInv, CatalogInv, Maps, Connection, HasObjects, StatementsHaveObjects
  <1> QED
    BY <1>1, Always, PTL

\* Every name for which no acknowledgement was worth nothing has the table that
\* was acknowledged, and of rows those that were acknowledged and those that a
\* failed INSERT has left, whatever connections do at the same time.
THEOREM AsAnswered == Spec => []CatalogIsAsAnswered
  <1>1. CatalogIInv => CatalogIsAsAnswered
    BY DEF CatalogIInv, Maps
  <1> QED
    BY <1>1, Always, PTL

-----------------------------------------------------------------------------
(***************************************************************************)
(* A statement fails where it is answered an error, and nowhere else.      *)
(***************************************************************************)
LEMMA FailsAtAnError ==
    ASSUME ConnTypes, NEW c \in Conns, NEW d \in Conns, Fails(c)
    PROVE  /\ \A a \in {"OK", "E"} : Answer(d, a) => a = "E" /\ d = c
           /\ \A s \in Statement : ~Begin(d, s)
           /\ \A place \in Places : ~Goto(d, place)
           /\ \A place, n : ~NextTable(d, place, n)
  <1>1. /\ statement[c] # None /\ statement'[c] = None /\ answer'[c] = "E"
        /\ statement \in [Conns -> Statement \cup {None}]
        /\ answer \in [Conns -> {"none", "OK", "E"}]
    BY DEF Fails, ConnTypes
  <1>2. ASSUME NEW a \in {"OK", "E"}, Answer(d, a) PROVE a = "E" /\ d = c
    <2>1. /\ statement' = [statement EXCEPT ![d] = None]
          /\ answer' = [answer EXCEPT ![d] = a]
      BY <1>2 DEF Answer
    <2> QED
      BY <1>1, <2>1
  <1>3. ASSUME NEW s \in Statement, Begin(d, s) PROVE FALSE
    <2>1. statement' = [statement EXCEPT ![d] = s] /\ s # None
      BY <1>3, StatementType DEF Begin
    <2> QED
      BY <1>1, <2>1
  <1>4. ASSUME NEW place \in Places, Goto(d, place) PROVE FALSE
    BY <1>1, <1>4 DEF Goto
  <1>5. ASSUME NEW place, NEW n, NextTable(d, place, n) PROVE FALSE
    <2>1. statement' = statement \/ Answer(d, "OK")
      BY <1>5, Zenon DEF NextTable
    <2>2. ~Answer(d, "OK")
      BY <1>2
    <2> QED
      BY <1>1, <2>1, <2>2
  <1> QED
    BY <1>2, <1>3, <1>4, <1>5

\* The rows it appends are new, and as many as the table has accepted.
LEMMA FailedInsert ==
    ASSUME CatalogIInv, NEW c \in Conns, Insert(c), Answer(c, "E"), ~Answer(c, "OK")
    PROVE  at[c] = "act" /\ UNCHANGED <<mapVars, promised>> /\ LeavesItsRows(c)
  <1> DEFINE fresh == madeRows + 1 .. madeRows + statement[c].good
  <1>1. /\ at[c] = "act" /\ Is(c, {"INSERT"}) /\ ~statement[c].ok
        /\ UNCHANGED <<mapVars, promised>>
        /\ rows' = [rows EXCEPT ![tbl[c]] = @ \cup fresh]
    BY DEF Insert, Act, AppendRows
  <1>2. tbl[c] \in Tables /\ statement[c] \in Statement
    <2>1. Is(c, TableStatements \ {"SYSTEM SELECT"}) /\ ~Is(c, {"CREATE TABLE"})
      BY <1>1 DEF Is, TableStatements
    <2> QED
      BY <1>1, <2>1, AtHand
  <1>3. /\ madeRows \in Nat /\ statement[c].good \in Nat
        /\ rows \in [Tables -> SUBSET (1 .. MaxRows)] /\ rows[tbl[c]] \subseteq 1 .. madeRows
    <2>1. statement[c].good \in Nat
      BY <1>1, <1>2, StatementType DEF Is
    <2> QED
      BY <1>2, <2>1, Bounds DEF CatalogIInv, TypeOK, Maps, Unmade
  <1>4. Cardinality(fresh) = statement[c].good
    <2>1. madeRows + 1 \in Int /\ madeRows + statement[c].good \in Int
      BY <1>3
    <2>2. Cardinality(fresh) = IF madeRows + 1 > madeRows + statement[c].good THEN 0
                               ELSE (madeRows + statement[c].good) - (madeRows + 1) + 1
      BY <2>1, FS_Interval
    <2> HIDE DEF fresh
    <2> QED
      BY ONLY <1>3, <2>2
  <1>5. fresh \cap (1 .. madeRows) = {}
    BY ONLY <1>3
  <1> HIDE DEF fresh
  <1>6. /\ rows'[tbl[c]] = rows[tbl[c]] \cup fresh
        /\ \A t \in Tables \ {tbl[c]} : rows'[t] = rows[t]
    BY <1>1, <1>2, <1>3
  <1>7. rows'[tbl[c]] \ rows[tbl[c]] = fresh
    BY <1>3, <1>5, <1>6
  <1> QED
    BY <1>1, <1>4, <1>6, <1>7 DEF LeavesItsRows

\* What a step changes that ends a statement with an error.
LEMMA FailureStep ==
    ASSUME CatalogIInv, NEW c \in Conns, Next, Fails(c)
    PROVE  /\ FoundAnother(c) /\ UNCHANGED <<mapVars, promised>>
           /\ UNCHANGED rowVars \/ LeavesItsRows(c)
  <1>1. \A d \in Conns :
           /\ ~Answer(d, "OK") /\ (Answer(d, "E") => d = c)
           /\ \A s \in Statement : ~Begin(d, s)
           /\ ~Goto(d, "table") /\ ~Goto(d, "act") /\ ~Goto(d, "again")
           /\ \A place, n : ~NextTable(d, place, n)
    <2>1. ConnTypes
      BY TypeParts DEF CatalogIInv
    <2> TAKE d \in Conns
    <2>2. /\ \A a \in {"OK", "E"} : Answer(d, a) => a = "E" /\ d = c
          /\ \A place \in Places : ~Goto(d, place)
      BY <2>1, FailsAtAnError
    <2>3. /\ ~Answer(d, "OK") /\ (Answer(d, "E") => d = c)
          /\ ~Goto(d, "table") /\ ~Goto(d, "act") /\ ~Goto(d, "again")
      BY <2>2 DEF Places
    <2> QED
      BY <2>1, <2>3, FailsAtAnError
  <1>2. PICK d \in Conns :
           \/ \E s \in Statement : \/ \E n \in 1 .. MaxStatements : Query(d, n, s)
                                  \/ NextStatement(d, s)
           \/ Run(d)
           \/ \E e \in Conns : MapRace(d, e)
    BY DEF Next
  <1>3. ~\E s \in Statement : (\E n \in 1 .. MaxStatements : Query(d, n, s)) \/ NextStatement(d, s)
    BY <1>1, Zenon DEF Query, NextStatement
  <1>4. CASE Run(d)
    <2>1. /\ ~CreateDatabase(d) /\ ~RemoveDatabase(d) /\ ~CreateTable(d)
          /\ ~DropTable(d) /\ ~Delete(d)
      BY <1>1, Zenon DEF CreateDatabase, RemoveDatabase, CreateTable, DropTable, Delete
    <2>2. CASE \/ NoLookup(d) \/ LookupDatabase(d) \/ LookupTable(d)
               \/ DropDatabase(d) \/ Update(d) \/ AlterTable(d)
      <3>1. at[d] \in {"db", "table", "act"} /\ UNCHANGED <<mapVars, rowVars, promised>>
        BY <2>2 DEF NoLookup, LookupDatabase, LookupTable, DropDatabase, Update, AlterTable, Act,
                    owedVars
      <3>2. Answer(d, "E")
        <4>1. Unless(d) \in {"OK", "E"}
          BY DEF Unless
        <4> QED
          BY <1>1, <2>2, <4>1 DEF NoLookup, LookupDatabase, LookupTable, SystemSelect,
                                  DropDatabase, Update, AlterTable
      <3>3. at[c] # "again"
        BY <1>1, <3>1, <3>2
      <3> QED
        BY <3>1, <3>3 DEF FoundAnother
    <2>3. CASE ConfirmDrop(d)
      <3>1. /\ Answer(d, "E") /\ tables[db[d]][Name(d)] # Nil
            /\ at[d] = "again" /\ Is(d, {"DROP TABLE"})
            /\ UNCHANGED <<mapVars, rowVars, promised>>
        BY <1>1, <2>3 DEF ConfirmDrop, Again, owedVars
      <3>2. d = c
        BY <1>1, <3>1
      <3>3. tables[db[c]][Name(c)] # tbl[c]
        <4>1. Is(c, TableStatements \ {"SYSTEM SELECT"})
          BY <3>1, <3>2 DEF Is, TableStatements
        <4>2. db[c] \in Dbs /\ Name(c) \in TblNames
          BY <3>1, <3>2, <4>1, AtHand
        <4> QED
          BY <3>1, <3>2, <4>2 DEF CatalogIInv, Connection, GoneTbl
      <3> QED
        BY <3>1, <3>2, <3>3 DEF FoundAnother
    <2>4. CASE Insert(d)
      <3>1. Answer(d, "E") /\ d = c
        BY <1>1, <2>4 DEF Insert
      <3> QED
        BY <1>1, <2>4, <3>1, FailedInsert DEF FoundAnother
    <2> QED
      BY <1>4, <2>1, <2>2, <2>3, <2>4 DEF Run
  <1>5. CASE \E e \in Conns : MapRace(d, e)
    BY <1>5 DEF MapRace, Fails, connVars
  <1> QED
    BY <1>2, <1>3, <1>4, <1>5

\* An error answers a statement that has changed nothing; or a DROP TABLE or a
\* TRUNCATE that has done with some tables of its list and not with all, where
\* the table it failed at may be gone with another in its place; or an INSERT
\* whose table has the rows in front of the refused one, and none but those.
THEOREM FailureLeaves == Spec => FailureLeavesItsBeginning
  <1>1. ASSUME CatalogIInv, NEW c \in Conns, statement[c] # None PROVE FailsMidway(c)
    <2>1. ConnTypes /\ Steady(c) /\ statement[c] \in Statement
      BY <1>1, TypeParts, NameTypes DEF CatalogIInv, Connection
    <2>2. changed[c] \in Nat /\ left[c] \in Seq(TblNames)
      BY <2>1 DEF ConnTypes
    <2>3. CASE changed[c] > 0
      <3>1. Is(c, {"DROP TABLE", "TRUNCATE"}) /\ Is(c, TableStatements)
        BY <2>1, <2>3 DEF Steady, Is, TableStatements
      <3>2. left[c] # <<>> /\ changed[c] + Len(left[c]) <= Len(statement[c].list)
        BY <1>1, <2>1, <3>1 DEF Steady
      <3>3. statement[c].list \in Seq(TblNames)
        BY <2>1, <3>1, StatementType DEF Is
      <3>4. Len(left[c]) \in Nat \ {0} /\ Len(statement[c].list) \in Nat
        BY <2>2, <3>2, <3>3, LenProperties, EmptySeq
      <3>5. changed[c] < Len(statement[c].list)
        BY ONLY <2>2, <3>2, <3>4
      <3> QED
        BY <3>1, <3>5 DEF FailsMidway
    <2>4. changed[c] = 0 \/ changed[c] > 0
      BY ONLY <2>2
    <2> QED
      BY <2>3, <2>4, Zenon DEF FailsMidway
  <1>2. CatalogIInv /\ [Next]_vars => [FailsInPlace]_vars
    <2> SUFFICES ASSUME CatalogIInv, Next PROVE FailsInPlace
      OBVIOUS
    <2>1. ASSUME NEW c \in Conns, Fails(c)
          PROVE  /\ FailsMidway(c) /\ FoundAnother(c)
                 /\ UNCHANGED <<mapVars, promised>>
                 /\ UNCHANGED rowVars \/ LeavesItsRows(c)
      <3>1. statement[c] # None
        BY <2>1 DEF Fails
      <3>2. FailsMidway(c)
        BY <1>1, <3>1
      <3> QED
        BY <2>1, <3>2, FailureStep
    <2> QED
      BY <2>1, Zenon DEF FailsInPlace
  <1> QED
    BY <1>2, Always, PTL DEF Spec, FailureLeavesItsBeginning

=============================================================================
