----------------------------- MODULE Executors -----------------------------
(***************************************************************************)
(* Which SQL executor a statement ends at (server_impl.go, and the         *)
(* executors of executor_query.go, executor_query_ex.go,                   *)
(* executor_query_system.go, executor_bulk.go, executor_error.go).         *)
(*                                                                         *)
(* The server has an executor for each kind of statement, in a slot that   *)
(* the application may put another one in at any time.  Those that hand    *)
(* their statements to the application's SQL executor hold it themselves;  *)
(* SetSQLExecutor gives it to the ones that are installed when it is       *)
(* called.  The executor of the slot "ex" hands its statements to the      *)
(* query executor it was made with, which is not always the installed one. *)
(***************************************************************************)
EXTENDS Naturals

CONSTANTS SQLExecutors, MaxSets

ASSUME MaxSetsAssumption == MaxSets \in Nat

Nil == "nil"

ASSUME NilAssumption == Nil \notin SQLExecutors

Slots == {"query", "ex", "system", "bulk", "error"}

\* The executor of the server; one of the same type that the application has
\* made; one that does not take a SQL executor; the server itself; no executor.
Kinds == {"default", "own", "plain", "server", Nil}

\* the executors that hold a SQL executor of their own
Holders ==
    {<<"query", "default">>, <<"system", "default">>}
        \cup ({"query", "ex", "system"} \X {"own"})

VARIABLES
    sql,        \* the SQL executor of the server
    installed,  \* the executor in each slot
    uses,       \* the SQL executor each of the Holders holds
    late,       \* the slots filled after the last SetSQLExecutor
    sets        \* how many calls the application has made

executorVars == <<sql, installed, uses, late, sets>>

ExecutorsTypeOK ==
    /\ sql \in SQLExecutors \cup {Nil}
    /\ installed \in [Slots -> Kinds]
    /\ uses \in [Holders -> SQLExecutors \cup {Nil}]
    /\ late \subseteq Slots
    /\ sets \in 0 .. MaxSets

\* NewServer: the executor of "ex" is made with the query executor
NewServer ==
    /\ sql = Nil
    /\ installed = [slot \in Slots |-> "default"]
    /\ uses = [h \in Holders |-> Nil]
    /\ late = {}
    /\ sets = 0

\* the holder whose SQL executor the statements of a slot end at
HolderOf(slot) ==
    IF <<slot, installed[slot]>> = <<"ex", "default">>
    THEN <<"query", "default">> ELSE <<slot, installed[slot]>>

Holding(slots) == {HolderOf(slot) : slot \in slots} \cap Holders

\* SetQueryExecutor, SetExQueryExecutor, SetSystemQueryExecutor,
\* SetBulkQueryExecutor and SetErrorHandler; an executor of the application is
\* a new one, the one of the server is not kept once it is replaced
SetExecutor(slot) ==
    /\ sets < MaxSets
    /\ \E kind \in Kinds \ {"default"} :
          /\ kind = "own" => <<slot, "own">> \in Holders
          /\ installed' = [installed EXCEPT ![slot] = kind]
          /\ uses' = [h \in Holders |-> IF h = <<slot, "own">> THEN Nil ELSE uses[h]]
    /\ late' = late \cup {slot}
    /\ sets' = sets + 1
    /\ UNCHANGED sql

\* the loop of SetSQLExecutor goes over every slot; one that is empty, or that
\* holds a server, or an executor without a setter, it passes over
GivenSQLWithoutEx == Holding(Slots \ {"ex"})

GivenSQL == Holding(Slots)

SetSQLExecutor(se) ==
    /\ sets < MaxSets
    /\ sql' = se
    /\ uses' = [h \in Holders |-> IF h \in GivenSQL THEN se ELSE uses[h]]
    /\ late' = {}
    /\ sets' = sets + 1
    /\ UNCHANGED installed

Configure ==
    \/ \E slot \in Slots : SetExecutor(slot)
    \/ \E se \in SQLExecutors : SetSQLExecutor(se)

ExecutorsSpec == NewServer /\ [][Configure]_executorVars

----------------------------------------------------------------------------

\* An executor that was in its slot when the application last named its SQL
\* executor sends its statements to that one, also when it does so through a
\* query executor that has been replaced since (SetSQLExecutor, whose list is
\* the only way from the server to the executor the slot "ex" was made with).
LastSQLExecutorServes ==
    \A slot \in Slots \ late :
        HolderOf(slot) \in Holders => uses[HolderOf(slot)] = sql
=============================================================================
