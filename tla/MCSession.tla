----------------------------- MODULE MCSession -----------------------------
(***************************************************************************)
(* Instances of Session for TLC: which texts exist and which requests the  *)
(* clients of a run send.                                                  *)
(***************************************************************************)
EXTENDS Session, TLC

CONSTANTS n1, n2

MCTexts == {<<>>, <<"begin">>, <<"end">>, <<"work">>,
            <<"begin", "work">>, <<"work", "work">>, <<"begin", "work", "end">>, Unparsable}

\* A request that names or carries nothing has n1 and the empty text there.
Plain(type) == [type |-> type, name |-> n1, from |-> n1, text |-> <<>>]
Queries(texts) == {[Plain("query") EXCEPT !.text = t] : t \in texts}
Parses(names, texts) ==
    {[Plain("parse") EXCEPT !.name = n, !.text = t] : n \in names, t \in texts}
Binds(ps, ss) == {[Plain("bind") EXCEPT !.name = p, !.from = s] : p \in ps, s \in ss}

\* Two connections: the requests that meet in the PreparedManager, and those
\* that move the transaction mutex.
SharedRequests ==
    Queries({<<"begin">>, <<"end">>}) \cup Parses({n1}, {<<"work">>})
      \cup Binds({n1}, {n1}) \cup {Plain("execute")}

\* One connection: transactions and prepared statements, pipelined.
PipelineRequests ==
    Queries({<<"begin">>, <<"end">>, <<"begin", "work">>})
      \cup Parses({n1}, {<<"work">>, <<"begin">>, <<"work", "work">>})
      \cup Binds({n1}, {n1})
      \cup {Plain(t) : t \in {"execute", "closeStatement", "closePortal"}}

\* One connection: every request, in its smallest form.
AllRequests ==
    Queries(MCTexts) \cup Parses({n1}, {<<"work">>, <<"begin">>, Unparsable})
      \cup Binds({n1}, {n1})
      \cup {Plain(t) : t \in RequestType \ {"parse", "bind", "query"}}

SymmetricConns == Permutations(Conns)
=============================================================================
