---------------------------- MODULE MCServiceApp ----------------------------
EXTENDS ServiceApp

CONSTANTS server, pool, sink, source

(* A producer that starts before the sink, so that a start may fail with   *)
(* inputs already in the graph, one pool and one sink.                     *)
Three == {server, pool, sink}

(* With a source, which starts after the sink.                             *)
Four == Three \cup {source}

KindOf ==
  [c \in Four |-> CASE c = server -> "Component"
                    [] c = pool -> "TaskPool"
                    [] c = sink -> "DataSink"
                    [] c = source -> "DataSource"]
=============================================================================
