--------------------------- MODULE MCPipelineOtel ---------------------------
(* The generate source and the OTLP sink, with what they do to the rows of a *)
(* block on its way.                                                         *)
EXTENDS Pipeline, OtelConvert

\* otel/worker.go:36-91, generate/filler_traces.go, convert*.go. Whatever rows
\* the blocks of a worker's batch were filled with, the request that is exported
\* for the batch holds them all once, traces whole, grouped by what identifies
\* their resource and their scope.
RowsArrive == \A w \in SinkWorkers : batch[w] # {} => RequestSound[Cardinality(batch[w])]
=============================================================================
