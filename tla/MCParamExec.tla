---------------------------- MODULE MCParamExec ----------------------------
(***************************************************************************)
(* Constants for model checking ParamExec.                                 *)
(***************************************************************************)
EXTENDS ParamExec

\* Arrays of parameters bound to the application's buffers.
BatchCalls  == {"prepare", "execdirect", "bind", "paramset_size", "status_ptr",
                "reset_params", "close"}
\* Data at execution.
DialogCalls == {"prepare", "bind", "rebind", "paramset_size", "reset_params", "close",
                "cancel", "fetch", "more_results"}

\* Values sent whole; a long value in pieces and a null; the pieces of an array.
WholePieces  == [t \in Types |-> {ColumnSize}]
DialogPieces == [t \in Types |-> IF t = "fixed" THEN {SQL_NULL_DATA} ELSE 1..ColumnSize]
ArrayPieces  == [t \in Types |-> {1, ColumnSize}]
============================================================================
