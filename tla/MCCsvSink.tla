----------------------------- MODULE MCCsvSink ------------------------------
(***************************************************************************)
(* CsvSink with a ring small enough to run full and to wrap around.        *)
(***************************************************************************)
EXTENDS CsvSink

=============================================================================
