---------------------------- MODULE MCSqliteWorker ----------------------------
(* Model checking of SqliteWorker.                                           *)
EXTENDS SqliteWorker
=============================================================================
