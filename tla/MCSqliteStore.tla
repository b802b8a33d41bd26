---------------------------- MODULE MCSqliteStore ----------------------------
(* Instances of SqliteStore for TLC: a database of two pages.              *)
EXTENDS SqliteStore

CONSTANTS p1, p2
=============================================================================
