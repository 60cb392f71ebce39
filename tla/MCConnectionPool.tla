-------------------------- MODULE MCConnectionPool --------------------------
(* Small instances of the pool of database connections. *)
EXTENDS ConnectionPool
=============================================================================
