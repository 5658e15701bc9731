----------------------------- MODULE MCStoreBatch -----------------------------
(***************************************************************************)
(* Clients of StoreBatch for TLC, by what each does with an error.          *)
(***************************************************************************)
EXTENDS StoreBatch

Careful  == [c \in Clients |-> IF c = "index" THEN "exit" ELSE "rollback"]
Heedless == [c \in Clients |-> "continue"]
=============================================================================
