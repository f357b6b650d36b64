----------------------------- MODULE MCPagination -----------------------------
(* Pagination on a small instance. *)
EXTENDS Pagination
=============================================================================
