------------------------------ MODULE Options ------------------------------
(***************************************************************************)
(* The absent value of Rust's Option, shared by the data-plane modules.     *)
(***************************************************************************)
CONSTANT None
=============================================================================
