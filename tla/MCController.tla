----------------------------- MODULE MCController -----------------------------
(***************************************************************************)
(* Model checking module Controller: its requests are interchangeable, and *)
(* the properties checked are invariants that name none of them.           *)
(***************************************************************************)
EXTENDS Controller, TLC

Interchangeable == Permutations(Request)
=============================================================================
