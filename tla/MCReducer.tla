----------------------------- MODULE MCReducer ------------------------------
(* Instance of Reducer: a program of three different calls.                *)
EXTENDS Reducer

MCSource == <<1, 2, 3>>
=============================================================================
