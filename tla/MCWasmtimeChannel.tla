-------------------------- MODULE MCWasmtimeChannel --------------------------
(* Small instances of WasmtimeChannel. *)
EXTENDS WasmtimeChannel
=============================================================================
