---------------------- MODULE MCWasmtimePeerConnection ----------------------
(* Small instances of WasmtimePeerConnection. *)
EXTENDS WasmtimePeerConnection
=============================================================================
