------------------------------ MODULE MCJcoHost ------------------------------
(* Small instances of JcoHost. *)
EXTENDS JcoHost
=============================================================================
