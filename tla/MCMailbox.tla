------------------------------ MODULE MCMailbox ------------------------------
(* Small instances of Mailbox. *)
EXTENDS Mailbox
=============================================================================
