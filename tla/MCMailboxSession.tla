--------------------------- MODULE MCMailboxSession ---------------------------
(* Small instances of MailboxSession. *)
EXTENDS MailboxSession

MCBlobs == 1..SendBound
=============================================================================
