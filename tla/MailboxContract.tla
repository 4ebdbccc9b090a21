--------------------------- MODULE MailboxContract ---------------------------
(***************************************************************************)
(* What conformance:signaling/mailbox promises (mailbox.wit, lines 36-64): *)
(* each role's mailbox is a stream of blobs that its peer receives in       *)
(* publish order, every one and each once, and that ends with `none` once   *)
(* the publisher said it is done and nothing is left.  If the room is       *)
(* removed meanwhile (PROTOCOL.md, DELETE and eviction) blobs may be missed *)
(* and the end may come early or never, but the order stays and nothing     *)
(* comes twice.  Blobs are numbers, in the order their role publishes them. *)
(***************************************************************************)
EXTENDS Naturals, Sequences, SequencesExt

CONSTANTS Roles, Blobs

VARIABLES published,  \* [Roles -> Seq(Blobs)]: what each role published
          frozen,     \* the roles that are done publishing
          received,   \* [Roles -> Seq(Blobs)]: what was received from a role
          ended,      \* the roles whose stream was received to its end
          replaced    \* the room was removed

vars == <<published, frozen, received, ended, replaced>>

Init ==
  /\ published = [r \in Roles |-> <<>>]
  /\ frozen = {}
  /\ received = [r \in Roles |-> <<>>]
  /\ ended = {}
  /\ replaced = FALSE

Publish(r, b) ==
  /\ r \notin frozen
  /\ published' = [published EXCEPT ![r] = Append(@, b)]
  /\ UNCHANGED <<frozen, received, ended, replaced>>

Freeze(r) ==
  /\ frozen' = frozen \union {r}
  /\ UNCHANGED <<published, received, ended, replaced>>

Replace ==
  /\ replaced' = TRUE
  /\ published' = [r \in Roles |-> <<>>]
  /\ frozen' = {}
  /\ UNCHANGED <<received, ended>>

Later(r, b) == \A i \in 1..Len(received[r]) : received[r][i] < b

Receive(r, b) ==
  /\ Later(r, b)
  /\ ~replaced => IsPrefix(Append(received[r], b), published[r])
  /\ received' = [received EXCEPT ![r] = Append(@, b)]
  /\ UNCHANGED <<published, frozen, ended, replaced>>

End(r) ==
  /\ ~replaced => r \in frozen /\ received[r] = published[r]
  /\ ended' = ended \union {r}
  /\ UNCHANGED <<published, frozen, received, replaced>>

Next ==
  \/ Replace
  \/ \E r \in Roles : (\E b \in Blobs : Publish(r, b) \/ Receive(r, b)) \/ Freeze(r) \/ End(r)

Spec == Init /\ [][Next]_vars
=============================================================================
