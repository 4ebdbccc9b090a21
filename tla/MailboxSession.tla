---------------------------- MODULE MailboxSession ----------------------------
(***************************************************************************)
(* The mailbox sessions of the conformance adapters over the store of       *)
(* conformance-signalingd: the wasmtime adapter's fetch_next, the in-guest  *)
(* wasi:http client and the jco fetch client are the same loop.  A session  *)
(* keeps the sequence number it reads next; it advances on a blob, asks     *)
(* again on 304, ends on 204 and gives up on a failed round trip, which the *)
(* guest may answer with another recv.                                      *)
(*                                                                          *)
(* The session of role s is the client of request s.  Each role publishes   *)
(* the numbers 1, 2, ... in that order.                                     *)
(***************************************************************************)
EXTENDS Mailbox

CONSTANTS Room,        \* the room the sessions joined
          SendBound    \* bound: blobs a role publishes, in all

ASSUME SessionAssumption ==
  /\ Room \in Rooms
  /\ \E a, b \in Roles : a # b /\ Roles = {a, b}
  /\ Gets \subseteq Roles
  /\ SendBound \in Nat /\ Blobs = 1..SendBound

VARIABLES session,     \* the client state of each session that reads
          got,         \* [Gets -> Seq(Blobs)]: the blobs its recv returned
          sent         \* [Roles -> 0..SendBound]: numbers published so far

sessionVars == <<session, got, sent>>
allVars == <<vars, sessionVars>>

Peer(s) == CHOOSE r \in Roles : r # s

SessionInit ==
  /\ Init
  /\ session = [s \in Gets |-> [pc |-> "idle", recv_seq |-> 0]]
  /\ got = [s \in Gets |-> <<>>]
  /\ sent = [r \in Roles |-> 0]

Send(r) ==
  /\ sent[r] < SendBound
  /\ Publish(Room, r, sent[r] + 1)
  /\ sent' = [sent EXCEPT ![r] = @ + 1]
  /\ UNCHANGED <<session, got>>

Done(r) ==
  /\ MarkDone(Room, r)
  /\ UNCHANGED sessionVars

Request(s) ==
  get' = [get EXCEPT ![s] = [NoGet EXCEPT !.pc = "peek", !.room = Room, !.role = Peer(s),
                                          !.seq = session[s].recv_seq]]

\* recv is called, again perhaps after a failure, and sends its first GET.
Recv(s) ==
  /\ session[s].pc \in {"idle", "failed"}
  /\ session' = [session EXCEPT ![s].pc = "recv"]
  /\ Request(s)
  /\ UNCHANGED <<store, history, got, sent>>

Advance(s) == session[s].recv_seq + 1

OnBlob(s) ==
  /\ session[s].pc = "recv" /\ get[s].answer = "blob"
  /\ session' = [session EXCEPT ![s] = [pc |-> "idle", recv_seq |-> Advance(s)]]
  /\ got' = [got EXCEPT ![s] = Append(@, get[s].blob)]
  /\ Respond(s)
  /\ UNCHANGED sent

OnDone(s) ==
  /\ session[s].pc = "recv" /\ get[s].answer = "done"
  /\ session' = [session EXCEPT ![s].pc = "ended"]
  /\ Respond(s)
  /\ UNCHANGED <<got, sent>>

\* Mutant of OnPending: "not yet" is taken for the end.
PendingEnds(s) ==
  /\ session[s].pc = "recv" /\ get[s].answer = "pending"
  /\ session' = [session EXCEPT ![s].pc = "ended"]
  /\ Respond(s)
  /\ UNCHANGED <<got, sent>>
\* Mutant of OnPending: "not yet" is not asked again.
PendingForgotten(s) ==
  /\ session[s].pc = "recv" /\ get[s].answer = "pending"
  /\ Respond(s)
  /\ UNCHANGED sessionVars
\* 304: the same sequence number again.
OnPending(s) ==
  /\ session[s].pc = "recv" /\ get[s].answer = "pending"
  /\ Request(s)
  /\ UNCHANGED <<store, history, sessionVars>>

\* The round trip fails, wherever its request is.
Fail(s) ==
  /\ session[s].pc = "recv"
  /\ session' = [session EXCEPT ![s].pc = "failed"]
  /\ Disconnect(s)
  /\ UNCHANGED <<got, sent>>

Server ==
  /\ \/ \E r \in Rooms : Delete(r) \/ Expire(r)
     \/ EvictExpired
     \/ \E s \in Gets : Handler(s) \/ Deadline(s)
  /\ UNCHANGED sessionVars

Client(s) == OnBlob(s) \/ OnDone(s) \/ OnPending(s)

SessionNext ==
  \/ \E r \in Roles : Send(r) \/ Done(r)
  \/ \E s \in Gets : Recv(s) \/ Client(s) \/ Fail(s)
  \/ Server

SessionSpec == SessionInit /\ [][SessionNext]_allVars

\* The server answers and clients read the answers; a session whose recv
\* returned a blob receives again, as consume_signaling does until the end.
SessionFairness ==
  \A s \in Gets :
    /\ WF_allVars((Handler(s) \/ Deadline(s)) /\ UNCHANGED sessionVars)
    /\ WF_allVars(Client(s))
    /\ WF_allVars(session[s].pc = "idle" /\ Recv(s))

SessionFairSpec == SessionSpec /\ SessionFairness

-----------------------------------------------------------------------------
(* Properties *)

\* mailbox.wit:56-63 and the two halves of the guest's handshake: a role that
\* is done has its peer's reader reach the end, unless its round trips fail or
\* the room is removed under it.
DoneArrives ==
  \A s \in Gets :
    done[<<Room, Peer(s)>>] ~> (session[s].pc \in {"ended", "failed"} \/ gen[Room] > 0)

\* A mailbox read by a session is the promised stream: exactly what was
\* published for as long as its room lives, and nothing twice or out of order
\* across a removal, whatever round trips fail or are repeated.
Readers == {Peer(s) : s \in Gets}
Contract == INSTANCE MailboxContract WITH
  Roles <- Readers,
  published <- [r \in Readers |-> blobs[<<Room, r>>]],
  frozen <- {r \in Readers : done[<<Room, r>>]},
  received <- [r \in Readers |-> got[Peer(r)]],
  ended <- {r \in Readers : session[Peer(r)].pc = "ended"},
  replaced <- gen[Room] > 0

ImplementsContract == Contract!Spec
=============================================================================
