--------------------------- MODULE InboundContract ---------------------------
(***************************************************************************)
(* What every implementation of the `data-channel` resource promises about *)
(* inbound messages (wit/webrtc.wit, "Inbound buffering", lines 179-194).   *)
(* Messages of a channel are numbered in the order they arrive.  The        *)
(* channel accepts a prefix of them into a backlog, hands the backlog out   *)
(* one message at a time in that order, and once the channel is over and    *)
(* the backlog is drained every receive reports the same ending: `closed`,  *)
(* or `receive-buffer-overflow` when the bounded buffer overflowed.         *)
(***************************************************************************)
EXTENDS Naturals

CONSTANTS Channels,   \* the data channels of one peer connection
          MaxMsgs     \* bound: messages that arrive on one channel

VARIABLES status,     \* [Channels -> Status]
          accepted,   \* messages taken into the backlog so far
          taken,      \* number of the last message handed to the guest
          ended       \* the ending a receive reported, or "none"

vars == <<status, accepted, taken, ended>>

Ending == {"closed", "overflow"}
Status == {"opening", "open"} \union Ending

Init ==
  /\ status \in [Channels -> {"opening", "closed"}]
  /\ accepted = [c \in Channels |-> 0]
  /\ taken = [c \in Channels |-> 0]
  /\ ended = [c \in Channels |-> "none"]

Open(c) ==
  /\ status[c] = "opening"
  /\ status' = [status EXCEPT ![c] = "open"]
  /\ UNCHANGED <<accepted, taken, ended>>

Accept(c) ==
  /\ status[c] = "open"
  /\ accepted[c] < MaxMsgs
  /\ accepted' = [accepted EXCEPT ![c] = @ + 1]
  /\ UNCHANGED <<status, taken, ended>>

Overflow(c) ==
  /\ status[c] = "open"
  /\ status' = [status EXCEPT ![c] = "overflow"]
  /\ UNCHANGED <<accepted, taken, ended>>

\* A channel closes alone, or every channel that is not over closes with the
\* connection.
Close(S) ==
  /\ S # {}
  /\ \A c \in S : status[c] \notin Ending
  /\ status' = [c \in Channels |-> IF c \in S THEN "closed" ELSE status[c]]
  /\ UNCHANGED <<accepted, taken, ended>>

Take(c) ==
  /\ taken[c] < accepted[c]
  /\ taken' = [taken EXCEPT ![c] = @ + 1]
  /\ UNCHANGED <<status, accepted, ended>>

Report(c) ==
  /\ status[c] \in Ending
  /\ taken[c] = accepted[c]
  /\ ended' = [ended EXCEPT ![c] = status[c]]
  /\ UNCHANGED <<status, accepted, taken>>

Next ==
  \/ \E c \in Channels : Open(c) \/ Accept(c) \/ Overflow(c) \/ Take(c) \/ Report(c)
  \/ \E S \in SUBSET Channels : Close(S)

Spec == Init /\ [][Next]_vars
=============================================================================
