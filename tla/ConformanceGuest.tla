--------------------------- MODULE ConformanceGuest ---------------------------
(***************************************************************************)
(* The conformance guest (conformance/guest/src/lib.rs).  A test is a       *)
(* program: stages run one after the other, a stage is the threads of one   *)
(* join!, a thread is a sequence of calls and stops at the first that does  *)
(* not answer as expected.  Behavioral tests run as two guests that meet    *)
(* through a mailbox; the others as one guest with both peers.              *)
(*                                                                          *)
(* The mailbox is MailboxContract.  The connection is an environment that   *)
(* keeps the promises of webrtc.wit: channels are ordered, a buffer that    *)
(* overflows closes its channel, a close reaches the other side after       *)
(* whatever was delivered before it and may swallow what is under way.      *)
(***************************************************************************)
EXTENDS Naturals, Sequences, SequencesExt, FiniteSets

CONSTANTS Tests,    \* the tests to run, by what they do
          Count,    \* message-count; messages have one size
          Limit,    \* messages the inbound buffer holds
          Tries,    \* sends post-close-send makes (1000 in the code)
          Lag       \* sends the host may still accept after a close

Sides == {"offerer", "answerer"}
Other(s) == IF s = "offerer" THEN "answerer" ELSE "offerer"
TwoPeer == {"label", "message", "pair", "sequence", "unreliable"}
InProcess == {"round-trip", "overflow", "error-closed", "timed-out", "post-close-send",
              "send-via-stream", "receive-via-stream", "receive-via-stream-once", "invalid-sdp"}
Sentinel == 0
Sdp == 1  Candidate == 2  EndOfCandidates == 3   \* blobs, in the order of a mailbox
Filler == Count + 5                              \* what a loop of sends sends
Nothing == Count + 10                            \* a payload no peer sends

\* A buffer holds the messages of every exchange but the flood's, with the sentinel.
ASSUME GuestAssumption ==
  /\ Tests \subseteq TwoPeer \union InProcess
  /\ {Limit, Lag, Tries} \subseteq Nat /\ Limit >= 3 /\ Count \in 1..(Limit - 1) /\ Lag <= Tries

VARIABLES
  test,
  pos,        \* guest |-> [stage, ix (one per thread), bad]
  verdict,    \* guest |-> "run", "pass", "fail"
  loops,      \* sends of the flood, or of post-close-send
  peer,       \* side |-> [local, remote, cands, conn]: its peer-connection
  chan,       \* side |-> [open, closed, lag, inbox, over, claimed]: its channel
  wire,       \* side |-> messages under way to it
  published, frozen, received, ended, replaced,  \* the mailbox, which stays
  fault       \* something outside the guests went wrong

guestVars == <<pos, verdict, loops>>
mailVars == <<published, frozen, received, ended, replaced>>
hostVars == <<peer, chan, wire>>
vars == <<test, guestVars, hostVars, mailVars, fault>>

Mail == INSTANCE MailboxContract WITH Roles <- Sides, Blobs <- {Sdp, Candidate, EndOfCandidates}

-----------------------------------------------------------------------------
(* The programs *)

Step(op, s) == [op |-> op, at |-> s]
Publish(s, b) == [op |-> "publish", at |-> s, blob |-> b]
\* send: the errors listed are as good as success.
Send(s, m, errs) == [op |-> "send", at |-> s, msg |-> m, errs |-> errs]
\* receive until `want` or one of `errs`; another message fails unless skipped.
Receive(s, want, skip, errs) == [op |-> "receive", at |-> s, want |-> want, skip |-> skip, errs |-> errs]
One(steps) == <<steps>>

\* Publishing ends with the end-of-candidates marker.
PublishCandidates(s) == <<Publish(s, Candidate), Publish(s, EndOfCandidates)>>

HandshakeOfferer ==
  <<Step("offer", "offerer"), Publish("offerer", Sdp)>> \o PublishCandidates("offerer")
    \o <<Step("done", "offerer"), Step("consume", "offerer"), Step("wait", "offerer")>>

HandshakeAnswerer ==
  <<Step("recv-offer", "answerer"), Step("answer", "answerer"), Publish("answerer", Sdp)>>
    \o PublishCandidates("answerer")
    \o <<Step("done", "answerer"), Step("consume", "answerer"), Step("wait", "answerer"),
         Step("incoming", "answerer")>>

SendSequence(s) == [i \in 1..Count |-> Send(s, i, {})]
RecvSequence(s) == [i \in 1..Count |-> Receive(s, i, FALSE, {})]
Payload(s, i) == <<Send(s, i, {}), Receive(s, i, FALSE, {})>>

Exchange(s) ==
  CASE test = "label" -> One(<<>>)
    [] test \in {"message", "unreliable"} -> One(Payload(s, 1))
    [] test = "pair" -> One(<<Send(s, 1, {}), Send(s, 2, {}), Receive(s, 1, FALSE, {}), Receive(s, 2, FALSE, {})>>)
    [] test = "sequence" -> <<SendSequence(s), RecvSequence(s)>>

\* Mutant of Barrier: the guest does not wait for the other's sentinel.
BarrierSendOnly(s) == <<<<Send(s, Sentinel, {"closed"})>>>>
\* Mutant of Barrier: a close is an error.
BarrierStrict(s) == <<<<Send(s, Sentinel, {})>>, <<Receive(s, Sentinel, TRUE, {})>>>>
Barrier(s) == <<<<Send(s, Sentinel, {"closed"})>>, <<Receive(s, Sentinel, TRUE, {"closed"})>>>>

RunTwoPeer(s) ==
  <<IF s = "offerer" THEN One(HandshakeOfferer) ELSE One(HandshakeAnswerer),
    Exchange(s), Barrier(s), One(<<Step("close", s)>>)>>

InprocConnect ==
  <<One(<<Step("offer", "offerer"), Step("set-remote", "answerer"), Step("answer", "answerer"),
          Step("set-remote", "offerer"), Step("add-candidates", "offerer"), Step("add-candidates", "answerer")>>),
    <<<<Step("wait", "offerer")>>, <<Step("wait", "answerer")>>>>,
    One(<<Step("incoming", "answerer")>>)>>

CloseBoth == <<One(<<Step("close", "offerer"), Step("close", "answerer")>>)>>

\* exchange_once and inproc_round_trip.
RoundTrip ==
  InprocConnect
    \o <<<<<<Send("offerer", 1, {}), Receive("offerer", 2, FALSE, {})>>,
           <<Receive("answerer", 1, FALSE, {}), Send("answerer", 2, {})>>>>>>
    \o CloseBoth

\* Flood, wait for the close on this side, drain the other side.
ReceiveOverflow ==
  InprocConnect
    \o <<One(<<Step("flood", "offerer"), Receive("offerer", Nothing, FALSE, {"closed", "overflow"}),
               Receive("answerer", Nothing, TRUE, {"overflow"})>>)>>
    \o CloseBoth

ErrorClosed ==
  InprocConnect
    \o <<One(<<Step("close", "offerer"), Receive("offerer", Nothing, TRUE, {"closed"}), Step("close", "answerer")>>)>>

PostCloseSend ==
  InprocConnect
    \o <<One(<<Step("close", "offerer"), Step("send-until-closed", "offerer"), Step("close", "answerer")>>)>>

ErrorTimedOut == <<One(<<Step("offer", "offerer"), Step("times-out", "offerer"), Step("close", "offerer")>>)>>

\* The sending half completes before the receiving half starts.
SendViaStream == InprocConnect \o <<One(SendSequence("offerer")), One(RecvSequence("answerer"))>> \o CloseBoth

ReceiveViaStream ==
  InprocConnect
    \o <<One(SendSequence("offerer")),
         One(<<Step("claim", "answerer")>> \o [i \in 1..Count |-> [op |-> "read", at |-> "answerer", want |-> i]])>>
    \o CloseBoth

ReceiveViaStreamOnce ==
  InprocConnect
    \o <<<<<<Receive("answerer", Nothing, FALSE, {"claimed"})>>, <<Step("claim", "answerer")>>>>,
         One(<<Step("claim-fails", "answerer"), Receive("answerer", Nothing, FALSE, {"claimed"})>>)>>
    \o CloseBoth

InvalidSdp == <<One(<<Step("malformed", "offerer")>>)>>

RunInproc ==
  CASE test = "round-trip" -> RoundTrip
    [] test = "overflow" -> ReceiveOverflow
    [] test = "error-closed" -> ErrorClosed
    [] test = "timed-out" -> ErrorTimedOut
    [] test = "post-close-send" -> PostCloseSend
    [] test = "send-via-stream" -> SendViaStream
    [] test = "receive-via-stream" -> ReceiveViaStream
    [] test = "receive-via-stream-once" -> ReceiveViaStreamOnce
    [] test = "invalid-sdp" -> InvalidSdp

Guests == IF test \in TwoPeer THEN Sides ELSE {"both"}
Run(g) == IF g = "both" THEN RunInproc ELSE RunTwoPeer(g)

-----------------------------------------------------------------------------
Threads == 1..2
Stage(g) == Run(g)[pos[g].stage]
Length(g, t) == IF t <= Len(Stage(g)) THEN Len(Stage(g)[t]) ELSE 0
Finished(g, t) == pos[g].ix[t] > Length(g, t)
Owned(g) == IF g = "both" THEN Sides ELSE {g}

Init ==
  /\ test \in Tests
  /\ pos = [g \in Guests |-> [stage |-> 1, ix |-> <<1, 1>>, bad |-> FALSE]]
  /\ verdict = [g \in Guests |-> "run"]
  /\ loops = 0
  /\ peer = [s \in Sides |-> [local |-> FALSE, remote |-> FALSE, cands |-> 0, conn |-> "new"]]
  /\ chan = [s \in Sides |-> [open |-> FALSE, closed |-> FALSE, lag |-> 0, inbox |-> <<>>, over |-> FALSE, claimed |-> FALSE]]
  /\ wire = [s \in Sides |-> <<>>]
  /\ Mail!Init
  /\ fault = FALSE

\* Thread t of guest g is about to make the call st; it goes on, or stops.
At(g, t, st) == verdict[g] = "run" /\ ~Finished(g, t) /\ st = Stage(g)[t][pos[g].ix[t]]
Goes(g, t) == pos' = [pos EXCEPT ![g].ix[t] = @ + 1] /\ UNCHANGED <<verdict, test>>
Stops(g, t) == pos' = [pos EXCEPT ![g].ix[t] = Length(g, t) + 1, ![g].bad = TRUE] /\ UNCHANGED <<verdict, test>>
Stays == UNCHANGED <<pos, verdict, test>>
Answers(g, t, ok) == IF ok THEN Goes(g, t) ELSE Stops(g, t)

Closed(p) == [p EXCEPT !.conn = "closed"]
Dead(s) == chan[s].closed /\ chan[s].lag = 0

\* The join! is over: its first error, the next stage, or the end.
NextStage(g) ==
  /\ verdict[g] = "run" /\ \A t \in Threads : Finished(g, t)
  /\ IF pos[g].bad
       THEN /\ verdict' = [verdict EXCEPT ![g] = "fail"]
            /\ peer' = [s \in Sides |-> IF s \in Owned(g) THEN Closed(peer[s]) ELSE peer[s]]
            /\ chan' = [s \in Sides |-> IF s \in Owned(g) THEN [chan[s] EXCEPT !.closed = TRUE] ELSE chan[s]]
            /\ UNCHANGED pos
       ELSE /\ IF pos[g].stage = Len(Run(g))
                 THEN verdict' = [verdict EXCEPT ![g] = "pass"] /\ UNCHANGED pos
                 ELSE pos' = [pos EXCEPT ![g] = [stage |-> @.stage + 1, ix |-> <<1, 1>>, bad |-> FALSE]] /\ UNCHANGED verdict
            /\ UNCHANGED <<peer, chan>>
  /\ UNCHANGED <<test, loops, wire, mailVars, fault>>

(* Signaling calls *)

Describe(g, t, st) ==
  /\ At(g, t, st)
  /\ \/ /\ st.op \in {"offer", "answer"}
        /\ peer' = [peer EXCEPT ![st.at].local = TRUE]
     \/ st.op = "set-remote" /\ peer' = [peer EXCEPT ![st.at].remote = TRUE]
     \/ st.op = "add-candidates" /\ peer' = [peer EXCEPT ![st.at].cands = @ + 1]
     \/ st.op = "malformed" /\ UNCHANGED peer
  /\ Goes(g, t)
  /\ UNCHANGED <<loops, chan, wire, mailVars, fault>>

PublishOrDone(g, t, st) ==
  /\ At(g, t, st)
  /\ \/ st.op = "publish" /\ Mail!Publish(st.at, st.blob)
     \/ st.op = "done" /\ Mail!Freeze(st.at)
  /\ Goes(g, t)
  /\ UNCHANGED <<loops, hostVars, fault>>

RecvOffer(g, t, st) ==
  /\ At(g, t, st) /\ st.op = "recv-offer"
  /\ \/ /\ Mail!Receive(Other(st.at), Sdp) /\ Goes(g, t)
        /\ peer' = [peer EXCEPT ![st.at].remote = TRUE]
     \/ Mail!End(Other(st.at)) /\ Stops(g, t) /\ UNCHANGED peer
  /\ UNCHANGED <<loops, chan, wire, fault>>

\* A candidate needs the remote description; a second offer is refused.
ConsumeSignaling(g, t, st) ==
  /\ At(g, t, st) /\ st.op = "consume"
  /\ LET s == st.at IN
     \/ Mail!Receive(Other(s), EndOfCandidates) /\ Stays /\ UNCHANGED peer
     \/ /\ Mail!Receive(Other(s), Sdp) /\ peer' = [peer EXCEPT ![s].remote = TRUE]
        /\ IF s = "offerer" THEN Stays ELSE Stops(g, t)
     \/ /\ Mail!Receive(Other(s), Candidate) /\ peer' = [peer EXCEPT ![s].cands = @ + 1]
        /\ IF peer[s].remote THEN Stays ELSE Stops(g, t)
     \/ Mail!End(Other(s)) /\ Goes(g, t) /\ UNCHANGED peer
  /\ UNCHANGED <<loops, chan, wire, fault>>

Lost(s) == peer[s].conn \in {"closed", "failed"}

WaitConnected(g, t, st) ==
  /\ At(g, t, st)
  /\ \/ st.op = "wait" /\ peer[st.at].conn = "connected" /\ Goes(g, t)
     \/ st.op = "wait" /\ (Lost(st.at) \/ Lost(Other(st.at))) /\ Stops(g, t)
     \/ st.op = "times-out" /\ Answers(g, t, peer[st.at].conn = "new")
  /\ UNCHANGED <<loops, hostVars, mailVars, fault>>

FirstIncoming(g, t, st) ==
  /\ At(g, t, st) /\ st.op = "incoming"
  /\ chan[st.at].open \/ Dead(st.at)
  /\ Answers(g, t, chan[st.at].open)
  /\ UNCHANGED <<loops, hostVars, mailVars, fault>>

(* Calls on the channel *)

\* What a send that is accepted does: after a close nothing is under way.
Accepted(s, m) ==
  IF chan[s].closed
    THEN chan' = [chan EXCEPT ![s].lag = @ - 1] /\ UNCHANGED wire
    ELSE /\ wire' = [wire EXCEPT ![Other(s)] = IF chan[Other(s)].closed THEN @ ELSE Append(@, m)]
         /\ UNCHANGED chan

SendCall(g, t, st) ==
  /\ At(g, t, st) /\ st.op = "send"
  /\ \/ Dead(st.at) /\ Answers(g, t, "closed" \in st.errs) /\ UNCHANGED <<chan, wire>>
     \/ ~Dead(st.at) /\ chan[st.at].open /\ Accepted(st.at, st.msg) /\ Goes(g, t)
  /\ UNCHANGED <<loops, peer, mailVars, fault>>

\* Mutant of SendLoop: the flood is one message short of the buffer's limit.
SendLoopShort(g, t, st) ==
  /\ At(g, t, st) /\ st.op \in {"flood", "send-until-closed"}
  /\ \/ Dead(st.at) /\ Goes(g, t) /\ UNCHANGED <<loops, chan, wire>>
     \/ /\ ~Dead(st.at) /\ chan[st.at].open
        /\ Accepted(st.at, Filler)
        /\ loops' = loops + 1
        /\ CASE st.op = "flood" /\ loops' = Limit -> Goes(g, t)
             [] st.op = "send-until-closed" /\ loops' >= Tries -> Stops(g, t)
             [] OTHER -> Stays
  /\ UNCHANGED <<peer, mailVars, fault>>
\* A flood one message larger than the buffer; sends until one fails.
SendLoop(g, t, st) ==
  /\ At(g, t, st) /\ st.op \in {"flood", "send-until-closed"}
  /\ \/ Dead(st.at) /\ Goes(g, t) /\ UNCHANGED <<loops, chan, wire>>
     \/ /\ ~Dead(st.at) /\ chan[st.at].open
        /\ Accepted(st.at, Filler)
        /\ loops' = loops + 1
        /\ CASE st.op = "flood" /\ loops' = Limit + 1 -> Goes(g, t)
             [] st.op = "send-until-closed" /\ loops' > Tries -> Stops(g, t)
             [] OTHER -> Stays
  /\ UNCHANGED <<peer, mailVars, fault>>

ReceiveCall(g, t, st) ==
  /\ At(g, t, st) /\ st.op = "receive"
  /\ LET c == chan[st.at] IN
     \/ c.claimed /\ Answers(g, t, "claimed" \in st.errs) /\ UNCHANGED chan
     \/ /\ ~c.claimed /\ c.inbox # <<>>
        /\ chan' = [chan EXCEPT ![st.at].inbox = Tail(@)]
        /\ IF Head(c.inbox) # st.want /\ st.skip THEN Stays ELSE Answers(g, t, Head(c.inbox) = st.want)
     \/ /\ ~c.claimed /\ c.inbox = <<>> /\ (c.over \/ Dead(st.at))
        /\ Answers(g, t, (IF c.over THEN "overflow" ELSE "closed") \in st.errs) /\ UNCHANGED chan
  /\ UNCHANGED <<loops, peer, wire, mailVars, fault>>

StreamCall(g, t, st) ==
  /\ At(g, t, st)
  /\ LET c == chan[st.at] IN
     \/ /\ st.op = "claim" /\ Answers(g, t, ~c.claimed)
        /\ chan' = [chan EXCEPT ![st.at].claimed = TRUE]
     \/ st.op = "claim-fails" /\ Answers(g, t, c.claimed) /\ UNCHANGED chan
     \/ /\ st.op = "read" /\ c.inbox # <<>>
        /\ chan' = [chan EXCEPT ![st.at].inbox = Tail(@)]
        /\ Answers(g, t, Head(c.inbox) = st.want)
     \/ st.op = "read" /\ c.inbox = <<>> /\ Dead(st.at) /\ Stops(g, t) /\ UNCHANGED chan
  /\ UNCHANGED <<loops, peer, wire, mailVars, fault>>

Close(g, t, st) ==
  /\ At(g, t, st) /\ st.op = "close"
  /\ \E lag \in 0..Lag : chan' = [chan EXCEPT ![st.at].closed = TRUE, ![st.at].lag = lag]
  /\ peer' = [peer EXCEPT ![st.at] = Closed(@)]
  /\ Goes(g, t)
  /\ UNCHANGED <<loops, wire, mailVars, fault>>

-----------------------------------------------------------------------------
(* The connection *)

Connect(s) ==
  /\ peer[s].conn = "new"
  /\ \A r \in Sides : peer[r].local /\ peer[r].remote
  /\ \E r \in Sides : peer[r].cands > 0
  /\ ~Lost(Other(s))
  /\ peer' = [peer EXCEPT ![s].conn = "connected"]
  /\ UNCHANGED <<test, guestVars, chan, wire, mailVars, fault>>

Open(s) ==
  /\ \A r \in Sides : peer[r].conn = "connected"
  /\ ~chan[s].open
  /\ chan' = [chan EXCEPT ![s].open = TRUE]
  /\ UNCHANGED <<test, guestVars, peer, wire, mailVars, fault>>

Deliver(s) ==
  /\ chan[s].open /\ ~chan[s].closed /\ wire[s] # <<>>
  /\ IF Len(chan[s].inbox) < Limit
       THEN /\ chan' = [chan EXCEPT ![s].inbox = Append(@, Head(wire[s]))]
            /\ wire' = [wire EXCEPT ![s] = Tail(@)]
       ELSE /\ chan' = [chan EXCEPT ![s].over = TRUE, ![s].closed = TRUE]
            /\ wire' = [wire EXCEPT ![s] = <<>>]
  /\ UNCHANGED <<test, guestVars, peer, mailVars, fault>>

\* The close of one side reaches the other; what is still under way is lost.
CloseArrives(s) ==
  /\ chan[Other(s)].closed /\ ~chan[s].closed /\ peer[s].conn # "new"
  /\ chan' = [chan EXCEPT ![s].closed = TRUE]
  /\ wire' = [wire EXCEPT ![s] = <<>>]
  /\ peer' = [peer EXCEPT ![s].conn = IF Lost(Other(s)) THEN "failed" ELSE @]
  /\ UNCHANGED <<test, guestVars, mailVars, fault>>

LagPasses(s) ==
  /\ chan[s].lag > 0
  /\ chan' = [chan EXCEPT ![s].lag = @ - 1]
  /\ UNCHANGED <<test, guestVars, peer, wire, mailVars, fault>>

(* Faults, at most one *)

CallFails(g, t) ==
  /\ ~fault /\ verdict[g] = "run" /\ ~Finished(g, t)
  /\ fault' = TRUE
  /\ Stops(g, t)
  /\ UNCHANGED <<loops, hostVars, mailVars>>

ConnectionBreaks ==
  /\ ~fault /\ \E s \in Sides : peer[s].conn = "connected"
  /\ fault' = TRUE
  /\ peer' = [s \in Sides |-> [peer[s] EXCEPT !.conn = "failed"]]
  /\ chan' = [s \in Sides |-> [chan[s] EXCEPT !.closed = TRUE]]
  /\ wire' = [s \in Sides |-> <<>>]
  /\ UNCHANGED <<test, guestVars, mailVars>>

\* max-retransmits is 0 in one test.
MessageLost(s) ==
  /\ ~fault /\ test = "unreliable" /\ wire[s] # <<>>
  /\ fault' = TRUE
  /\ wire' = [wire EXCEPT ![s] = Tail(@)]
  /\ UNCHANGED <<test, guestVars, peer, chan, mailVars>>

-----------------------------------------------------------------------------
Current(g, t) == Stage(g)[t][pos[g].ix[t]]
Call(g, t) ==
  /\ ~Finished(g, t)
  /\ LET st == Current(g, t) IN
     \/ Describe(g, t, st) \/ PublishOrDone(g, t, st) \/ RecvOffer(g, t, st) \/ ConsumeSignaling(g, t, st)
     \/ WaitConnected(g, t, st) \/ FirstIncoming(g, t, st) \/ SendCall(g, t, st) \/ SendLoop(g, t, st)
     \/ ReceiveCall(g, t, st) \/ StreamCall(g, t, st) \/ Close(g, t, st)

Progress ==
  \/ \E g \in Guests : NextStage(g) \/ \E t \in Threads : Call(g, t)
  \/ \E s \in Sides : Connect(s) \/ Open(s) \/ Deliver(s) \/ CloseArrives(s) \/ LagPasses(s)

Next ==
  \/ Progress
  \/ \E g \in Guests, t \in Threads : CallFails(g, t)
  \/ ConnectionBreaks
  \/ \E s \in Sides : MessageLost(s)

Spec == Init /\ [][Next]_vars

\* Guests and hosts make progress; nothing they do goes on for ever, so one
\* condition serves them all.
FairSpec == Spec /\ WF_vars(Progress)

-----------------------------------------------------------------------------
(* Properties *)

\* The types of the variables; a channel's buffer keeps its limit.
TypeOK ==
  /\ test \in Tests /\ fault \in BOOLEAN /\ loops \in 0..(Limit + Tries + 2)
  /\ \A g \in Guests : verdict[g] \in {"run", "pass", "fail"} /\ pos[g].stage \in 1..Len(Run(g))
  /\ \A s \in Sides :
       /\ peer[s].conn \in {"new", "connected", "closed", "failed"} /\ peer[s].cands \in 0..1
       /\ Len(chan[s].inbox) <= Limit /\ chan[s].lag \in 0..Lag

\* A conforming host passes: whatever the order of the two guests' steps, of the
\* mailbox and of the network, a test fails only if something outside failed.
\* In particular neither guest closes while the other still needs the channel.
FailsOnlyOnFault == TypeOK /\ ((\E g \in Guests : verdict[g] = "fail") => fault)

\* lib.rs:399-405: a guest that is past the rendezvous has a peer that is done
\* with its own exchange, unless something failed.
Rendezvous ==
  \A g \in Guests \cap Sides : pos[g].stage = 4 => fault \/ pos[Other(g)].stage >= 3

\* Without a fault every test ends, and not by its time-out.  Once both guests
\* are connected both end, whatever fails from there on: a guest that stops
\* closes its connection, and a close ends every wait of the other.
TestsEnd ==
  /\ <>(fault \/ \A g \in Guests : verdict[g] # "run")
  /\ (test \in TwoPeer \ {"unreliable"} /\ \A g \in Guests : pos[g].stage >= 2)
       ~> (\A g \in Guests : verdict[g] # "run")
=============================================================================
