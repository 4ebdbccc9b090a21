------------------------ MODULE ConformanceGuest_proofs ------------------------
(***************************************************************************)
(* Proofs about ConformanceGuest, for every set of tests, every number of   *)
(* messages, every limit of the buffers, every bound of the loops and every *)
(* lag of a close.                                                          *)
(*                                                                          *)
(* A program is a sequence of stages of sequences of calls; StageTable      *)
(* turns each into a table, so that the proofs speak of places: stage K(g)  *)
(* of guest g, call I(g) of its first thread and J(g) of its second.        *)
(*                                                                          *)
(* The invariant has two halves.  Always holds in any state.  Good holds    *)
(* until a fault: no guest has stopped (RunsInv), because what each call    *)
(* needs is there: a side is closed only where its test has come to close   *)
(* it (EndInv), what one side sent is what the other has taken, holds and   *)
(* is about to get, in that order (FlowInv), the stream is claimed where    *)
(* the program claimed it (ClaimInv), and the descriptions and candidates   *)
(* are those of the mailboxes (MetInv).  A guest past the rendezvous has    *)
(* counted the sentinel of the other, which FlowInv says the other sent;    *)
(* that is why no guest closes on a peer that still exchanges.              *)
(***************************************************************************)
EXTENDS ConformanceGuest, TLAPS

B == "both"
K(g) == pos[g].stage
I(g) == pos[g].ix[1]
J(g) == pos[g].ix[2]

\* The tests of one guest that connects its two peers.
Connected == InProcess \ {"timed-out", "invalid-sdp"}

\* The messages each side of a two-peer test sends in the exchange.
Msgs == CASE test = "label" -> 0 [] test \in {"message", "unreliable"} -> 1
          [] test = "pair" -> 2 [] OTHER -> Count

(* The calls, by their place *)

Is(st, op, s) == st.op = op /\ st.at = s
Sends(st, s, m, errs) == Is(st, "send", s) /\ st.msg = m /\ st.errs = errs
Receives(st, s, want, skip, errs) ==
  Is(st, "receive", s) /\ st.want = want /\ st.skip = skip /\ st.errs = errs

Offset(s) == IF s = "offerer" THEN 2 ELSE 3
HandshakeSize(s) == IF s = "offerer" THEN 7 ELSE 9

HandshakeCall(s, i, st) ==
  \/ i = 1 /\ s = "offerer" /\ Is(st, "offer", s)
  \/ i = 1 /\ s = "answerer" /\ Is(st, "recv-offer", s)
  \/ i = 2 /\ s = "answerer" /\ Is(st, "answer", s)
  \/ i \in Offset(s)..(Offset(s) + 2) /\ Is(st, "publish", s) /\ st.blob = i + 1 - Offset(s)
  \/ i = Offset(s) + 3 /\ Is(st, "done", s)
  \/ i = Offset(s) + 4 /\ Is(st, "consume", s)
  \/ i = Offset(s) + 5 /\ Is(st, "wait", s)
  \/ i = 9 /\ s = "answerer" /\ Is(st, "incoming", s)

ExchangeCall(s, t, i, st) ==
  \/ t = 1 /\ i \in 1..Msgs /\ Sends(st, s, i, {})
  \/ t = 1 /\ test # "sequence" /\ i \in (Msgs + 1)..(2 * Msgs) /\ Receives(st, s, i - Msgs, FALSE, {})
  \/ t = 2 /\ test = "sequence" /\ i \in 1..Msgs /\ Receives(st, s, i, FALSE, {})
ExchangeSize(t) ==
  CASE test = "sequence" -> Msgs [] test # "sequence" /\ t = 1 -> 2 * Msgs [] OTHER -> 0

BarrierCall(s, t, st) ==
  \/ t = 1 /\ Sends(st, s, Sentinel, {"closed"})
  \/ t = 2 /\ Receives(st, s, Sentinel, TRUE, {"closed"})

PeerSize(s, k, t) ==
  CASE k = 1 -> IF t = 1 THEN HandshakeSize(s) ELSE 0
    [] k = 2 -> ExchangeSize(t)
    [] k = 3 -> 1
    [] k = 4 -> IF t = 1 THEN 1 ELSE 0
PeerCall(s, k, t, i, st) ==
  \/ k = 1 /\ t = 1 /\ HandshakeCall(s, i, st)
  \/ k = 2 /\ ExchangeCall(s, t, i, st)
  \/ k = 3 /\ i = 1 /\ BarrierCall(s, t, st)
  \/ k = 4 /\ t = 1 /\ i = 1 /\ Is(st, "close", s)

\* The tests that end with a stage that closes both peers, and where it is.
ClosesAt == CASE test \in {"round-trip", "overflow"} -> 5
              [] test \in {"send-via-stream", "receive-via-stream", "receive-via-stream-once"} -> 6
              [] OTHER -> 0
StageCount ==
  CASE test \in {"timed-out", "invalid-sdp"} -> 1
    [] test \in {"error-closed", "post-close-send"} \union TwoPeer -> 4
    [] OTHER -> ClosesAt

ConnectSize(k, t) == CASE k = 1 /\ t = 1 -> 6 [] k = 2 -> 1 [] k = 3 /\ t = 1 -> 1 [] OTHER -> 0
ConnectCall(k, t, i, st) ==
  \/ k = 1 /\ i = 1 /\ Is(st, "offer", "offerer")
  \/ k = 1 /\ i = 2 /\ Is(st, "set-remote", "answerer")
  \/ k = 1 /\ i = 3 /\ Is(st, "answer", "answerer")
  \/ k = 1 /\ i = 4 /\ Is(st, "set-remote", "offerer")
  \/ k = 1 /\ i = 5 /\ Is(st, "add-candidates", "offerer")
  \/ k = 1 /\ i = 6 /\ Is(st, "add-candidates", "answerer")
  \/ k = 2 /\ t = 1 /\ Is(st, "wait", "offerer")
  \/ k = 2 /\ t = 2 /\ Is(st, "wait", "answerer")
  \/ k = 3 /\ Is(st, "incoming", "answerer")

\* The stages after the connection and before the closes.
FourthSize(t) ==
  CASE test = "round-trip" -> 2
    [] test \in {"send-via-stream", "receive-via-stream"} -> IF t = 1 THEN Count ELSE 0
    [] test = "receive-via-stream-once" -> 1
    [] OTHER -> IF t = 1 THEN 3 ELSE 0
FourthCall(t, i, st) ==
  CASE test = "round-trip" ->
         \/ t = 1 /\ i = 1 /\ Sends(st, "offerer", 1, {})
         \/ t = 1 /\ i = 2 /\ Receives(st, "offerer", 2, FALSE, {})
         \/ t = 2 /\ i = 1 /\ Receives(st, "answerer", 1, FALSE, {})
         \/ t = 2 /\ i = 2 /\ Sends(st, "answerer", 2, {})
    [] test = "overflow" ->
         \/ i = 1 /\ Is(st, "flood", "offerer")
         \/ i = 2 /\ Receives(st, "offerer", Nothing, FALSE, {"closed", "overflow"})
         \/ i = 3 /\ Receives(st, "answerer", Nothing, TRUE, {"overflow"})
    [] test = "error-closed" ->
         \/ i = 1 /\ Is(st, "close", "offerer")
         \/ i = 2 /\ Receives(st, "offerer", Nothing, TRUE, {"closed"})
         \/ i = 3 /\ Is(st, "close", "answerer")
    [] test = "post-close-send" ->
         \/ i = 1 /\ Is(st, "close", "offerer")
         \/ i = 2 /\ Is(st, "send-until-closed", "offerer")
         \/ i = 3 /\ Is(st, "close", "answerer")
    [] test = "receive-via-stream-once" ->
         \/ t = 1 /\ Receives(st, "answerer", Nothing, FALSE, {"claimed"})
         \/ t = 2 /\ Is(st, "claim", "answerer")
    [] OTHER -> Sends(st, "offerer", i, {})

FifthSize(t) ==
  IF t = 2 THEN 0
  ELSE CASE test = "send-via-stream" -> Count [] test = "receive-via-stream" -> Count + 1 [] OTHER -> 2
FifthCall(i, st) ==
  CASE test = "send-via-stream" -> Receives(st, "answerer", i, FALSE, {})
    [] test = "receive-via-stream" ->
         \/ i = 1 /\ Is(st, "claim", "answerer")
         \/ i > 1 /\ Is(st, "read", "answerer") /\ st.want = i - 1
    [] OTHER ->
         \/ i = 1 /\ Is(st, "claim-fails", "answerer")
         \/ i = 2 /\ Receives(st, "answerer", Nothing, FALSE, {"claimed"})

LastCall(i, st) ==
  \/ i = 1 /\ Is(st, "close", "offerer")
  \/ i = 2 /\ Is(st, "close", "answerer")

InprocSize(k, t) ==
  IF test = "timed-out" THEN IF t = 1 THEN 3 ELSE 0
  ELSE IF test = "invalid-sdp" THEN IF t = 1 THEN 1 ELSE 0
  ELSE IF k <= 3 THEN ConnectSize(k, t)
  ELSE IF k = ClosesAt THEN IF t = 1 THEN 2 ELSE 0
  ELSE IF k = 4 THEN FourthSize(t)
  ELSE FifthSize(t)
InprocCall(k, t, i, st) ==
  IF test = "timed-out"
    THEN \/ i = 1 /\ Is(st, "offer", "offerer")
         \/ i = 2 /\ Is(st, "times-out", "offerer")
         \/ i = 3 /\ Is(st, "close", "offerer")
  ELSE IF test = "invalid-sdp" THEN Is(st, "malformed", "offerer")
  ELSE IF k <= 3 THEN ConnectCall(k, t, i, st)
  ELSE IF k = ClosesAt THEN LastCall(i, st)
  ELSE IF k = 4 THEN FourthCall(t, i, st)
  ELSE FifthCall(i, st)

-----------------------------------------------------------------------------
\* Each call of a handshake is at its place.
LEMMA HandshakeCalls ==
  ASSUME NEW s \in Sides, NEW h, h = IF s = "offerer" THEN HandshakeOfferer ELSE HandshakeAnswerer
  PROVE  Len(h) = HandshakeSize(s) /\ \A i \in 1..HandshakeSize(s) : HandshakeCall(s, i, h[i])
<1>1. /\ Len(HandshakeOfferer) = 7
      /\ Is(HandshakeOfferer[1], "offer", "offerer")
      /\ Is(HandshakeOfferer[2], "publish", "offerer") /\ HandshakeOfferer[2].blob = 1
      /\ Is(HandshakeOfferer[3], "publish", "offerer") /\ HandshakeOfferer[3].blob = 2
      /\ Is(HandshakeOfferer[4], "publish", "offerer") /\ HandshakeOfferer[4].blob = 3
      /\ Is(HandshakeOfferer[5], "done", "offerer")
      /\ Is(HandshakeOfferer[6], "consume", "offerer")
      /\ Is(HandshakeOfferer[7], "wait", "offerer")
  BY DEF HandshakeOfferer, PublishCandidates, Publish, Step, Is, Sdp, Candidate, EndOfCandidates
<1>2. /\ Len(HandshakeAnswerer) = 9
      /\ Is(HandshakeAnswerer[1], "recv-offer", "answerer")
      /\ Is(HandshakeAnswerer[2], "answer", "answerer")
      /\ Is(HandshakeAnswerer[3], "publish", "answerer") /\ HandshakeAnswerer[3].blob = 1
      /\ Is(HandshakeAnswerer[4], "publish", "answerer") /\ HandshakeAnswerer[4].blob = 2
      /\ Is(HandshakeAnswerer[5], "publish", "answerer") /\ HandshakeAnswerer[5].blob = 3
      /\ Is(HandshakeAnswerer[6], "done", "answerer")
      /\ Is(HandshakeAnswerer[7], "consume", "answerer")
      /\ Is(HandshakeAnswerer[8], "wait", "answerer")
      /\ Is(HandshakeAnswerer[9], "incoming", "answerer")
  BY DEF HandshakeAnswerer, PublishCandidates, Publish, Step, Is, Sdp, Candidate, EndOfCandidates
<1>3. CASE s = "offerer"
  <2>1. h = HandshakeOfferer /\ HandshakeSize(s) = 7 /\ Offset(s) = 2
    BY <1>3 DEF HandshakeSize, Offset
  <2>2. ASSUME NEW i \in 1..7 PROVE HandshakeCall(s, i, HandshakeOfferer[i])
    <3>1. i = 1 \/ i = 2 \/ i = 3 \/ i = 4 \/ i = 5 \/ i = 6 \/ i = 7
      BY <2>2
    <3> QED BY <1>1, <1>3, <2>1, <3>1 DEF HandshakeCall
  <2> QED BY <1>1, <2>1, <2>2
<1>4. CASE s = "answerer"
  <2>1. h = HandshakeAnswerer /\ HandshakeSize(s) = 9 /\ Offset(s) = 3
    BY <1>4 DEF HandshakeSize, Offset
  <2>2. ASSUME NEW i \in 1..9 PROVE HandshakeCall(s, i, HandshakeAnswerer[i])
    <3>1. i = 1 \/ i = 2 \/ i = 3 \/ i = 4 \/ i = 5 \/ i = 6 \/ i = 7 \/ i = 8 \/ i = 9
      BY <2>2
    <3> QED BY <1>2, <1>4, <2>1, <3>1 DEF HandshakeCall
  <2> QED BY <1>2, <2>1, <2>2
<1> QED BY <1>3, <1>4 DEF Sides

\* The stages of a two-peer test.
LEMMA PeerStages ==
  ASSUME NEW s \in Sides
  PROVE  /\ Len(RunTwoPeer(s)) = 4
         /\ RunTwoPeer(s)[1] = One(IF s = "offerer" THEN HandshakeOfferer ELSE HandshakeAnswerer)
         /\ RunTwoPeer(s)[2] = Exchange(s)
         /\ RunTwoPeer(s)[3] = Barrier(s)
         /\ RunTwoPeer(s)[4] = One(<<Step("close", s)>>)
BY DEF RunTwoPeer, Sides, One

\* A two-peer test runs the program of its side.
LEMMA PeerProgram ==
  ASSUME test \in TwoPeer, NEW s \in Sides
  PROVE  Run(s) = RunTwoPeer(s) /\ Guests = Sides
BY DEF Run, Sides, Guests

\* Each call of an exchange is at its place, in the thread that makes it.
LEMMA ExchangeCalls ==
  ASSUME test \in TwoPeer, NEW s \in Sides, NEW t \in Threads, GuestAssumption
  PROVE  /\ Len(Exchange(s)) = (IF test = "sequence" THEN 2 ELSE 1)
         /\ t <= Len(Exchange(s)) => Len(Exchange(s)[t]) = ExchangeSize(t)
         /\ t > Len(Exchange(s)) => ExchangeSize(t) = 0
         /\ \A i \in 1..ExchangeSize(t) : ExchangeCall(s, t, i, Exchange(s)[t][i])
<1>0. Count \in Nat
  BY DEF GuestAssumption
<1>1. CASE test = "label"
  <2>1. Exchange(s) = One(<<>>) /\ Msgs = 0 /\ ExchangeSize(t) = 0
    BY <1>1 DEF Exchange, Msgs, ExchangeSize
  <2> QED BY <1>1, <2>1 DEF One, Threads
<1>2. CASE test \in {"message", "unreliable"}
  <2>1. Exchange(s) = One(Payload(s, 1)) /\ Msgs = 1 /\ ExchangeSize(t) = (IF t = 1 THEN 2 ELSE 0)
    BY <1>2 DEF Exchange, Msgs, ExchangeSize
  <2>2. /\ Len(Payload(s, 1)) = 2 /\ Sends(Payload(s, 1)[1], s, 1, {}) /\ Receives(Payload(s, 1)[2], s, 1, FALSE, {})
    BY DEF Payload, Sends, Receives, Send, Receive, Is
  <2>3. Len(Exchange(s)) = 1 /\ Exchange(s)[1] = Payload(s, 1)
    BY <2>1 DEF One
  <2>4. ASSUME NEW i \in 1..ExchangeSize(t) PROVE t = 1 /\ (i = 1 \/ i = 2)
    BY <2>1
  <2>5. ASSUME NEW i \in 1..ExchangeSize(t) PROVE ExchangeCall(s, t, i, Exchange(s)[t][i])
    <3>1. CASE i = 1
      <4>1. Exchange(s)[t][i] = Payload(s, 1)[1] /\ i \in 1..Msgs
        BY <2>1, <2>3, <2>4, <3>1
      <4> QED BY <2>2, <2>4, <3>1, <4>1 DEF ExchangeCall
    <3>2. CASE i = 2
      <4>1. Exchange(s)[t][i] = Payload(s, 1)[2] /\ i \in (Msgs + 1)..(2 * Msgs) /\ i - Msgs = 1
        BY <2>1, <2>3, <2>4, <3>2
      <4> QED BY <1>2, <2>2, <2>4, <3>2, <4>1 DEF ExchangeCall
    <3> QED BY <2>4, <2>5, <3>1, <3>2
  <2>6. t = 1 \/ t = 2
    BY DEF Threads
  <2>7. CASE t = 1
    BY <1>2, <2>1, <2>2, <2>3, <2>5, <2>7
  <2>8. CASE t = 2
    BY <1>2, <2>1, <2>3, <2>8
  <2> QED BY <2>6, <2>7, <2>8
<1>3. CASE test = "pair"
  <2>1. /\ Exchange(s) = One(<<Send(s, 1, {}), Send(s, 2, {}), Receive(s, 1, FALSE, {}), Receive(s, 2, FALSE, {})>>)
        /\ Msgs = 2 /\ ExchangeSize(t) = (IF t = 1 THEN 4 ELSE 0)
    BY <1>3 DEF Exchange, Msgs, ExchangeSize
  <2>2. /\ Sends(Send(s, 1, {}), s, 1, {}) /\ Sends(Send(s, 2, {}), s, 2, {})
        /\ Receives(Receive(s, 1, FALSE, {}), s, 1, FALSE, {}) /\ Receives(Receive(s, 2, FALSE, {}), s, 2, FALSE, {})
    BY DEF Sends, Receives, Send, Receive, Is
  <2> DEFINE p == <<Send(s, 1, {}), Send(s, 2, {}), Receive(s, 1, FALSE, {}), Receive(s, 2, FALSE, {})>>
  <2>3. /\ Len(Exchange(s)) = 1 /\ Exchange(s)[1] = p
        /\ Len(p) = 4 /\ p[1] = Send(s, 1, {}) /\ p[2] = Send(s, 2, {})
        /\ p[3] = Receive(s, 1, FALSE, {}) /\ p[4] = Receive(s, 2, FALSE, {})
    <3>1. /\ Len(p) = 4 /\ p[1] = Send(s, 1, {}) /\ p[2] = Send(s, 2, {})
          /\ p[3] = Receive(s, 1, FALSE, {}) /\ p[4] = Receive(s, 2, FALSE, {})
      OBVIOUS
    <3>2. Exchange(s) = One(p)
      BY <2>1
    <3> HIDE DEF p
    <3>3. Len(One(p)) = 1 /\ One(p)[1] = p
      BY DEF One
    <3> QED BY <3>1, <3>2, <3>3
  <2> HIDE DEF p
  <2>4. ASSUME NEW i \in 1..ExchangeSize(t) PROVE t = 1 /\ (i = 1 \/ i = 2 \/ i = 3 \/ i = 4)
    BY <2>1
  <2>5. ASSUME NEW i \in 1..ExchangeSize(t) PROVE ExchangeCall(s, t, i, Exchange(s)[t][i])
    <3>1. CASE i \in {1, 2}
      <4>1. Exchange(s)[t][i] = Send(s, i, {}) /\ i \in 1..Msgs
        BY <2>1, <2>3, <2>4, <3>1
      <4> QED BY <2>2, <2>4, <3>1, <4>1 DEF ExchangeCall
    <3>2. CASE i \in {3, 4}
      <4> DEFINE n == i - Msgs
      <4>1. i \in (Msgs + 1)..(2 * Msgs) /\ n \in {1, 2} /\ i = n + 2
        BY <2>1, <3>2
      <4> HIDE DEF n
      <4>2. Exchange(s)[t][i] = Receive(s, n, FALSE, {})
        <5>1. (n = 1 /\ i = 3) \/ (n = 2 /\ i = 4)
          BY <4>1
        <5> QED BY <2>3, <2>4, <5>1
      <4>3. Receives(Receive(s, n, FALSE, {}), s, n, FALSE, {})
        BY DEF Receives, Receive, Is
      <4> QED BY <1>3, <2>4, <4>1, <4>2, <4>3 DEF ExchangeCall, n
    <3> QED BY <2>4, <2>5, <3>1, <3>2
  <2>6. t = 1 \/ t = 2
    BY DEF Threads
  <2>7. CASE t = 1
    BY <1>3, <2>1, <2>2, <2>3, <2>5, <2>7
  <2>8. CASE t = 2
    BY <1>3, <2>1, <2>3, <2>8
  <2> QED BY <2>6, <2>7, <2>8
<1>4. CASE test = "sequence"
  <2>1. /\ Exchange(s) = <<SendSequence(s), RecvSequence(s)>>
        /\ Msgs = Count /\ ExchangeSize(t) = Count
    BY <1>4 DEF Exchange, Msgs, ExchangeSize
  <2>2. Len(SendSequence(s)) = Count /\ Len(RecvSequence(s)) = Count
    BY <1>0 DEF SendSequence, RecvSequence
  <2>3. \A i \in 1..Count : /\ Sends(SendSequence(s)[i], s, i, {})
                            /\ Receives(RecvSequence(s)[i], s, i, FALSE, {})
    BY DEF SendSequence, RecvSequence, Sends, Receives, Send, Receive, Is
  <2>4. Len(Exchange(s)) = 2 /\ Exchange(s)[1] = SendSequence(s) /\ Exchange(s)[2] = RecvSequence(s)
    BY <2>1
  <2>5. ASSUME NEW i \in 1..Count PROVE ExchangeCall(s, t, i, Exchange(s)[t][i])
    <3>1. CASE t = 1
      <4>1. Exchange(s)[t][i] = SendSequence(s)[i] /\ i \in 1..Msgs
        BY <2>1, <2>4, <3>1
      <4> QED BY <2>3, <3>1, <4>1 DEF ExchangeCall
    <3>2. CASE t = 2
      <4>1. Exchange(s)[t][i] = RecvSequence(s)[i] /\ i \in 1..Msgs
        BY <2>1, <2>4, <3>2
      <4> QED BY <1>4, <2>3, <3>2, <4>1 DEF ExchangeCall
    <3> QED BY <3>1, <3>2 DEF Threads
  <2>6. Len(Exchange(s)[t]) = ExchangeSize(t) /\ t <= 2 /\ ~(t > 2)
    <3>1. CASE t = 1
      BY <2>1, <2>2, <2>4, <3>1
    <3>2. CASE t = 2
      BY <2>1, <2>2, <2>4, <3>2
    <3> QED BY <3>1, <3>2 DEF Threads
  <2>7. \A i \in 1..ExchangeSize(t) : ExchangeCall(s, t, i, Exchange(s)[t][i])
    BY <2>1, <2>5
  <2>8. Len(Exchange(s)) = 2
    BY <2>4
  <2> QED BY <1>4, <2>6, <2>7, <2>8
<1> QED BY <1>1, <1>2, <1>3, <1>4 DEF TwoPeer

\* One thread of the rendezvous sends the sentinel, the other waits for it.
LEMMA BarrierCalls ==
  ASSUME NEW s \in Sides, NEW t \in Threads
  PROVE  Len(Barrier(s)) = 2 /\ Len(Barrier(s)[t]) = 1 /\ BarrierCall(s, t, Barrier(s)[t][1])
BY DEF Barrier, Threads, BarrierCall, Sends, Receives, Send, Receive, Is

\* What a stage of one thread, or of two, has to be for its calls to be known.
StageHas(p, m, n) ==
  /\ Len(p) \in {1, 2}
  /\ Len(p) = 1 => n = 0
  /\ Len(p[1]) = m
  /\ Len(p) = 2 => Len(p[2]) = n

\* The three stages that connect the peers of one guest.
LEMMA ConnectStages ==
  /\ Len(InprocConnect) = 3
  /\ InprocConnect[1] = One(<<Step("offer", "offerer"), Step("set-remote", "answerer"), Step("answer", "answerer"),
       Step("set-remote", "offerer"), Step("add-candidates", "offerer"), Step("add-candidates", "answerer")>>)
  /\ InprocConnect[2] = <<<<Step("wait", "offerer")>>, <<Step("wait", "answerer")>>>>
  /\ InprocConnect[3] = One(<<Step("incoming", "answerer")>>)
BY DEF InprocConnect, One

\* Each call of those stages is at its place.
LEMMA ConnectCalls ==
  ASSUME NEW k \in 1..3
  PROVE  LET p == InprocConnect[k] IN
         /\ StageHas(p, ConnectSize(k, 1), ConnectSize(k, 2))
         /\ \A i \in 1..ConnectSize(k, 1) : ConnectCall(k, 1, i, p[1][i])
         /\ \A i \in 1..ConnectSize(k, 2) : ConnectCall(k, 2, i, p[2][i])
<1>1. CASE k = 1
  <2> DEFINE q == <<Step("offer", "offerer"), Step("set-remote", "answerer"), Step("answer", "answerer"),
       Step("set-remote", "offerer"), Step("add-candidates", "offerer"), Step("add-candidates", "answerer")>>
  <2>1. /\ Len(q) = 6 /\ Is(q[1], "offer", "offerer") /\ Is(q[2], "set-remote", "answerer") /\ Is(q[3], "answer", "answerer")
        /\ Is(q[4], "set-remote", "offerer") /\ Is(q[5], "add-candidates", "offerer") /\ Is(q[6], "add-candidates", "answerer")
    BY DEF Is, Step
  <2>2. InprocConnect[1] = One(q)
    BY ConnectStages
  <2> HIDE DEF q
  <2>3. Len(One(q)) = 1 /\ One(q)[1] = q
    BY DEF One
  <2>4. ConnectSize(k, 1) = 6 /\ ConnectSize(k, 2) = 0
    BY <1>1 DEF ConnectSize
  <2>5. ASSUME NEW i \in 1..6 PROVE ConnectCall(k, 1, i, q[i])
    <3>1. i = 1 \/ i = 2 \/ i = 3 \/ i = 4 \/ i = 5 \/ i = 6
      OBVIOUS
    <3> QED BY <1>1, <2>1, <3>1 DEF ConnectCall
  <2> QED BY <1>1, <2>1, <2>2, <2>3, <2>4, <2>5 DEF StageHas
<1>2. CASE k = 2
  <2> DEFINE q == <<<<Step("wait", "offerer")>>, <<Step("wait", "answerer")>>>>
  <2>1. Len(q) = 2 /\ Len(q[1]) = 1 /\ Len(q[2]) = 1 /\ Is(q[1][1], "wait", "offerer") /\ Is(q[2][1], "wait", "answerer")
    BY DEF Is, Step
  <2>2. InprocConnect[2] = q
    BY ConnectStages
  <2> HIDE DEF q
  <2>3. ConnectSize(k, 1) = 1 /\ ConnectSize(k, 2) = 1
    BY <1>2 DEF ConnectSize
  <2>4. ASSUME NEW i \in 1..1 PROVE ConnectCall(k, 1, i, q[1][i]) /\ ConnectCall(k, 2, i, q[2][i])
    <3>1. i = 1
      OBVIOUS
    <3> QED BY <1>2, <2>1, <3>1 DEF ConnectCall
  <2>5. InprocConnect[k] = q
    BY <1>2, <2>2
  <2>6. StageHas(q, 1, 1)
    BY <2>1 DEF StageHas
  <2> QED BY <2>3, <2>4, <2>5, <2>6
<1>3. CASE k = 3
  <2> DEFINE q == <<Step("incoming", "answerer")>>
  <2>1. Len(q) = 1 /\ Is(q[1], "incoming", "answerer")
    BY DEF Is, Step
  <2>2. InprocConnect[3] = One(q)
    BY ConnectStages
  <2> HIDE DEF q
  <2>3. Len(One(q)) = 1 /\ One(q)[1] = q
    BY DEF One
  <2>4. ConnectSize(k, 1) = 1 /\ ConnectSize(k, 2) = 0
    BY <1>3 DEF ConnectSize
  <2>5. ASSUME NEW i \in 1..1 PROVE ConnectCall(k, 1, i, q[i])
    <3>1. i = 1
      OBVIOUS
    <3> QED BY <1>3, <2>1, <3>1 DEF ConnectCall
  <2> QED BY <1>3, <2>1, <2>2, <2>3, <2>4, <2>5 DEF StageHas
<1> QED BY <1>1, <1>2, <1>3

\* Every other test runs one guest with both peers.
LEMMA InprocProgram ==
  ASSUME test \in InProcess
  PROVE  Run(B) = RunInproc /\ Guests = {B}
BY DEF Run, Guests, InProcess, TwoPeer, B

\* Sequences of stages, put together as the programs are.
LEMMA Chained ==
  ASSUME NEW a, NEW b, NEW c, NEW d, NEW e, NEW f
  PROVE  /\ LET p == <<a, b, c>> \o <<d>> IN
            Len(p) = 4 /\ p[1] = a /\ p[2] = b /\ p[3] = c /\ p[4] = d
         /\ LET p == <<a, b, c>> \o <<d>> \o <<e>> IN
            Len(p) = 5 /\ p[1] = a /\ p[2] = b /\ p[3] = c /\ p[4] = d /\ p[5] = e
         /\ LET p == <<a, b, c>> \o <<d, e>> \o <<f>> IN
            Len(p) = 6 /\ p[1] = a /\ p[2] = b /\ p[3] = c /\ p[4] = d /\ p[5] = e /\ p[6] = f
OBVIOUS

\* Tests that connect start with the same three stages, and most end with the closes.
LEMMA ConnectedRuns ==
  ASSUME test \in Connected
  PROVE  /\ Len(RunInproc) = StageCount
         /\ \A k \in 1..3 : RunInproc[k] = InprocConnect[k]
         /\ ClosesAt > 0 => RunInproc[ClosesAt] = CloseBoth[1]
<1>1. PICK a, b, c : InprocConnect = <<a, b, c>>
  BY DEF InprocConnect
<1>2. PICK f : CloseBoth = <<f>>
  BY DEF CloseBoth
<1>3. CASE test \in {"round-trip", "overflow"}
  <2>1. \E d : RunInproc = <<a, b, c>> \o <<d>> \o <<f>>
    BY <1>1, <1>2, <1>3 DEF RunInproc, RoundTrip, ReceiveOverflow
  <2>2. StageCount = 5 /\ ClosesAt = 5
    BY <1>3 DEF StageCount, ClosesAt, TwoPeer
  <2> QED BY <1>1, <1>2, <2>1, <2>2, Chained
<1>4. CASE test \in {"error-closed", "post-close-send"}
  <2>1. \E d : RunInproc = <<a, b, c>> \o <<d>>
    BY <1>1, <1>4 DEF RunInproc, ErrorClosed, PostCloseSend
  <2>2. StageCount = 4 /\ ClosesAt = 0
    BY <1>4 DEF StageCount, ClosesAt, TwoPeer
  <2> QED BY <1>1, <2>1, <2>2, Chained
<1>5. CASE test \in {"send-via-stream", "receive-via-stream", "receive-via-stream-once"}
  <2>1. \E d, e : RunInproc = <<a, b, c>> \o <<d, e>> \o <<f>>
    BY <1>1, <1>2, <1>5 DEF RunInproc, SendViaStream, ReceiveViaStream, ReceiveViaStreamOnce
  <2>2. StageCount = 6 /\ ClosesAt = 6
    BY <1>5 DEF StageCount, ClosesAt, TwoPeer
  <2> QED BY <1>1, <1>2, <2>1, <2>2, Chained
<1> QED BY <1>3, <1>4, <1>5 DEF Connected, InProcess
\* The calls of the stage that follows the connection.
LEMMA FourthRuns ==
  ASSUME test \in Connected, Count \in Nat
  PROVE  LET p == RunInproc[4] IN
         ClosesAt # 4 =>
           /\ StageHas(p, FourthSize(1), FourthSize(2))
           /\ \A i \in 1..FourthSize(1) : FourthCall(1, i, p[1][i])
           /\ \A i \in 1..FourthSize(2) : FourthCall(2, i, p[2][i])
<1>1. PICK a, b, c : InprocConnect = <<a, b, c>>
  BY DEF InprocConnect
<1>2. PICK f : CloseBoth = <<f>>
  BY DEF CloseBoth
<1>3. CASE test = "round-trip"
  <2> DEFINE q == <<<<Send("offerer", 1, {}), Receive("offerer", 2, FALSE, {})>>,
                    <<Receive("answerer", 1, FALSE, {}), Send("answerer", 2, {})>>>>
  <2>1. RunInproc[4] = q
    <3>1. RunInproc = <<a, b, c>> \o <<q>> \o <<f>>
      BY <1>1, <1>2, <1>3 DEF RunInproc, RoundTrip
    <3> HIDE DEF q
    <3> QED BY <3>1, Chained
  <2>2. /\ Len(q) = 2 /\ Len(q[1]) = 2 /\ Len(q[2]) = 2
        /\ Sends(q[1][1], "offerer", 1, {}) /\ Receives(q[1][2], "offerer", 2, FALSE, {})
        /\ Receives(q[2][1], "answerer", 1, FALSE, {}) /\ Sends(q[2][2], "answerer", 2, {})
    BY DEF Sends, Receives, Send, Receive, Is
  <2> HIDE DEF q
  <2>3. FourthSize(1) = 2 /\ FourthSize(2) = 2
    BY <1>3 DEF FourthSize
  <2>4. ASSUME NEW i \in 1..2 PROVE FourthCall(1, i, q[1][i]) /\ FourthCall(2, i, q[2][i])
    <3>1. i = 1 \/ i = 2
      OBVIOUS
    <3> QED BY <1>3, <2>2, <3>1 DEF FourthCall
  <2> QED BY <2>1, <2>2, <2>3, <2>4 DEF StageHas
<1>4. CASE test = "overflow"
  <2> DEFINE q == <<Step("flood", "offerer"), Receive("offerer", Nothing, FALSE, {"closed", "overflow"}),
                    Receive("answerer", Nothing, TRUE, {"overflow"})>>
  <2>1. RunInproc[4] = One(q)
    <3>1. RunInproc = <<a, b, c>> \o <<One(q)>> \o <<f>>
      BY <1>1, <1>2, <1>4 DEF RunInproc, ReceiveOverflow
    <3> HIDE DEF q
    <3> QED BY <3>1, Chained
  <2>2. /\ Len(q) = 3 /\ Is(q[1], "flood", "offerer")
        /\ Receives(q[2], "offerer", Nothing, FALSE, {"closed", "overflow"})
        /\ Receives(q[3], "answerer", Nothing, TRUE, {"overflow"})
    BY DEF Receives, Receive, Step, Is
  <2> HIDE DEF q
  <2>3. FourthSize(1) = 3 /\ FourthSize(2) = 0
    BY <1>4 DEF FourthSize
  <2>4. ASSUME NEW i \in 1..3 PROVE FourthCall(1, i, q[i])
    <3>1. i = 1 \/ i = 2 \/ i = 3
      OBVIOUS
    <3> QED BY <1>4, <2>2, <3>1 DEF FourthCall
  <2>5. Len(One(q)) = 1 /\ One(q)[1] = q
    BY DEF One
  <2> QED BY <2>1, <2>2, <2>3, <2>4, <2>5 DEF StageHas
<1>5. CASE test = "error-closed"
  <2> DEFINE q == <<Step("close", "offerer"), Receive("offerer", Nothing, TRUE, {"closed"}), Step("close", "answerer")>>
  <2>1. RunInproc[4] = One(q)
    <3>1. RunInproc = <<a, b, c>> \o <<One(q)>>
      BY <1>1, <1>5 DEF RunInproc, ErrorClosed
    <3> HIDE DEF q
    <3> QED BY <3>1, Chained
  <2>2. /\ Len(q) = 3 /\ Is(q[1], "close", "offerer")
        /\ Receives(q[2], "offerer", Nothing, TRUE, {"closed"})
        /\ Is(q[3], "close", "answerer")
    BY DEF Receives, Receive, Step, Is
  <2> HIDE DEF q
  <2>3. FourthSize(1) = 3 /\ FourthSize(2) = 0
    BY <1>5 DEF FourthSize
  <2>4. ASSUME NEW i \in 1..3 PROVE FourthCall(1, i, q[i])
    <3>1. i = 1 \/ i = 2 \/ i = 3
      OBVIOUS
    <3> QED BY <1>5, <2>2, <3>1 DEF FourthCall
  <2>5. Len(One(q)) = 1 /\ One(q)[1] = q
    BY DEF One
  <2> QED BY <2>1, <2>2, <2>3, <2>4, <2>5 DEF StageHas
<1>6. CASE test = "post-close-send"
  <2> DEFINE q == <<Step("close", "offerer"), Step("send-until-closed", "offerer"), Step("close", "answerer")>>
  <2>1. RunInproc[4] = One(q)
    <3>1. RunInproc = <<a, b, c>> \o <<One(q)>>
      BY <1>1, <1>6 DEF RunInproc, PostCloseSend
    <3> HIDE DEF q
    <3> QED BY <3>1, Chained
  <2>2. /\ Len(q) = 3 /\ Is(q[1], "close", "offerer")
        /\ Is(q[2], "send-until-closed", "offerer") /\ Is(q[3], "close", "answerer")
    BY DEF Step, Is
  <2> HIDE DEF q
  <2>3. FourthSize(1) = 3 /\ FourthSize(2) = 0
    BY <1>6 DEF FourthSize
  <2>4. ASSUME NEW i \in 1..3 PROVE FourthCall(1, i, q[i])
    <3>1. i = 1 \/ i = 2 \/ i = 3
      OBVIOUS
    <3> QED BY <1>6, <2>2, <3>1 DEF FourthCall
  <2>5. Len(One(q)) = 1 /\ One(q)[1] = q
    BY DEF One
  <2> QED BY <2>1, <2>2, <2>3, <2>4, <2>5 DEF StageHas
<1>7. CASE test \in {"send-via-stream", "receive-via-stream"}
  <2> DEFINE q == SendSequence("offerer")
  <2>1. RunInproc[4] = One(q)
    <3>1. \E e : RunInproc = <<a, b, c>> \o <<One(q), e>> \o <<f>>
      BY <1>1, <1>2, <1>7 DEF RunInproc, SendViaStream, ReceiveViaStream
    <3> HIDE DEF q
    <3> QED BY <3>1, Chained
  <2>2. Len(q) = Count /\ \A i \in 1..Count : Sends(q[i], "offerer", i, {})
    BY DEF SendSequence, Sends, Send, Is
  <2> HIDE DEF q
  <2>3. FourthSize(1) = Count /\ FourthSize(2) = 0
    BY <1>7 DEF FourthSize
  <2>4. ASSUME NEW i \in 1..Count PROVE FourthCall(1, i, q[i])
    BY <1>7, <2>2 DEF FourthCall
  <2>5. Len(One(q)) = 1 /\ One(q)[1] = q
    BY DEF One
  <2> QED BY <2>1, <2>2, <2>3, <2>4, <2>5 DEF StageHas
<1>8. CASE test = "receive-via-stream-once"
  <2> DEFINE q == <<<<Receive("answerer", Nothing, FALSE, {"claimed"})>>, <<Step("claim", "answerer")>>>>
  <2>1. RunInproc[4] = q
    <3>1. \E e : RunInproc = <<a, b, c>> \o <<q, e>> \o <<f>>
      BY <1>1, <1>2, <1>8 DEF RunInproc, ReceiveViaStreamOnce
    <3> HIDE DEF q
    <3> QED BY <3>1, Chained
  <2>2. /\ Len(q) = 2 /\ Len(q[1]) = 1 /\ Len(q[2]) = 1
        /\ Receives(q[1][1], "answerer", Nothing, FALSE, {"claimed"})
        /\ Is(q[2][1], "claim", "answerer")
    BY DEF Receives, Receive, Step, Is
  <2> HIDE DEF q
  <2>3. FourthSize(1) = 1 /\ FourthSize(2) = 1
    BY <1>8 DEF FourthSize
  <2>4. ASSUME NEW i \in 1..1 PROVE FourthCall(1, i, q[1][i]) /\ FourthCall(2, i, q[2][i])
    <3>1. i = 1
      OBVIOUS
    <3> QED BY <1>8, <2>2, <3>1 DEF FourthCall
  <2> QED BY <2>1, <2>2, <2>3, <2>4 DEF StageHas
<1> QED BY <1>3, <1>4, <1>5, <1>6, <1>7, <1>8 DEF Connected, InProcess

\* The calls of the stage after it, in the tests that have one.
LEMMA FifthRuns ==
  ASSUME test \in {"send-via-stream", "receive-via-stream", "receive-via-stream-once"}, Count \in Nat
  PROVE  LET p == RunInproc[5] IN
         /\ StageHas(p, FifthSize(1), FifthSize(2))
         /\ FifthSize(2) = 0
         /\ \A i \in 1..FifthSize(1) : FifthCall(i, p[1][i])
<1>1. PICK a, b, c : InprocConnect = <<a, b, c>>
  BY DEF InprocConnect
<1>2. PICK f : CloseBoth = <<f>>
  BY DEF CloseBoth
<1>3. FifthSize(2) = 0
  BY DEF FifthSize
<1>4. CASE test = "send-via-stream"
  <2> DEFINE q == RecvSequence("answerer")
  <2>1. RunInproc[5] = One(q)
    <3>1. \E d : RunInproc = <<a, b, c>> \o <<d, One(q)>> \o <<f>>
      BY <1>1, <1>2, <1>4 DEF RunInproc, SendViaStream
    <3> HIDE DEF q
    <3> QED BY <3>1, Chained
  <2>2. Len(q) = Count /\ \A i \in 1..Count : Receives(q[i], "answerer", i, FALSE, {})
    BY DEF RecvSequence, Receives, Receive, Is
  <2> HIDE DEF q
  <2>3. FifthSize(1) = Count
    BY <1>4 DEF FifthSize
  <2>4. ASSUME NEW i \in 1..Count PROVE FifthCall(i, q[i])
    BY <1>4, <2>2 DEF FifthCall
  <2>5. Len(One(q)) = 1 /\ One(q)[1] = q
    BY DEF One
  <2> QED BY <1>3, <2>1, <2>2, <2>3, <2>4, <2>5 DEF StageHas
<1>5. CASE test = "receive-via-stream"
  <2> DEFINE r == [i \in 1..Count |-> [op |-> "read", at |-> "answerer", want |-> i]]
             q == <<Step("claim", "answerer")>> \o r
  <2>1. RunInproc[5] = One(q)
    <3>1. \E d : RunInproc = <<a, b, c>> \o <<d, One(q)>> \o <<f>>
      BY <1>1, <1>2, <1>5 DEF RunInproc, ReceiveViaStream
    <3> HIDE DEF q
    <3> QED BY <3>1, Chained
  <2>2. /\ r \in Seq([op : {"read"}, at : {"answerer"}, want : Nat]) /\ Len(r) = Count
        /\ \A i \in 1..Count : Is(r[i], "read", "answerer") /\ r[i].want = i
    BY DEF Is
  <2>3. Is(Step("claim", "answerer"), "claim", "answerer")
    BY DEF Is, Step
  <2> HIDE DEF r
  <2>4. Len(q) = Count + 1 /\ q[1] = Step("claim", "answerer") /\ \A i \in 2..(Count + 1) : q[i] = r[i - 1]
    BY <2>2
  <2> HIDE DEF q
  <2>5. FifthSize(1) = Count + 1
    BY <1>5 DEF FifthSize
  <2>6. ASSUME NEW i \in 1..(Count + 1) PROVE FifthCall(i, q[i])
    <3>1. CASE i = 1
      BY <1>5, <2>3, <2>4, <3>1 DEF FifthCall
    <3>2. CASE i > 1
      <4>1. q[i] = r[i - 1] /\ i - 1 \in 1..Count
        BY <2>4, <3>2
      <4>2. Is(r[i - 1], "read", "answerer") /\ r[i - 1].want = i - 1
        BY <2>2, <4>1
      <4> QED BY <1>5, <3>2, <4>1, <4>2 DEF FifthCall
    <3> QED BY <2>6, <3>1, <3>2
  <2>7. Len(One(q)) = 1 /\ One(q)[1] = q
    BY DEF One
  <2> QED BY <1>3, <2>1, <2>4, <2>5, <2>6, <2>7 DEF StageHas
<1>6. CASE test = "receive-via-stream-once"
  <2> DEFINE q == <<Step("claim-fails", "answerer"), Receive("answerer", Nothing, FALSE, {"claimed"})>>
  <2>1. RunInproc[5] = One(q)
    <3>1. \E d : RunInproc = <<a, b, c>> \o <<d, One(q)>> \o <<f>>
      BY <1>1, <1>2, <1>6 DEF RunInproc, ReceiveViaStreamOnce
    <3> HIDE DEF q
    <3> QED BY <3>1, Chained
  <2>2. /\ Len(q) = 2 /\ Is(q[1], "claim-fails", "answerer")
        /\ Receives(q[2], "answerer", Nothing, FALSE, {"claimed"})
    BY DEF Receives, Receive, Step, Is
  <2> HIDE DEF q
  <2>3. FifthSize(1) = 2
    BY <1>6 DEF FifthSize
  <2>4. ASSUME NEW i \in 1..2 PROVE FifthCall(i, q[i])
    <3>1. i = 1 \/ i = 2
      OBVIOUS
    <3> QED BY <1>6, <2>2, <3>1 DEF FifthCall
  <2>5. Len(One(q)) = 1 /\ One(q)[1] = q
    BY DEF One
  <2> QED BY <1>3, <2>1, <2>2, <2>3, <2>4, <2>5 DEF StageHas
<1> QED BY <1>4, <1>5, <1>6

\* The calls of the stage that closes both peers.
LEMMA LastRuns ==
  LET p == CloseBoth[1] IN StageHas(p, 2, 0) /\ \A i \in 1..2 : LastCall(i, p[1][i])
<1> DEFINE q == <<Step("close", "offerer"), Step("close", "answerer")>>
<1>1. CloseBoth[1] = One(q)
  BY DEF CloseBoth
<1>2. Len(q) = 2 /\ Is(q[1], "close", "offerer") /\ Is(q[2], "close", "answerer")
  BY DEF Is, Step
<1> HIDE DEF q
<1>3. Len(One(q)) = 1 /\ One(q)[1] = q
  BY DEF One
<1>4. ASSUME NEW i \in 1..2 PROVE LastCall(i, q[i])
  BY <1>2, <1>4 DEF LastCall
<1> QED BY <1>1, <1>2, <1>3, <1>4 DEF StageHas

\* The tests of one stage, which never connect.
LEMMA LoneRuns ==
  ASSUME test \in {"timed-out", "invalid-sdp"}
  PROVE  /\ Len(RunInproc) = 1
         /\ StageHas(RunInproc[1], InprocSize(1, 1), 0)
         /\ InprocSize(1, 2) = 0
         /\ \A i \in 1..InprocSize(1, 1) : InprocCall(1, 1, i, RunInproc[1][1][i])
<1>1. CASE test = "timed-out"
  <2> DEFINE q == <<Step("offer", "offerer"), Step("times-out", "offerer"), Step("close", "offerer")>>
  <2>1. RunInproc = <<One(q)>>
    BY <1>1 DEF RunInproc, ErrorTimedOut
  <2>2. Len(q) = 3 /\ Is(q[1], "offer", "offerer") /\ Is(q[2], "times-out", "offerer") /\ Is(q[3], "close", "offerer")
    BY DEF Is, Step
  <2> HIDE DEF q
  <2>3. Len(One(q)) = 1 /\ One(q)[1] = q
    BY DEF One
  <2>4. ASSUME NEW i \in 1..3 PROVE InprocCall(1, 1, i, q[i])
    <3>1. i = 1 \/ i = 2 \/ i = 3
      OBVIOUS
    <3> QED BY <1>1, <2>2, <3>1 DEF InprocCall
  <2>5. InprocSize(1, 1) = 3 /\ InprocSize(1, 2) = 0
    BY <1>1 DEF InprocSize
  <2> QED BY <2>1, <2>2, <2>3, <2>4, <2>5 DEF StageHas
<1>2. CASE test = "invalid-sdp"
  <2> DEFINE q == <<Step("malformed", "offerer")>>
  <2>1. RunInproc = <<One(q)>>
    BY <1>2 DEF RunInproc, InvalidSdp
  <2>2. Len(q) = 1 /\ Is(q[1], "malformed", "offerer")
    BY DEF Is, Step
  <2> HIDE DEF q
  <2>3. Len(One(q)) = 1 /\ One(q)[1] = q
    BY DEF One
  <2>4. ASSUME NEW i \in 1..1 PROVE InprocCall(1, 1, i, q[i])
    <3>1. i = 1
      OBVIOUS
    <3> QED BY <1>2, <2>2, <3>1 DEF InprocCall
  <2>5. InprocSize(1, 1) = 1 /\ InprocSize(1, 2) = 0
    BY <1>2 DEF InprocSize
  <2> QED BY <2>1, <2>2, <2>3, <2>4, <2>5 DEF StageHas
<1> QED BY <1>1, <1>2

(* The programs as tables *)

Size(g, k, t) == IF test \in TwoPeer THEN PeerSize(g, k, t) ELSE InprocSize(k, t)
CallAt(g, k, t, i, st) == IF test \in TwoPeer THEN PeerCall(g, k, t, i, st) ELSE InprocCall(k, t, i, st)

\* The programs as tables: at each place of a stage is the call CallAt names.
LEMMA StageTable ==
  ASSUME GuestAssumption, test \in Tests, NEW g \in Guests
  PROVE  /\ Len(Run(g)) = StageCount
         /\ \A k \in 1..StageCount :
              /\ StageHas(Run(g)[k], Size(g, k, 1), Size(g, k, 2))
              /\ \A i \in 1..Size(g, k, 1) : CallAt(g, k, 1, i, Run(g)[k][1][i])
              /\ \A i \in 1..Size(g, k, 2) : CallAt(g, k, 2, i, Run(g)[k][2][i])
<1>0. Count \in Nat /\ test \in TwoPeer \union InProcess
  BY DEF GuestAssumption
<1>1. CASE test \in TwoPeer
  <2>1. g \in Sides /\ Run(g) = RunTwoPeer(g)
    BY <1>1, PeerProgram DEF Guests
  <2>2. StageCount = 4
    BY <1>1 DEF StageCount, TwoPeer
  <2>3. Len(Run(g)) = StageCount
    BY <2>1, <2>2, PeerStages
  <2>4. ASSUME NEW k \in 1..4
        PROVE  /\ StageHas(Run(g)[k], PeerSize(g, k, 1), PeerSize(g, k, 2))
               /\ \A i \in 1..PeerSize(g, k, 1) : PeerCall(g, k, 1, i, Run(g)[k][1][i])
               /\ \A i \in 1..PeerSize(g, k, 2) : PeerCall(g, k, 2, i, Run(g)[k][2][i])
    <3>1. CASE k = 1
      <4> DEFINE h == IF g = "offerer" THEN HandshakeOfferer ELSE HandshakeAnswerer
      <4>0. PeerSize(g, k, 1) = HandshakeSize(g) /\ PeerSize(g, k, 2) = 0
        BY <3>1 DEF PeerSize
      <4>1. Run(g)[k] = One(h)
        BY <2>1, <3>1, PeerStages
      <4>2. Len(h) = HandshakeSize(g) /\ \A i \in 1..HandshakeSize(g) : HandshakeCall(g, i, h[i])
        BY <2>1, HandshakeCalls
      <4> HIDE DEF h
      <4>3. Len(One(h)) = 1 /\ One(h)[1] = h
        BY DEF One
      <4>4. \A i \in 1..HandshakeSize(g) : PeerCall(g, k, 1, i, h[i])
        BY <3>1, <4>2 DEF PeerCall
      <4> QED BY <4>0, <4>1, <4>2, <4>3, <4>4 DEF StageHas
    <3>2. CASE k = 2
      <4>0. PeerSize(g, k, 1) = ExchangeSize(1) /\ PeerSize(g, k, 2) = ExchangeSize(2)
        BY <3>2 DEF PeerSize
      <4>1. Run(g)[k] = Exchange(g)
        BY <2>1, <3>2, PeerStages
      <4>2. /\ Len(Exchange(g)) \in {1, 2}
            /\ Len(Exchange(g)[1]) = ExchangeSize(1)
            /\ Len(Exchange(g)) = 2 => Len(Exchange(g)[2]) = ExchangeSize(2)
            /\ Len(Exchange(g)) = 1 => ExchangeSize(2) = 0
        BY <1>1, <2>1, ExchangeCalls DEF Threads
      <4>3. /\ \A i \in 1..ExchangeSize(1) : ExchangeCall(g, 1, i, Exchange(g)[1][i])
            /\ \A i \in 1..ExchangeSize(2) : ExchangeCall(g, 2, i, Exchange(g)[2][i])
        BY <1>1, <2>1, ExchangeCalls DEF Threads
      <4> QED BY <3>2, <4>0, <4>1, <4>2, <4>3 DEF StageHas, PeerCall
    <3>3. CASE k = 3
      <4>0. PeerSize(g, k, 1) = 1 /\ PeerSize(g, k, 2) = 1
        BY <3>3 DEF PeerSize
      <4>1. Run(g)[k] = Barrier(g)
        BY <2>1, <3>3, PeerStages
      <4>2. /\ Len(Barrier(g)) = 2 /\ Len(Barrier(g)[1]) = 1 /\ Len(Barrier(g)[2]) = 1
            /\ BarrierCall(g, 1, Barrier(g)[1][1]) /\ BarrierCall(g, 2, Barrier(g)[2][1])
        BY <2>1, BarrierCalls DEF Threads
      <4>3. ASSUME NEW i \in 1..1
            PROVE  PeerCall(g, k, 1, i, Barrier(g)[1][i]) /\ PeerCall(g, k, 2, i, Barrier(g)[2][i])
        <5>1. i = 1
          OBVIOUS
        <5> QED BY <3>3, <4>2, <5>1 DEF PeerCall
      <4> QED BY <4>0, <4>1, <4>2, <4>3 DEF StageHas
    <3>4. CASE k = 4
      <4> DEFINE h == <<Step("close", g)>>
      <4>0. PeerSize(g, k, 1) = 1 /\ PeerSize(g, k, 2) = 0
        BY <3>4 DEF PeerSize
      <4>1. Run(g)[k] = One(h)
        BY <2>1, <3>4, PeerStages
      <4>2. Len(h) = 1 /\ Is(h[1], "close", g)
        BY DEF Is, Step
      <4> HIDE DEF h
      <4>3. Len(One(h)) = 1 /\ One(h)[1] = h
        BY DEF One
      <4>4. ASSUME NEW i \in 1..1 PROVE PeerCall(g, k, 1, i, h[i])
        <5>1. i = 1
          OBVIOUS
        <5> QED BY <3>4, <4>2, <5>1 DEF PeerCall
      <4> QED BY <4>0, <4>1, <4>2, <4>3, <4>4 DEF StageHas
    <3> QED BY <3>1, <3>2, <3>3, <3>4
  <2> QED BY <1>1, <2>2, <2>3, <2>4 DEF Size, CallAt
<1>2. CASE test \in Connected
  <2>1. /\ Run(g) = RunInproc /\ g = B /\ test \notin TwoPeer /\ test \in InProcess
        /\ test # "timed-out" /\ test # "invalid-sdp"
    BY <1>2, InprocProgram DEF Connected, InProcess, TwoPeer, B
  <2>2. /\ Len(Run(g)) = StageCount /\ StageCount \in 4..6 /\ ClosesAt \in {0, StageCount}
        /\ StageCount > 4 => ClosesAt = StageCount
    <3>1. Len(Run(g)) = StageCount
      BY <1>2, <2>1, ConnectedRuns
    <3> QED BY <1>2, <2>1, <3>1 DEF StageCount, ClosesAt, Connected, InProcess, TwoPeer
  <2>3. ASSUME NEW k \in 1..StageCount
        PROVE  /\ StageHas(RunInproc[k], InprocSize(k, 1), InprocSize(k, 2))
               /\ \A i \in 1..InprocSize(k, 1) : InprocCall(k, 1, i, RunInproc[k][1][i])
               /\ \A i \in 1..InprocSize(k, 2) : InprocCall(k, 2, i, RunInproc[k][2][i])
    <3>1. CASE k <= 3
      <4>1. RunInproc[k] = InprocConnect[k] /\ k \in 1..3
        BY <1>2, <2>2, <3>1, ConnectedRuns
      <4>2. InprocSize(k, 1) = ConnectSize(k, 1) /\ InprocSize(k, 2) = ConnectSize(k, 2)
        BY <2>1, <3>1 DEF InprocSize
      <4>3. \A t, i, st : ConnectCall(k, t, i, st) => InprocCall(k, t, i, st)
        BY <2>1, <3>1 DEF InprocCall
      <4> QED BY <4>1, <4>2, <4>3, ConnectCalls
    <3>2. CASE k > 3 /\ k = ClosesAt
      <4>1. RunInproc[k] = CloseBoth[1]
        BY <1>2, <2>2, <3>2, ConnectedRuns
      <4>2. InprocSize(k, 1) = 2 /\ InprocSize(k, 2) = 0
        BY <2>1, <2>2, <3>2 DEF InprocSize
      <4>3. \A i, st : LastCall(i, st) => InprocCall(k, 1, i, st)
        BY <2>1, <2>2, <3>2 DEF InprocCall
      <4> QED BY <4>1, <4>2, <4>3, LastRuns
    <3>3. CASE k = 4 /\ k # ClosesAt
      <4>1. InprocSize(k, 1) = FourthSize(1) /\ InprocSize(k, 2) = FourthSize(2)
        BY <2>1, <3>3 DEF InprocSize
      <4>2. \A t, i, st : FourthCall(t, i, st) => InprocCall(k, t, i, st)
        BY <2>1, <3>3 DEF InprocCall
      <4> QED BY <1>0, <1>2, <3>3, <4>1, <4>2, FourthRuns
    <3>4. CASE k = 5 /\ k # ClosesAt
      <4>1. InprocSize(k, 1) = FifthSize(1) /\ InprocSize(k, 2) = FifthSize(2)
        BY <2>1, <3>4 DEF InprocSize
      <4>2. \A t, i, st : FifthCall(i, st) => InprocCall(k, t, i, st)
        BY <2>1, <3>4 DEF InprocCall
      <4>3. test \in {"send-via-stream", "receive-via-stream", "receive-via-stream-once"}
        BY <1>2, <2>2, <3>4 DEF Connected, InProcess, ClosesAt, StageCount, TwoPeer
      <4> QED BY <1>0, <3>4, <4>1, <4>2, <4>3, FifthRuns
    <3>5. k <= 3 \/ (k > 3 /\ k = ClosesAt) \/ (k = 4 /\ k # ClosesAt) \/ (k = 5 /\ k # ClosesAt)
      <4>1. StageCount = 6 => ClosesAt = 6
        BY <2>2
      <4> QED BY <2>2, <2>3, <4>1
    <3> QED BY <3>1, <3>2, <3>3, <3>4, <3>5
  <2> QED BY <2>1, <2>2, <2>3 DEF Size, CallAt
<1>3. CASE test \in {"timed-out", "invalid-sdp"}
  <2>1. Run(g) = RunInproc /\ g = B /\ test \notin TwoPeer
    BY <1>3, InprocProgram DEF InProcess, TwoPeer, B
  <2>2. StageCount = 1
    BY <1>3 DEF StageCount, TwoPeer
  <2> QED BY <1>3, <2>1, <2>2, LoneRuns DEF Size, CallAt
<1> QED BY <1>0, <1>1, <1>2, <1>3 DEF Connected

Smaller(m, n) == IF m <= n THEN m ELSE n
Larger(m, n) == IF m <= n THEN n ELSE m

\* Any state: the types, with the places of the guests in their programs.
PosInv ==
  /\ test \in Tests
  /\ pos \in [Guests -> [stage : Nat, ix : [Threads -> Nat], bad : BOOLEAN]]
  /\ verdict \in [Guests -> {"run", "pass", "fail"}]
  /\ \A g \in Guests :
       /\ pos[g].stage \in 1..StageCount
       /\ \A t \in Threads : pos[g].ix[t] \in 1..(Size(g, pos[g].stage, t) + 1)

Conns == {"new", "connected", "closed", "failed"}
Peers == [local : BOOLEAN, remote : BOOLEAN, cands : Nat, conn : Conns]
Chans == [open : BOOLEAN, closed : BOOLEAN, lag : 0..Lag, inbox : Seq(Nat), over : BOOLEAN, claimed : BOOLEAN]
HostInv ==
  /\ fault \in BOOLEAN /\ loops \in Nat
  /\ peer \in [Sides -> Peers] /\ chan \in [Sides -> Chans] /\ wire \in [Sides -> Seq(Nat)]
  /\ \A s \in Sides : Len(chan[s].inbox) <= Limit

LoopsInv ==
  /\ loops # 0 => test \in {"overflow", "post-close-send"}
  /\ test = "overflow" =>
       /\ loops <= Limit + 1
       /\ K(B) < 4 => loops = 0
       /\ K(B) = 4 /\ I(B) = 1 => loops <= Limit
  /\ test = "post-close-send" =>
       /\ loops <= Tries + 1
       /\ K(B) < 4 \/ I(B) = 1 => loops = 0
       /\ K(B) = 4 /\ I(B) = 2 => loops <= Tries

\* The blobs a side has come to publish.
Pub(s) == IF K(s) > 1 THEN 3 ELSE Larger(0, Smaller(3, I(s) - Offset(s)))

MailInv ==
  /\ ~replaced
  /\ published \in [Sides -> Seq(Nat)] /\ received \in [Sides -> Seq(Nat)] /\ frozen \subseteq Sides
  /\ test \in TwoPeer => \A s \in Sides :
       /\ Len(published[s]) <= Pub(s) /\ \A i \in 1..Len(published[s]) : published[s][i] = i
       /\ Len(received[s]) <= Len(published[s]) /\ \A i \in 1..Len(received[s]) : received[s][i] = i
       /\ peer[Other(s)].cands = IF Len(received[s]) > 1 THEN 1 ELSE 0
       /\ K(s) = 1 /\ I(s) <= Offset(s) + 2 => Len(published[s]) = Pub(s)
  /\ test \in InProcess => \A s \in Sides :
       /\ peer[s].cands \in 0..1
       /\ test \in {"timed-out", "invalid-sdp"} => peer[s].cands = 0
       /\ K(B) = 1 /\ I(B) <= (IF s = "offerer" THEN 5 ELSE 6) => peer[s].cands = 0

Always == PosInv /\ HostInv /\ LoopsInv /\ MailInv

-----------------------------------------------------------------------------
(* Without a fault *)

RunsInv == \A g \in Guests : ~pos[g].bad /\ verdict[g] # "fail"

SentAsPeer(g) ==
  CASE K(g) = 1 -> 0 [] K(g) = 2 -> Smaller(Msgs, I(g) - 1) [] K(g) = 3 -> Msgs + I(g) - 1 [] K(g) = 4 -> Msgs + 1
RecAsPeer(g) ==
  CASE K(g) = 1 -> 0
    [] K(g) = 2 -> IF test = "sequence" THEN J(g) - 1 ELSE Larger(0, I(g) - 1 - Msgs)
    [] K(g) = 3 -> Msgs + J(g) - 1 [] K(g) = 4 -> Msgs + 1

Sent(s) ==
  IF test \in TwoPeer THEN SentAsPeer(s)
  ELSE IF K(B) < 4 THEN 0
  ELSE CASE test = "round-trip" ->
              IF K(B) > 4 THEN 1 ELSE IF s = "offerer" THEN Smaller(1, I(B) - 1) ELSE J(B) - Smaller(2, J(B))
         [] test \in {"send-via-stream", "receive-via-stream"} /\ s = "offerer" ->
              IF K(B) = 4 THEN I(B) - 1 ELSE Count
         [] OTHER -> 0
Rec(s) ==
  IF test \in TwoPeer THEN RecAsPeer(s)
  ELSE IF K(B) < 4 THEN 0
  ELSE CASE test = "round-trip" ->
              IF K(B) > 4 THEN 1 ELSE IF s = "offerer" THEN I(B) - Smaller(2, I(B)) ELSE Smaller(1, J(B) - 1)
         [] test = "send-via-stream" /\ s = "answerer" ->
              IF K(B) = 4 THEN 0 ELSE IF K(B) = 5 THEN I(B) - 1 ELSE Count
         [] test = "receive-via-stream" /\ s = "answerer" ->
              IF K(B) = 4 THEN 0 ELSE IF K(B) = 5 THEN I(B) - Smaller(2, I(B)) ELSE Count
         [] OTHER -> 0
\* The i-th message of a side.
Message(s, i) ==
  IF test \in TwoPeer THEN IF i <= Msgs THEN i ELSE Sentinel
  ELSE IF s = "answerer" THEN 2 ELSE i

\* What arrived is what the other side sent next, and the rest is under way.
Flow(s) ==
  /\ Rec(s) + Len(chan[s].inbox) <= Sent(Other(s)) /\ ~chan[s].over
  /\ \A i \in 1..Len(chan[s].inbox) : chan[s].inbox[i] = Message(Other(s), Rec(s) + i)
  /\ ~chan[s].closed =>
       /\ Rec(s) + Len(chan[s].inbox) + Len(wire[s]) = Sent(Other(s))
       /\ \A i \in 1..Len(wire[s]) : wire[s][i] = Message(Other(s), Rec(s) + Len(chan[s].inbox) + i)
FlowInv == \A s \in Sides : (test = "overflow" /\ s = "answerer") \/ Flow(s)

\* A side may be closed.
Ended ==
  CASE test \in TwoPeer -> \E g \in Sides : K(g) = 4 /\ I(g) > 1
    [] test = "overflow" -> chan["answerer"].over \/ K(B) = 5
    [] test \in {"error-closed", "post-close-send"} -> K(B) = 4 /\ I(B) > 1
    [] test = "round-trip" -> K(B) = 5
    [] test \in {"send-via-stream", "receive-via-stream", "receive-via-stream-once"} -> K(B) = 6
    [] test = "timed-out" -> I(B) > 2
    [] test = "invalid-sdp" -> FALSE
EndInv ==
  /\ \A s \in Sides : (chan[s].closed \/ Lost(s)) => Ended
  /\ test \in TwoPeer => \A g \in Sides : K(g) = 4 /\ I(g) > 1 => chan[g].closed

Claims(s) ==
  /\ s = "answerer"
  /\ \/ test = "receive-via-stream" /\ ((K(B) = 5 /\ I(B) > 1) \/ K(B) = 6)
     \/ test = "receive-via-stream-once" /\ ((K(B) = 4 /\ J(B) > 1) \/ K(B) > 4)
ClaimInv == \A s \in Sides : chan[s].claimed <=> Claims(s)

\* What is particular to a test.
SpecialInv ==
  /\ test = "post-close-send" /\ K(B) = 4 /\ I(B) = 2 => loops + chan["offerer"].lag <= Lag /\ chan["offerer"].closed
  /\ test = "overflow" =>
       /\ K(B) < 4 => wire["answerer"] = <<>> /\ ~chan["answerer"].over
       /\ K(B) = 4 /\ I(B) = 3 => chan["answerer"].over
       /\ \A i \in 1..Len(wire["answerer"]) : wire["answerer"][i] = Filler
       /\ \A i \in 1..Len(chan["answerer"].inbox) : chan["answerer"].inbox[i] = Filler
  /\ test = "timed-out" => ~peer["answerer"].local /\ (peer["offerer"].conn = "new" \/ I(B) > 2)

MetInv ==
  test \in TwoPeer => \A s \in Sides :
    /\ Len(published[s]) = Pub(s)
    /\ s \in frozen => Pub(s) = 3
    /\ s = "offerer" => (Len(received[s]) = 0 <=> K("answerer") = 1 /\ I("answerer") = 1)
    /\ peer[Other(s)].remote <=> Len(received[s]) > 0

Good == RunsInv /\ EndInv /\ FlowInv /\ ClaimInv /\ SpecialInv /\ MetInv
IInv == Always /\ (~fault => Good)

-----------------------------------------------------------------------------
(* Places *)

\* The tables have numbers for sizes.
LEMMA SizesNat ==
  ASSUME GuestAssumption, NEW g, NEW k \in 1..StageCount, NEW t
  PROVE  Msgs \in Nat /\ Size(g, k, t) \in Nat
<1>1. Count \in Nat
  BY DEF GuestAssumption
<1>2. Msgs \in Nat
  BY <1>1 DEF Msgs
<1>3. ExchangeSize(t) \in Nat /\ FourthSize(t) \in Nat /\ FifthSize(t) \in Nat
  BY <1>1, <1>2 DEF ExchangeSize, FourthSize, FifthSize
<1>4. ConnectSize(k, t) \in Nat
  BY DEF ConnectSize
<1>5. CASE test \in TwoPeer
  <2>1. k \in 1..4
    BY <1>5 DEF StageCount, TwoPeer
  <2> QED BY <1>2, <1>3, <1>5, <2>1 DEF Size, PeerSize, HandshakeSize
<1>6. CASE test \notin TwoPeer
  BY <1>2, <1>3, <1>4, <1>6 DEF Size, InprocSize
<1> QED BY <1>5, <1>6

\* What depends on the test alone does not change while the test runs.
LEMMA TestKept ==
  ASSUME test' = test
  PROVE  /\ Guests' = Guests /\ StageCount' = StageCount /\ Msgs' = Msgs /\ ClosesAt' = ClosesAt
         /\ \A g, k, t : Size(g, k, t)' = Size(g, k, t)
<1>1. Guests' = Guests /\ Msgs' = Msgs /\ ClosesAt' = ClosesAt
  BY DEF Guests, Msgs, ClosesAt
<1>2. StageCount' = StageCount
  BY <1>1 DEF StageCount
<1>3. \A t : ExchangeSize(t)' = ExchangeSize(t) /\ FourthSize(t)' = FourthSize(t) /\ FifthSize(t)' = FifthSize(t)
  BY <1>1 DEF ExchangeSize, FourthSize, FifthSize
<1>4. \A g, k, t : PeerSize(g, k, t)' = PeerSize(g, k, t)
  BY <1>3 DEF PeerSize
<1>5. \A k, t : InprocSize(k, t)' = InprocSize(k, t)
  BY <1>1, <1>3 DEF InprocSize
<1> QED BY <1>1, <1>2, <1>4, <1>5 DEF Size

\* A guest that has not finished a stage is at a call of the table.
LEMMA Placed ==
  ASSUME GuestAssumption, PosInv, NEW g \in Guests, NEW t \in Threads
  PROVE  /\ Length(g, t) = Size(g, K(g), t)
         /\ Size(g, K(g), t) \in Nat
         /\ pos[g].ix[t] \in 1..(Size(g, K(g), t) + 1)
         /\ Finished(g, t) <=> pos[g].ix[t] = Size(g, K(g), t) + 1
         /\ ~Finished(g, t) => CallAt(g, K(g), t, pos[g].ix[t], Current(g, t))
<1>1. /\ K(g) \in 1..StageCount /\ pos[g].ix[t] \in 1..(Size(g, K(g), t) + 1) /\ test \in Tests
      /\ pos[g].ix[t] \in Nat
  BY DEF PosInv, K
<1> DEFINE p == Run(g)[K(g)]
<1>2. /\ StageHas(p, Size(g, K(g), 1), Size(g, K(g), 2))
      /\ \A i \in 1..Size(g, K(g), 1) : CallAt(g, K(g), 1, i, p[1][i])
      /\ \A i \in 1..Size(g, K(g), 2) : CallAt(g, K(g), 2, i, p[2][i])
  BY <1>1, StageTable
<1>3. Stage(g) = p
  BY DEF Stage, K
<1> HIDE DEF p
<1>4. Size(g, K(g), t) \in Nat
  BY <1>1, SizesNat
<1>5. CASE t = 1
  <2>1. Length(g, t) = Size(g, K(g), t)
    BY <1>2, <1>3, <1>5 DEF Length, StageHas
  <2>2. Current(g, t) = p[1][pos[g].ix[1]]
    BY <1>3, <1>5 DEF Current
  <2> QED BY <1>1, <1>2, <1>4, <1>5, <2>1, <2>2 DEF Finished
<1>6. CASE t = 2
  <2>1. Length(g, t) = Size(g, K(g), t)
    BY <1>2, <1>3, <1>6 DEF Length, StageHas
  <2>2. Current(g, t) = p[2][pos[g].ix[2]]
    BY <1>3, <1>6 DEF Current
  <2> QED BY <1>1, <1>2, <1>4, <1>6, <2>1, <2>2 DEF Finished
<1> QED BY <1>5, <1>6 DEF Threads

\* Thread t of guest g goes on by one place.
LEMMA GoesFacts ==
  ASSUME PosInv, NEW g \in Guests, NEW t \in Threads, Goes(g, t)
  PROVE  /\ test' = test /\ verdict' = verdict /\ pos' \in [Guests -> [stage : Nat, ix : [Threads -> Nat], bad : BOOLEAN]]
         /\ \A h \in Guests : /\ pos'[h].stage = pos[h].stage /\ pos'[h].bad = pos[h].bad
                              /\ h # g => pos'[h] = pos[h]
         /\ pos'[g].ix[t] = pos[g].ix[t] + 1
         /\ \A u \in Threads \ {t} : pos'[g].ix[u] = pos[g].ix[u]
<1> DEFINE q == pos[g]
           x == [q.ix EXCEPT ![t] = @ + 1]
           r == [q EXCEPT !.ix = x]
<1>1. pos \in [Guests -> [stage : Nat, ix : [Threads -> Nat], bad : BOOLEAN]] /\ q \in [stage : Nat, ix : [Threads -> Nat], bad : BOOLEAN]
  BY DEF PosInv
<1>2. test' = test /\ verdict' = verdict /\ pos' = [pos EXCEPT ![g] = r]
  BY DEF Goes
<1>3. x \in [Threads -> Nat] /\ x[t] = q.ix[t] + 1 /\ \A u \in Threads \ {t} : x[u] = q.ix[u]
  BY <1>1
<1>4. r \in [stage : Nat, ix : [Threads -> Nat], bad : BOOLEAN] /\ r.stage = q.stage /\ r.bad = q.bad /\ r.ix = x
  <2> HIDE DEF x
  <2> QED BY <1>1, <1>3
<1> HIDE DEF r, x
<1>5. pos'[g] = r /\ \A h \in Guests : h # g => pos'[h] = pos[h]
  BY <1>1, <1>2
<1>6. pos' \in [Guests -> [stage : Nat, ix : [Threads -> Nat], bad : BOOLEAN]]
  BY <1>1, <1>2, <1>4
<1> QED BY <1>2, <1>3, <1>4, <1>5, <1>6

\* Thread t of guest g stops: it is past its last call.
LEMMA StopsFacts ==
  ASSUME GuestAssumption, PosInv, NEW g \in Guests, NEW t \in Threads, Stops(g, t)
  PROVE  /\ test' = test /\ verdict' = verdict /\ pos' \in [Guests -> [stage : Nat, ix : [Threads -> Nat], bad : BOOLEAN]]
         /\ \A h \in Guests : /\ pos'[h].stage = pos[h].stage
                              /\ h # g => pos'[h] = pos[h]
         /\ pos'[g].ix[t] = Size(g, K(g), t) + 1
         /\ \A u \in Threads \ {t} : pos'[g].ix[u] = pos[g].ix[u]
<1>1. Length(g, t) = Size(g, K(g), t) /\ Size(g, K(g), t) \in Nat
  BY Placed
<1> DEFINE q == pos[g]
           x == [q.ix EXCEPT ![t] = Size(g, K(g), t) + 1]
           r == [q EXCEPT !.ix = x, !.bad = TRUE]
<1>2. pos \in [Guests -> [stage : Nat, ix : [Threads -> Nat], bad : BOOLEAN]] /\ q \in [stage : Nat, ix : [Threads -> Nat], bad : BOOLEAN]
  BY DEF PosInv
<1>3. test' = test /\ verdict' = verdict /\ pos' = [pos EXCEPT ![g] = r]
  BY <1>1 DEF Stops
<1>4. x \in [Threads -> Nat] /\ x[t] = Size(g, K(g), t) + 1 /\ \A u \in Threads \ {t} : x[u] = q.ix[u]
  BY <1>1, <1>2
<1>5. r \in [stage : Nat, ix : [Threads -> Nat], bad : BOOLEAN] /\ r.stage = q.stage /\ r.ix = x
  <2> HIDE DEF x
  <2> QED BY <1>2, <1>4
<1> HIDE DEF r, x
<1>6. pos'[g] = r /\ \A h \in Guests : h # g => pos'[h] = pos[h]
  BY <1>2, <1>3
<1>7. pos' \in [Guests -> [stage : Nat, ix : [Threads -> Nat], bad : BOOLEAN]]
  BY <1>2, <1>3, <1>5
<1> QED BY <1>3, <1>4, <1>5, <1>6, <1>7

\* A thread that goes on, stops or stays is still at a place of its program.
LEMMA Moved ==
  ASSUME GuestAssumption, PosInv, NEW g \in Guests, NEW t \in Threads, ~Finished(g, t),
         Goes(g, t) \/ Stops(g, t) \/ Stays
  PROVE  PosInv'
<1>1. test' = test /\ verdict' = verdict
  BY DEF Goes, Stops, Stays
<1>2. /\ Guests' = Guests /\ StageCount' = StageCount
      /\ \A h, k, u : Size(h, k, u)' = Size(h, k, u)
  BY <1>1, TestKept
<1>3. pos[g].ix[t] + 1 \in 1..(Size(g, K(g), t) + 1) /\ Size(g, K(g), t) + 1 \in 1..(Size(g, K(g), t) + 1)
  BY Placed
<1>4. CASE Goes(g, t)
  BY <1>1, <1>2, <1>3, <1>4, GoesFacts, SMTT(30) DEF PosInv, K
<1>5. CASE Stops(g, t)
  <2>1. pos' \in [Guests -> [stage : Nat, ix : [Threads -> Nat], bad : BOOLEAN]]
    BY <1>5, StopsFacts
  <2>2. ASSUME NEW h \in Guests, NEW u \in Threads
        PROVE  pos'[h].stage \in 1..StageCount /\ pos'[h].ix[u] \in 1..(Size(h, pos'[h].stage, u) + 1)
    <3>1. pos'[h].stage = pos[h].stage /\ pos[h].stage \in 1..StageCount
      BY <1>5, StopsFacts DEF PosInv
    <3>2. CASE h = g /\ u = t
      BY <1>3, <1>5, <3>1, <3>2, StopsFacts DEF K
    <3>3. CASE ~(h = g /\ u = t)
      <4>1. pos'[h].ix[u] = pos[h].ix[u]
        BY <1>5, <3>3, StopsFacts
      <4> QED BY <3>1, <4>1 DEF PosInv
    <3> QED BY <3>2, <3>3
  <2> QED BY <1>1, <1>2, <2>1, <2>2 DEF PosInv
<1>6. CASE Stays
  BY <1>1, <1>2, <1>6 DEF PosInv, Stays
<1> QED BY <1>4, <1>5, <1>6

-----------------------------------------------------------------------------
(* Counting the messages *)

\* The calls that take a message a side sent.
Takes(st) == st.op \in {"receive", "read"} /\ st.want # Nothing

\* The constants as numbers, and how many messages an exchange has.
LEMMA Values ==
  ASSUME GuestAssumption
  PROVE  /\ Count \in Nat /\ Count >= 1 /\ Limit \in Nat /\ Limit >= 3 /\ Count < Limit
         /\ Lag \in Nat /\ Tries \in Nat /\ Lag <= Tries
         /\ Nothing = Count + 10 /\ Filler = Count + 5 /\ Sentinel = 0
         /\ Msgs \in Nat /\ Msgs + 1 <= Limit /\ Msgs <= Count + 2
         /\ (test \notin {"message", "unreliable", "pair", "label"} => Msgs = Count)
<1>1. /\ Count \in Nat /\ Count >= 1 /\ Limit \in Nat /\ Limit >= 3 /\ Count < Limit
      /\ Lag \in Nat /\ Tries \in Nat /\ Lag <= Tries
  BY DEF GuestAssumption
<1>2. Nothing = Count + 10 /\ Filler = Count + 5 /\ Sentinel = 0
  BY DEF Nothing, Filler, Sentinel
<1>3. Msgs \in Nat /\ Msgs + 1 <= Limit /\ Msgs <= Count + 2
  BY <1>1 DEF Msgs
<1>4. (test \notin {"message", "unreliable", "pair", "label"} => Msgs = Count)
  BY DEF Msgs
<1> QED BY <1>1, <1>2, <1>3, <1>4

SendsNow(st, s) == st.op = "send" /\ st.at = s
TakesNow(st, s) == Takes(st) /\ st.at = s

\* A guest of a two-peer test goes on: its count moves with the call it made, and the
\* call was for the message the count says.
LEMMA CountedPeer ==
  ASSUME GuestAssumption, PosInv, test \in TwoPeer, NEW g \in Guests, NEW t \in Threads, ~Finished(g, t), Goes(g, t)
  PROVE  LET st == Current(g, t) IN
         /\ \A s \in Sides : /\ Sent(s)' = IF SendsNow(st, s) THEN Sent(s) + 1 ELSE Sent(s)
                             /\ Rec(s)' = IF TakesNow(st, s) THEN Rec(s) + 1 ELSE Rec(s)
         /\ st.at = g
         /\ st.op = "send" => st.msg = Message(g, Sent(g) + 1)
         /\ st.op = "receive" => st.want = Message(Other(g), Rec(g) + 1)
<1> DEFINE st == Current(g, t)
<1>1. g \in Sides /\ Guests = Sides
  BY DEF Guests
<1>2. test' = test /\ test' \in TwoPeer /\ Msgs' = Msgs /\ (test' = "sequence" <=> test = "sequence")
  BY TestKept DEF Goes
<1>3. PeerCall(g, K(g), t, pos[g].ix[t], st) /\ pos[g].ix[t] \in 1..PeerSize(g, K(g), t)
  BY Placed DEF CallAt, Size
<1>4. /\ K(g) \in 1..4 /\ I(g) \in Nat /\ J(g) \in Nat
      /\ \A h \in Sides : K(h) \in 1..4 /\ I(h) \in Nat /\ J(h) \in Nat
  <2>1. StageCount = 4
    BY DEF StageCount, TwoPeer
  <2> QED BY <1>1, <2>1 DEF PosInv, K, I, J, Threads
<1>5. /\ K(g)' = K(g)
      /\ t = 1 => I(g)' = I(g) + 1 /\ J(g)' = J(g)
      /\ t = 2 => J(g)' = J(g) + 1 /\ I(g)' = I(g)
      /\ \A h \in Sides : h # g => K(h)' = K(h) /\ I(h)' = I(h) /\ J(h)' = J(h)
  BY <1>1, GoesFacts DEF K, I, J, Threads
<1>6. ASSUME NEW h \in Sides, h # g PROVE Sent(h)' = Sent(h) /\ Rec(h)' = Rec(h)
  BY <1>2, <1>4, <1>5, <1>6 DEF Sent, Rec, SentAsPeer, RecAsPeer
<1> HIDE DEF st
<1>7. CASE K(g) = 1
  <2>1. st.at = g /\ st.op \notin {"send", "receive", "read"}
    BY <1>3, <1>7 DEF PeerCall, HandshakeCall, Is
  <2>2. Sent(g)' = Sent(g) /\ Rec(g)' = Rec(g)
    BY <1>2, <1>5, <1>7 DEF Sent, Rec, SentAsPeer, RecAsPeer
  <2> QED BY <1>6, <2>1, <2>2 DEF Takes, SendsNow, TakesNow, st
<1>8. CASE K(g) = 2
  <2>1. ExchangeCall(g, t, pos[g].ix[t], st)
    BY <1>3, <1>8 DEF PeerCall
  <2>2. Sent(g) = Smaller(Msgs, I(g) - 1) /\ Sent(g)' = Smaller(Msgs, I(g)' - 1)
    BY <1>2, <1>5, <1>8 DEF Sent, SentAsPeer
  <2>3. /\ Rec(g) = IF test = "sequence" THEN J(g) - 1 ELSE Larger(0, I(g) - 1 - Msgs)
        /\ Rec(g)' = IF test = "sequence" THEN J(g)' - 1 ELSE Larger(0, I(g)' - 1 - Msgs)
    BY <1>2, <1>5, <1>8 DEF Rec, RecAsPeer
  <2>4. st.at = g
    BY <2>1 DEF ExchangeCall, Sends, Receives, Is
  <2>5. CASE t = 1 /\ I(g) \in 1..Msgs
    <3>1. st.op = "send" /\ st.msg = I(g)
      BY <2>1, <2>5, Values DEF ExchangeCall, Sends, Receives, Is, I
    <3>2. Sent(g) = I(g) - 1 /\ Sent(g)' = I(g) /\ Rec(g)' = Rec(g)
      BY <1>4, <1>5, <2>2, <2>3, <2>5, Values DEF Smaller, Larger
    <3>3. Message(g, Sent(g) + 1) = I(g)
      BY <1>4, <2>5, <3>2 DEF Message
    <3> QED BY <1>4, <1>6, <2>4, <3>1, <3>2, <3>3 DEF SendsNow, TakesNow, Takes, st
  <2>6. CASE t = 1 /\ test # "sequence" /\ I(g) \in (Msgs + 1)..(2 * Msgs)
    <3>1. st.op = "receive" /\ st.want = I(g) - Msgs
      BY <2>1, <2>6, Values DEF ExchangeCall, Sends, Receives, Is, I
    <3>2. Sent(g)' = Sent(g) /\ Rec(g) = I(g) - Msgs - 1 /\ Rec(g)' = I(g) - Msgs
      BY <1>4, <1>5, <2>2, <2>3, <2>6, Values DEF Smaller, Larger
    <3>3. st.want = Message(Other(g), Rec(g) + 1) /\ st.want # Nothing
      BY <1>4, <2>6, <3>1, <3>2, Values DEF Message
    <3>4. Rec(g)' = Rec(g) + 1
      BY <1>4, <3>2, Values
    <3> QED BY <1>6, <2>4, <3>1, <3>2, <3>3, <3>4 DEF SendsNow, TakesNow, Takes, st
  <2>7. CASE t = 2 /\ test = "sequence" /\ J(g) \in 1..Msgs
    <3>1. st.op = "receive" /\ st.want = J(g)
      BY <2>1, <2>7, Values DEF ExchangeCall, Sends, Receives, Is, J
    <3>2. Sent(g)' = Sent(g) /\ Rec(g) = J(g) - 1 /\ Rec(g)' = J(g)
      BY <1>4, <1>5, <2>2, <2>3, <2>7
    <3>3. st.want = Message(Other(g), Rec(g) + 1) /\ st.want # Nothing
      BY <1>4, <2>7, <3>1, <3>2, Values DEF Message
    <3>4. Rec(g)' = Rec(g) + 1
      BY <1>4, <3>2
    <3> QED BY <1>6, <2>4, <3>1, <3>2, <3>3, <3>4 DEF SendsNow, TakesNow, Takes, st
  <2> QED BY <2>1, <2>5, <2>6, <2>7 DEF ExchangeCall, I, J
<1>9. CASE K(g) = 3
  <2>1. BarrierCall(g, t, st) /\ pos[g].ix[t] = 1
    BY <1>3, <1>9 DEF PeerCall
  <2>2. /\ Sent(g) = Msgs + I(g) - 1 /\ Sent(g)' = Msgs + I(g)' - 1
        /\ Rec(g) = Msgs + J(g) - 1 /\ Rec(g)' = Msgs + J(g)' - 1
    BY <1>2, <1>5, <1>9 DEF Sent, SentAsPeer, Rec, RecAsPeer
  <2>3. CASE t = 1
    <3>1. st.op = "send" /\ st.at = g /\ st.msg = Sentinel
      BY <2>1, <2>3 DEF BarrierCall, Sends, Is
    <3>2. Sent(g) = Msgs /\ Sent(g)' = Sent(g) + 1 /\ Rec(g)' = Rec(g)
      <4>1. I(g) = 1 /\ I(g)' = 2 /\ J(g)' = J(g)
        BY <1>5, <2>1, <2>3 DEF I
      <4> QED BY <1>4, <2>2, <4>1, Values
    <3>3. Message(g, Sent(g) + 1) = Sentinel
      BY <3>2, Values DEF Message
    <3> QED BY <1>6, <3>1, <3>2, <3>3 DEF SendsNow, TakesNow, Takes, st
  <2>4. CASE t = 2
    <3>1. st.op = "receive" /\ st.at = g /\ st.want = Sentinel
      BY <2>1, <2>4 DEF BarrierCall, Receives, Is
    <3>2. Rec(g) = Msgs /\ Rec(g)' = Rec(g) + 1 /\ Sent(g)' = Sent(g)
      BY <1>4, <1>5, <2>1, <2>2, <2>4, Values DEF J
    <3>3. Message(Other(g), Rec(g) + 1) = Sentinel
      BY <3>2, Values DEF Message
    <3>4. Sentinel # Nothing
      BY Values
    <3> QED BY <1>6, <3>1, <3>2, <3>3, <3>4 DEF SendsNow, TakesNow, Takes, st
  <2> QED BY <2>3, <2>4 DEF Threads
<1>10. CASE K(g) = 4
  <2>1. st.at = g /\ st.op = "close"
    BY <1>3, <1>10 DEF PeerCall, Is
  <2>2. Sent(g)' = Sent(g) /\ Rec(g)' = Rec(g)
    BY <1>2, <1>5, <1>10 DEF Sent, Rec, SentAsPeer, RecAsPeer
  <2> QED BY <1>6, <2>1, <2>2 DEF Takes, SendsNow, TakesNow, st
<1> QED BY <1>4, <1>7, <1>8, <1>9, <1>10

\* The four tests whose stages after the connection carry messages.
LEMMA CountedInproc ==
  ASSUME GuestAssumption, PosInv, test \in InProcess, NEW t \in Threads, ~Finished(B, t), Goes(B, t), B \in Guests
  PROVE  LET st == Current(B, t) IN
         /\ \A s \in Sides : /\ Sent(s)' = IF SendsNow(st, s) THEN Sent(s) + 1 ELSE Sent(s)
                             /\ Rec(s)' = IF TakesNow(st, s) THEN Rec(s) + 1 ELSE Rec(s)
         /\ st.op = "send" => st.at \in Sides /\ st.msg = Message(st.at, Sent(st.at) + 1)
         /\ Takes(st) => st.at \in Sides /\ st.want = Message(Other(st.at), Rec(st.at) + 1)
<1> DEFINE st == Current(B, t)
<1>2. test' = test /\ test \notin TwoPeer
  BY DEF Goes, InProcess, TwoPeer
<1>3. InprocCall(K(B), t, pos[B].ix[t], st) /\ pos[B].ix[t] \in 1..InprocSize(K(B), t)
  BY <1>2, Placed DEF CallAt, Size
<1>4. K(B) \in 1..StageCount /\ K(B) \in Nat /\ I(B) \in Nat /\ J(B) \in Nat
  BY DEF PosInv, K, I, J, Threads
<1>5. /\ K(B)' = K(B)
      /\ t = 1 => I(B)' = I(B) + 1 /\ J(B)' = J(B)
      /\ t = 2 => J(B)' = J(B) + 1 /\ I(B)' = I(B)
  BY GoesFacts DEF K, I, J, Threads
<1>6. t = 1 \/ t = 2
  BY DEF Threads
<1> HIDE DEF st
<1>7. CASE test \in {"timed-out", "invalid-sdp"}
  <2>1. st.op \notin {"send", "receive", "read"}
    BY <1>3, <1>7 DEF InprocCall, Is
  <2>2. \A s \in Sides : Sent(s)' = Sent(s) /\ Rec(s)' = Rec(s)
    BY <1>2, <1>4, <1>5, <1>7 DEF Sent, Rec
  <2> QED BY <2>1, <2>2 DEF Takes, SendsNow, TakesNow, st
<1>8. CASE K(B) < 4 /\ test \in Connected
  <2>1. st.op \notin {"send", "receive", "read"}
    BY <1>3, <1>4, <1>8 DEF InprocCall, ConnectCall, Is, Connected
  <2>2. \A s \in Sides : Sent(s)' = Sent(s) /\ Rec(s)' = Rec(s)
    BY <1>2, <1>4, <1>5, <1>8 DEF Sent, Rec
  <2> QED BY <2>1, <2>2 DEF Takes, SendsNow, TakesNow, st
<1>9. CASE K(B) = 4 /\ test \in Connected
  <2>1. FourthCall(t, pos[B].ix[t], st) /\ pos[B].ix[t] \in 1..FourthSize(t)
    BY <1>3, <1>9 DEF InprocCall, InprocSize, Connected, ClosesAt
  <2>2. CASE test = "round-trip"
    <3>1. /\ Sent("offerer") = Smaller(1, I(B) - 1) /\ Sent("offerer")' = Smaller(1, I(B)' - 1)
          /\ Sent("answerer") = J(B) - Smaller(2, J(B)) /\ Sent("answerer")' = J(B)' - Smaller(2, J(B)')
          /\ Rec("offerer") = I(B) - Smaller(2, I(B)) /\ Rec("offerer")' = I(B)' - Smaller(2, I(B)')
          /\ Rec("answerer") = Smaller(1, J(B) - 1) /\ Rec("answerer")' = Smaller(1, J(B)' - 1)
      BY <1>2, <1>5, <1>9, <2>2 DEF Sent, Rec
    <3>2. FourthSize(t) = 2
      BY <2>2 DEF FourthSize
    <3>3. \A i : Message("offerer", i) = i /\ Message("answerer", i) = 2
      BY <1>2 DEF Message
    <3>4. Nothing \notin {1, 2}
      BY Values
    <3>5. CASE t = 1 /\ I(B) = 1
      <4>1. Sends(st, "offerer", 1, {})
        <5>1. FourthCall(1, 1, st)
          BY <2>1, <3>5 DEF I
        <5> QED BY <2>2, <5>1 DEF FourthCall, Receives, Sends, Is
      <4>2. I(B)' = 2 /\ J(B)' = J(B)
        BY <1>5, <3>5
      <4>3. Sent("offerer") = 0 /\ Sent("offerer")' = 1 /\ Rec("offerer")' = Rec("offerer")
        BY <3>1, <3>5, <4>2 DEF Smaller
      <4> QED BY <3>1, <3>3, <4>1, <4>2, <4>3 DEF Sides, Sends, Is, SendsNow, TakesNow, Takes, st
    <3>6. CASE t = 1 /\ I(B) = 2
      <4>1. Receives(st, "offerer", 2, FALSE, {})
        <5>1. FourthCall(1, 2, st)
          BY <2>1, <3>6 DEF I
        <5> QED BY <2>2, <5>1 DEF FourthCall, Receives, Sends, Is
      <4>2. I(B)' = 3 /\ J(B)' = J(B)
        BY <1>5, <3>6
      <4>3. Sent("offerer") = 1 /\ Sent("offerer")' = 1 /\ Rec("offerer") = 0 /\ Rec("offerer")' = 1
        BY <3>1, <3>6, <4>2 DEF Smaller
      <4> QED BY <3>1, <3>3, <3>4, <4>1, <4>2, <4>3 DEF Sides, Receives, Is, SendsNow, TakesNow, Takes, Other, st
    <3>7. CASE t = 2 /\ J(B) = 1
      <4>1. Receives(st, "answerer", 1, FALSE, {})
        <5>1. FourthCall(2, 1, st)
          BY <2>1, <3>7 DEF J
        <5> QED BY <2>2, <5>1 DEF FourthCall, Receives, Sends, Is
      <4>2. J(B)' = 2 /\ I(B)' = I(B)
        BY <1>5, <3>7
      <4>3. Sent("answerer") = 0 /\ Sent("answerer")' = 0 /\ Rec("answerer") = 0 /\ Rec("answerer")' = 1
        BY <3>1, <3>7, <4>2 DEF Smaller
      <4> QED BY <3>1, <3>3, <3>4, <4>1, <4>2, <4>3 DEF Sides, Receives, Is, SendsNow, TakesNow, Takes, Other, st
    <3>8. CASE t = 2 /\ J(B) = 2
      <4>1. Sends(st, "answerer", 2, {})
        <5>1. FourthCall(2, 2, st)
          BY <2>1, <3>8 DEF J
        <5> QED BY <2>2, <5>1 DEF FourthCall, Receives, Sends, Is
      <4>2. J(B)' = 3 /\ I(B)' = I(B)
        BY <1>5, <3>8
      <4>3. Sent("answerer") = 0 /\ Sent("answerer")' = 1 /\ Rec("answerer")' = Rec("answerer")
        BY <3>1, <3>8, <4>2 DEF Smaller
      <4> QED BY <3>1, <3>3, <4>1, <4>2, <4>3 DEF Sides, Sends, Is, SendsNow, TakesNow, Takes, st
    <3> QED BY <1>6, <2>1, <3>2, <3>5, <3>6, <3>7, <3>8 DEF I, J
  <2>3. CASE test \in {"send-via-stream", "receive-via-stream"}
    <3>1. /\ Sent("offerer") = I(B) - 1 /\ Sent("offerer")' = I(B)' - 1 /\ Rec("offerer")' = Rec("offerer")
          /\ Sent("answerer")' = Sent("answerer") /\ Rec("answerer")' = Rec("answerer")
      <4>1. Sent("offerer") = I(B) - 1 /\ Sent("offerer")' = I(B)' - 1
        BY <1>2, <1>5, <1>9, <2>3 DEF Sent
      <4>2. Sent("answerer") = 0 /\ Sent("answerer")' = 0 /\ Rec("offerer") = 0 /\ Rec("offerer")' = 0
        BY <1>2, <1>5, <1>9, <2>3 DEF Sent, Rec
      <4>3. Rec("answerer") = 0 /\ Rec("answerer")' = 0
        BY <1>2, <1>5, <1>9, <2>3 DEF Rec
      <4> QED BY <4>1, <4>2, <4>3
    <3>2. t = 1 /\ Sends(st, "offerer", I(B), {})
      <4>1. t = 1
        BY <1>6, <2>1, <2>3 DEF FourthSize
      <4>2. FourthCall(1, I(B), st)
        BY <2>1, <4>1 DEF I
      <4> QED BY <2>3, <4>1, <4>2 DEF FourthCall
    <3>3. Message("offerer", I(B)) = I(B)
      BY <1>2 DEF Message
    <3>4. Sent("offerer")' = Sent("offerer") + 1 /\ Sent("offerer") + 1 = I(B)
      BY <1>4, <1>5, <3>1, <3>2
    <3> QED BY <3>1, <3>2, <3>3, <3>4 DEF Sides, Sends, Is, SendsNow, TakesNow, Takes, st
  <2>4. CASE test \in {"overflow", "error-closed", "post-close-send", "receive-via-stream-once"}
    <3>1. st.op # "send" /\ st.op # "read" /\ (st.op = "receive" => st.want = Nothing)
      BY <2>1, <2>4 DEF FourthCall, Is, Receives
    <3>2. \A s \in Sides : Sent(s)' = Sent(s) /\ Rec(s)' = Rec(s)
      BY <1>2, <1>4, <1>5, <2>4 DEF Sent, Rec
    <3> QED BY <3>1, <3>2 DEF Takes, SendsNow, TakesNow, st
  <2> QED BY <1>9, <2>2, <2>3, <2>4 DEF Connected, InProcess
<1>10. CASE K(B) > 4 /\ test \in Connected
  <2>1. CASE K(B) = ClosesAt
    <3>1. st.op = "close"
      BY <1>3, <1>4, <1>10, <2>1 DEF InprocCall, LastCall, Is, Connected
    <3>2. \A s \in Sides : Sent(s)' = Sent(s) /\ Rec(s)' = Rec(s)
      BY <1>2, <1>4, <1>5, <1>10, <2>1 DEF Sent, Rec, ClosesAt
    <3> QED BY <3>1, <3>2 DEF Takes, SendsNow, TakesNow, st
  <2>2. CASE K(B) # ClosesAt
    <3>1. K(B) = 5 /\ test \in {"send-via-stream", "receive-via-stream", "receive-via-stream-once"}
      BY <1>4, <1>10, <2>2 DEF Connected, InProcess, TwoPeer, StageCount, ClosesAt
    <3>2. FifthCall(pos[B].ix[t], st) /\ pos[B].ix[t] \in 1..FifthSize(t)
      BY <1>3, <1>10, <2>2, <3>1 DEF InprocCall, InprocSize
    <3>3. t = 1
      BY <1>6, <3>2 DEF FifthSize
    <3>4. CASE test = "send-via-stream"
      <4>1. Receives(st, "answerer", I(B), FALSE, {}) /\ I(B) \in 1..Count
        <5>1. FifthCall(I(B), st) /\ I(B) \in 1..FifthSize(1)
          BY <3>2, <3>3 DEF I
        <5> QED BY <3>4, <5>1 DEF FifthCall, FifthSize, Receives, Is
      <4>2. /\ Rec("answerer") = I(B) - 1 /\ Rec("answerer")' = I(B)' - 1 /\ Rec("offerer")' = Rec("offerer")
            /\ Sent("answerer")' = Sent("answerer") /\ Sent("offerer")' = Sent("offerer")
        BY <1>2, <1>5, <3>1, <3>4 DEF Sent, Rec
      <4>3. Rec("answerer")' = Rec("answerer") + 1 /\ Rec("answerer") + 1 = I(B) /\ I(B) # Nothing
        BY <1>4, <1>5, <3>3, <4>1, <4>2, Values
      <4>4. Message("offerer", I(B)) = I(B)
        BY <1>2 DEF Message
      <4> QED BY <4>1, <4>2, <4>3, <4>4 DEF Sides, Receives, Is, SendsNow, TakesNow, Takes, Other, st
    <3>5. CASE test = "receive-via-stream"
      <4>1. I(B) \in 1..(Count + 1)
        BY <3>2, <3>3, <3>5 DEF FifthSize, I
      <4>2. /\ Rec("answerer") = I(B) - Smaller(2, I(B)) /\ Rec("answerer")' = I(B)' - Smaller(2, I(B)')
            /\ Rec("offerer")' = Rec("offerer")
            /\ Sent("answerer")' = Sent("answerer") /\ Sent("offerer")' = Sent("offerer")
        BY <1>2, <1>5, <3>1, <3>5 DEF Sent, Rec
      <4>3. CASE I(B) = 1
        <5>1. st.op = "claim"
          BY <3>2, <3>3, <3>5, <4>3 DEF FifthCall, Is, I
        <5>2. I(B)' = 2
          BY <1>5, <3>3, <4>3
        <5>3. Rec("answerer")' = Rec("answerer")
          BY <4>2, <4>3, <5>2 DEF Smaller
        <5> QED BY <4>2, <5>1, <5>3 DEF Sides, SendsNow, TakesNow, Takes, st
      <4>4. CASE I(B) > 1
        <5>1. Is(st, "read", "answerer") /\ st.want = I(B) - 1
          BY <3>2, <3>3, <3>5, <4>4 DEF FifthCall, I
        <5>2. I(B)' = I(B) + 1
          BY <1>5, <3>3, <4>4
        <5>3. Rec("answerer") = I(B) - 2 /\ Rec("answerer")' = I(B) - 1
          BY <1>4, <4>1, <4>2, <4>4, <5>2, Values DEF Smaller
        <5>4. Rec("answerer")' = Rec("answerer") + 1 /\ Rec("answerer") + 1 = st.want /\ st.want # Nothing
          BY <1>4, <4>1, <4>4, <5>1, <5>3, Values
        <5>5. Message("offerer", st.want) = st.want
          BY <1>2 DEF Message
        <5> QED BY <4>2, <5>1, <5>4, <5>5 DEF Sides, Is, SendsNow, TakesNow, Takes, Other, st
      <4> QED BY <4>1, <4>3, <4>4, Values
    <3>6. CASE test = "receive-via-stream-once"
      <4>1. st.op # "send" /\ st.op # "read" /\ (st.op = "receive" => st.want = Nothing)
        BY <3>2, <3>6 DEF FifthCall, Is, Receives
      <4>2. \A s \in Sides : Sent(s)' = Sent(s) /\ Rec(s)' = Rec(s)
        BY <1>2, <1>4, <1>5, <3>6 DEF Sent, Rec
      <4> QED BY <4>1, <4>2 DEF Takes, SendsNow, TakesNow, st
    <3> QED BY <3>1, <3>4, <3>5, <3>6
  <2> QED BY <2>1, <2>2
<1> QED BY <1>4, <1>7, <1>8, <1>9, <1>10 DEF Connected

\* Thread t of guest g is at a call.
AtCall(g, t) == g \in Guests /\ t \in Threads /\ ~Finished(g, t)

\* The same for the guest of every test.
LEMMA Counted ==
  ASSUME GuestAssumption, PosInv, NEW g, NEW t, AtCall(g, t), Goes(g, t)
  PROVE  LET st == Current(g, t) IN
         /\ \A s \in Sides : /\ Sent(s)' = IF SendsNow(st, s) THEN Sent(s) + 1 ELSE Sent(s)
                             /\ Rec(s)' = IF TakesNow(st, s) THEN Rec(s) + 1 ELSE Rec(s)
         /\ st.op = "send" => st.at \in Sides /\ st.msg = Message(st.at, Sent(st.at) + 1)
         /\ Takes(st) => st.at \in Sides /\ st.want = Message(Other(st.at), Rec(st.at) + 1)
<1>1. CASE test \in TwoPeer
  <2>1. g \in Sides
    BY <1>1 DEF AtCall, Guests
  <2>2. PeerCall(g, K(g), t, pos[g].ix[t], Current(g, t))
    BY <1>1, Placed DEF CallAt, AtCall
  <2>3. Current(g, t).op # "read"
    BY <2>2 DEF PeerCall, HandshakeCall, ExchangeCall, BarrierCall, Sends, Receives, Is
  <2> QED BY <1>1, <2>1, <2>3, CountedPeer DEF AtCall, Takes
<1>2. CASE test \notin TwoPeer
  <2>1. test \in InProcess /\ g = B
    BY <1>2 DEF AtCall, Guests, GuestAssumption, PosInv, B
  <2> QED BY <2>1, CountedInproc DEF AtCall
<1> QED BY <1>1, <1>2

\* The counts and messages are numbers.
LEMMA NumbersNat ==
  ASSUME GuestAssumption, PosInv, NEW s \in Sides
  PROVE  Sent(s) \in Nat /\ Rec(s) \in Nat /\ \A i \in Nat : Message(s, i) \in Nat
<1>1. CASE test \in TwoPeer
  <2>1. Guests = Sides /\ StageCount = 4
    BY <1>1 DEF Guests, StageCount, TwoPeer
  <2>2. K(s) \in 1..4 /\ I(s) \in Nat /\ J(s) \in Nat /\ I(s) >= 1 /\ J(s) >= 1
    BY <2>1 DEF PosInv, K, I, J, Threads
  <2> QED BY <1>1, <2>2, Values DEF Sent, Rec, SentAsPeer, RecAsPeer, Message, Smaller, Larger
<1>2. CASE test \notin TwoPeer
  <2>1. Guests = {B}
    BY <1>2 DEF Guests, B
  <2>2. K(B) \in Nat /\ I(B) \in Nat /\ J(B) \in Nat /\ I(B) >= 1 /\ J(B) >= 1
    BY <2>1 DEF PosInv, K, I, J, Threads
  <2> QED BY <1>2, <2>2, Values DEF Sent, Rec, Message, Smaller, Larger
<1> QED BY <1>1, <1>2

\* The next stage starts at its first calls.
LEMMA StageMoved ==
  ASSUME GuestAssumption, PosInv, NEW g \in Guests, \A t \in Threads : Finished(g, t), test' = test, verdict' = verdict,
         K(g) # StageCount, pos' = [pos EXCEPT ![g] = [stage |-> @.stage + 1, ix |-> <<1, 1>>, bad |-> FALSE]]
  PROVE  /\ PosInv'
         /\ K(g)' = K(g) + 1 /\ I(g)' = 1 /\ J(g)' = 1 /\ ~pos'[g].bad
         /\ I(g) = Size(g, K(g), 1) + 1 /\ J(g) = Size(g, K(g), 2) + 1
         /\ \A h \in Guests : h # g => pos'[h] = pos[h]
<1> DEFINE r == [stage |-> pos[g].stage + 1, ix |-> <<1, 1>>, bad |-> FALSE]
<1>1. /\ Guests' = Guests /\ StageCount' = StageCount
      /\ \A h, k, u : Size(h, k, u)' = Size(h, k, u)
  BY TestKept
<1>2. K(g) \in 1..StageCount /\ StageCount \in Nat /\ K(g) + 1 \in 1..StageCount
  <2>1. K(g) \in 1..StageCount /\ StageCount \in Nat
    BY DEF PosInv, K, StageCount, ClosesAt
  <2> QED BY <2>1
<1>3. r.stage = K(g) + 1 /\ r.ix[1] = 1 /\ r.ix[2] = 1 /\ ~r.bad /\ r \in [stage : Nat, ix : [Threads -> Nat], bad : BOOLEAN]
  <2>1. <<1, 1>> \in [Threads -> Nat]
    BY DEF Threads
  <2> QED BY <1>2, <2>1 DEF K
<1>4. pos' = [pos EXCEPT ![g] = r]
  OBVIOUS
<1> HIDE DEF r
<1>5. pos'[g] = r /\ \A h \in Guests : h # g => pos'[h] = pos[h]
  BY <1>4 DEF PosInv
<1>6. pos' \in [Guests -> [stage : Nat, ix : [Threads -> Nat], bad : BOOLEAN]]
  BY <1>3, <1>4 DEF PosInv
<1>7. I(g) = Size(g, K(g), 1) + 1 /\ J(g) = Size(g, K(g), 2) + 1
  BY Placed DEF I, J, Threads
<1>8. ASSUME NEW h \in Guests, NEW t \in Threads
      PROVE  pos'[h].stage \in 1..StageCount /\ pos'[h].ix[t] \in 1..(Size(h, pos'[h].stage, t) + 1)
  <2>1. CASE h = g
    <3>1. Size(g, K(g) + 1, t) \in Nat
      BY <1>2, SizesNat
    <3> QED BY <1>2, <1>3, <1>5, <2>1, <3>1 DEF Threads
  <2>2. CASE h # g
    BY <1>5, <2>2 DEF PosInv
  <2> QED BY <2>1, <2>2
<1>9. PosInv'
  BY <1>1, <1>6, <1>8 DEF PosInv
<1> QED BY <1>3, <1>5, <1>7, <1>9 DEF K, I, J

\* The counts do not change from one stage to the next.
LEMMA CountedStage ==
  ASSUME GuestAssumption, PosInv, NEW g \in Guests, \A t \in Threads : Finished(g, t), test' = test, verdict' = verdict,
         K(g) # StageCount, pos' = [pos EXCEPT ![g] = [stage |-> @.stage + 1, ix |-> <<1, 1>>, bad |-> FALSE]]
  PROVE  \A s \in Sides : Sent(s)' = Sent(s) /\ Rec(s)' = Rec(s)
<1>1. /\ K(g)' = K(g) + 1 /\ I(g)' = 1 /\ J(g)' = 1
      /\ I(g) = Size(g, K(g), 1) + 1 /\ J(g) = Size(g, K(g), 2) + 1
      /\ \A h \in Guests : h # g => K(h)' = K(h) /\ I(h)' = I(h) /\ J(h)' = J(h)
  BY StageMoved DEF K, I, J
<1>2. K(g) \in 1..StageCount /\ StageCount \in Nat
  BY DEF PosInv, K, StageCount, ClosesAt
<1>3. CASE test \in TwoPeer
  <2>1. Guests = Sides /\ StageCount = 4 /\ Msgs' = Msgs
    BY <1>3, TestKept DEF Guests, StageCount, TwoPeer
  <2>2. ASSUME NEW h \in Sides, h # g PROVE Sent(h)' = Sent(h) /\ Rec(h)' = Rec(h)
    <3>1. K(h) \in 1..4
      BY <2>1 DEF PosInv, K
    <3> QED BY <1>1, <1>3, <2>1, <2>2, <3>1 DEF Sent, Rec, SentAsPeer, RecAsPeer
  <2>3. CASE K(g) = 1
    <3>1. Sent(g) = 0 /\ Rec(g) = 0 /\ Sent(g)' = Smaller(Msgs, I(g)' - 1)
      BY <1>1, <1>3, <2>1, <2>3 DEF Sent, Rec, SentAsPeer, RecAsPeer
    <3>2. Rec(g)' = IF test = "sequence" THEN J(g)' - 1 ELSE Larger(0, I(g)' - 1 - Msgs)
      BY <1>1, <1>3, <2>1, <2>3 DEF Rec, RecAsPeer
    <3>3. Sent(g)' = 0 /\ Rec(g)' = 0
      BY <1>1, <3>1, <3>2, Values DEF Smaller, Larger
    <3> QED BY <2>1, <2>2, <3>1, <3>3
  <2>4. CASE K(g) = 2
    <3>1. /\ Sent(g) = Smaller(Msgs, I(g) - 1) /\ Sent(g)' = Msgs
          /\ Rec(g) = IF test = "sequence" THEN J(g) - 1 ELSE Larger(0, I(g) - 1 - Msgs)
          /\ Rec(g)' = Msgs
      BY <1>1, <1>3, <2>1, <2>4, Values DEF Sent, Rec, SentAsPeer, RecAsPeer
    <3>2. /\ test = "sequence" => I(g) = Msgs + 1 /\ J(g) = Msgs + 1
          /\ test # "sequence" => I(g) = 2 * Msgs + 1
      BY <1>1, <1>3, <2>4 DEF Size, PeerSize, ExchangeSize
    <3>3. Sent(g)' = Sent(g) /\ Rec(g)' = Rec(g)
      BY <3>1, <3>2, Values DEF Smaller, Larger
    <3> QED BY <2>1, <2>2, <3>3
  <2>5. CASE K(g) = 3
    <3>1. I(g) = 2 /\ J(g) = 2
      BY <1>1, <1>3, <2>5 DEF Size, PeerSize
    <3>2. /\ Sent(g) = Msgs + I(g) - 1 /\ Sent(g)' = Msgs + 1
          /\ Rec(g) = Msgs + J(g) - 1 /\ Rec(g)' = Msgs + 1
      BY <1>1, <1>3, <2>1, <2>5 DEF Sent, Rec, SentAsPeer, RecAsPeer
    <3> QED BY <2>1, <2>2, <3>1, <3>2, Values
  <2> QED BY <1>2, <2>1, <2>3, <2>4, <2>5
<1>4. CASE test \notin TwoPeer
  <2>1. Guests = {B} /\ g = B /\ test \in InProcess
    BY <1>4 DEF Guests, B, GuestAssumption, PosInv
  <2>2. CASE K(B) < 3
    BY <1>1, <1>2, <1>4, <2>1, <2>2 DEF Sent, Rec
  <2>3. CASE K(B) = 3
    BY <1>1, <1>4, <2>1, <2>3, Values DEF Sent, Rec, Smaller
  <2>4. CASE K(B) > 3
    <3>1. test \in {"round-trip", "overflow", "send-via-stream", "receive-via-stream", "receive-via-stream-once"}
      BY <1>2, <1>4, <2>1, <2>4 DEF StageCount, InProcess
    <3>2. CASE test = "round-trip"
      <4>1. K(B) = 4 /\ StageCount = 5
        BY <1>2, <2>1, <2>4, <3>2 DEF StageCount, ClosesAt, TwoPeer
      <4>2. I(B) = 3 /\ J(B) = 3
        BY <1>1, <2>1, <1>4, <3>2, <4>1 DEF Size, InprocSize, FourthSize, ClosesAt
      <4>3. /\ Sent("offerer") = Smaller(1, I(B) - 1) /\ Sent("offerer")' = 1
            /\ Sent("answerer") = J(B) - Smaller(2, J(B)) /\ Sent("answerer")' = 1
            /\ Rec("offerer") = I(B) - Smaller(2, I(B)) /\ Rec("offerer")' = 1
            /\ Rec("answerer") = Smaller(1, J(B) - 1) /\ Rec("answerer")' = 1
        BY <1>1, <1>4, <2>1, <3>2, <4>1 DEF Sent, Rec
      <4> QED BY <4>2, <4>3 DEF Smaller, Sides
    <3>3. CASE test \in {"overflow", "receive-via-stream-once"}
      BY <1>1, <1>2, <1>4, <2>1, <2>4, <3>3 DEF Sent, Rec
    <3>4. CASE test \in {"send-via-stream", "receive-via-stream"}
      <4>1. K(B) \in {4, 5} /\ StageCount = 6
        BY <1>2, <2>1, <2>4, <3>4 DEF StageCount, ClosesAt, TwoPeer
      <4>2. CASE K(B) = 4
        <5>1. I(B) = Count + 1 /\ I(B)' = 1
          BY <1>1, <2>1, <1>4, <3>4, <4>2 DEF Size, InprocSize, FourthSize, ClosesAt
        <5>2. /\ Sent("offerer") = I(B) - 1 /\ Sent("offerer")' = Count
              /\ Sent("answerer") = 0 /\ Sent("answerer")' = 0
          BY <1>1, <1>4, <2>1, <3>4, <4>2 DEF Sent
        <5>3. Rec("offerer") = 0 /\ Rec("offerer")' = 0 /\ Rec("answerer") = 0
          BY <1>1, <1>4, <2>1, <3>4, <4>2 DEF Rec
        <5>4. Rec("answerer")' = 0
          BY <1>1, <1>4, <2>1, <3>4, <4>2, <5>1 DEF Rec, Smaller
        <5> QED BY <5>1, <5>2, <5>3, <5>4, Values DEF Sides
      <4>3. CASE K(B) = 5
        <5>1. I(B) = IF test = "send-via-stream" THEN Count + 1 ELSE Count + 2
          BY <1>1, <2>1, <1>4, <3>4, <4>3, Values DEF Size, InprocSize, FifthSize, ClosesAt
        <5>2. /\ Sent("offerer")' = Sent("offerer") /\ Sent("answerer") = 0 /\ Sent("answerer")' = 0
          BY <1>1, <1>4, <2>1, <3>4, <4>3 DEF Sent
        <5>3. Rec("offerer") = 0 /\ Rec("offerer")' = 0 /\ Rec("answerer")' = Count
          BY <1>1, <1>4, <2>1, <3>4, <4>3 DEF Rec
        <5>4. Rec("answerer") = IF test = "send-via-stream" THEN I(B) - 1 ELSE I(B) - Smaller(2, I(B))
          BY <1>1, <1>4, <2>1, <3>4, <4>3 DEF Rec
        <5>5. Rec("answerer") = Count
          BY <5>1, <5>4, Values DEF Smaller
        <5> QED BY <5>2, <5>3, <5>5 DEF Sides
      <4> QED BY <4>1, <4>2, <4>3
    <3> QED BY <3>1, <3>2, <3>3, <3>4
  <2> QED BY <1>2, <2>1, <2>2, <2>3, <2>4
<1> QED BY <1>3, <1>4

-----------------------------------------------------------------------------
(* What the programs call, and where *)

AsPeer(g, t, st) ==
  /\ test \in TwoPeer /\ g \in Sides /\ K(g) \in 1..4
  /\ pos[g].ix[t] \in 1..PeerSize(g, K(g), t) /\ PeerCall(g, K(g), t, pos[g].ix[t], st)
AsBoth(g, t, st) ==
  /\ test \in InProcess /\ test \notin TwoPeer /\ g = B /\ K(B) \in 1..StageCount /\ StageCount \in Nat
  /\ pos[B].ix[t] \in 1..InprocSize(K(B), t) /\ InprocCall(K(B), t, pos[B].ix[t], st)

\* The call a guest is at, by the table of its program.
LEMMA AtPlace ==
  ASSUME GuestAssumption, PosInv, NEW g, NEW t, AtCall(g, t)
  PROVE  /\ AsPeer(g, t, Current(g, t)) \/ AsBoth(g, t, Current(g, t))
         /\ t \in {1, 2}
<1>1. t \in {1, 2}
  BY DEF AtCall, Threads
<1>2. /\ pos[g].ix[t] \in 1..Size(g, K(g), t) /\ K(g) \in 1..StageCount
      /\ CallAt(g, K(g), t, pos[g].ix[t], Current(g, t))
  BY Placed DEF AtCall, PosInv, K
<1>3. CASE test \in TwoPeer
  <2>1. g \in Sides /\ StageCount = 4
    BY <1>3 DEF AtCall, Guests, StageCount, TwoPeer
  <2> QED BY <1>1, <1>2, <1>3, <2>1 DEF AsPeer, Size, CallAt
<1>4. CASE test \notin TwoPeer
  <2>1. g = B /\ test \in InProcess /\ StageCount \in Nat
    BY <1>4 DEF AtCall, Guests, B, GuestAssumption, PosInv, StageCount, ClosesAt
  <2> QED BY <1>1, <1>2, <1>4, <2>1 DEF AsBoth, Size, CallAt
<1> QED BY <1>3, <1>4

\* What the programs call, and where.
LEMMA ConnectPlaces ==
  ASSUME GuestAssumption, PosInv, NEW g, NEW t, AtCall(g, t), NEW st, st = Current(g, t)
  PROVE  /\ st.at \in Sides
         /\ test \in TwoPeer => st.at = g
         /\ st.op = "wait" =>
              \/ test \in TwoPeer /\ K(g) = 1
              \/ test \in Connected /\ K(B) = 2
         /\ st.op = "incoming" =>
              \/ test \in TwoPeer /\ K(g) = 1
              \/ test \in Connected /\ K(B) = 3
         /\ st.op = "times-out" => test = "timed-out" /\ I(B) = 2
         /\ st.op \in {"publish", "done", "recv-offer", "consume"} => test \in TwoPeer /\ K(g) = 1 /\ t = 1
         /\ st.op = "publish" => I(g) \in Offset(g)..(Offset(g) + 2) /\ st.blob = I(g) + 1 - Offset(g)
         /\ st.op = "done" => I(g) = Offset(g) + 3
         /\ st.op = "consume" => I(g) = Offset(g) + 4
         /\ st.op = "recv-offer" => I(g) = 1 /\ g = "answerer"
<1>1. CASE AsPeer(g, t, st)
  <2>1. g \in Sides /\ test \in TwoPeer /\ PeerCall(g, K(g), t, pos[g].ix[t], st)
    BY <1>1 DEF AsPeer
  <2>2. CASE K(g) = 1
    <3>1. t = 1 /\ HandshakeCall(g, I(g), st)
      BY <2>1, <2>2 DEF PeerCall, I
    <3> QED BY <2>1, <2>2, <3>1 DEF HandshakeCall, Is
  <2>3. CASE K(g) # 1
    <3>1. st.at = g /\ st.op \in {"send", "receive", "close"}
      BY <2>1, <2>3 DEF PeerCall, ExchangeCall, BarrierCall, Sends, Receives, Is
    <3> QED BY <2>1, <3>1
  <2> QED BY <2>2, <2>3
<1>2. CASE AsBoth(g, t, st)
  <2>1. test \notin TwoPeer /\ InprocCall(K(B), t, pos[B].ix[t], st) /\ K(B) \in 1..StageCount /\ StageCount \in Nat
    BY <1>2 DEF AsBoth
  <2>2. CASE test \in {"timed-out", "invalid-sdp"}
    <3>1. K(B) = 1
      BY <2>1, <2>2 DEF StageCount, TwoPeer
    <3>2. t = 1
      BY <1>2, <2>2, AtPlace DEF AsBoth, InprocSize
    <3>3. InprocCall(1, 1, I(B), st)
      BY <2>1, <3>1, <3>2 DEF I
    <3> QED BY <2>1, <2>2, <3>3 DEF InprocCall, Is, Sides
  <2>3. CASE test \in Connected
    <3>1. test \notin {"timed-out", "invalid-sdp"}
      BY <2>3 DEF Connected
    <3>2. CASE K(B) <= 3
      <4>1. ConnectCall(K(B), t, pos[B].ix[t], st)
        BY <2>1, <3>1, <3>2 DEF InprocCall
      <4> QED BY <2>1, <2>3, <3>2, <4>1 DEF ConnectCall, Is, Sides
    <3>3. CASE K(B) > 3
      <4>1. st.at \in Sides /\ st.op \in {"send", "receive", "close", "flood", "send-until-closed", "claim", "claim-fails", "read"}
        BY <2>1, <2>3, <3>1, <3>3 DEF InprocCall, LastCall, FourthCall, FifthCall, Sends, Receives, Is, Sides
      <4> QED BY <2>1, <4>1
    <3> QED BY <2>1, <3>2, <3>3
  <2> QED BY <1>2, <2>2, <2>3 DEF AsBoth, Connected
<1> QED BY <1>1, <1>2, AtPlace

\* Where the calls on the channel are.
LEMMA CallPlaces ==
  ASSUME GuestAssumption, PosInv, NEW g, NEW t, AtCall(g, t), NEW st, st = Current(g, t)
  PROVE  /\ st.op = "send" =>
              \/ test \in TwoPeer /\ K(g) = 2
              \/ test \in TwoPeer /\ K(g) = 3 /\ st.errs = {"closed"}
              \/ test \in {"round-trip", "send-via-stream", "receive-via-stream"} /\ K(B) = 4
         /\ st.op = "flood" => test = "overflow" /\ K(B) = 4 /\ I(B) = 1 /\ st.at = "offerer" /\ t = 1
         /\ st.op = "send-until-closed" => test = "post-close-send" /\ K(B) = 4 /\ I(B) = 2 /\ st.at = "offerer" /\ t = 1
         /\ st.op = "claim" =>
              /\ st.at = "answerer"
              /\ \/ test = "receive-via-stream" /\ K(B) = 5 /\ I(B) = 1 /\ t = 1
                 \/ test = "receive-via-stream-once" /\ K(B) = 4 /\ J(B) = 1 /\ t = 2
         /\ st.op = "claim-fails" => st.at = "answerer" /\ test = "receive-via-stream-once" /\ K(B) = 5
         /\ st.op = "read" => st.at = "answerer" /\ test = "receive-via-stream" /\ K(B) = 5 /\ I(B) > 1 /\ st.want # Nothing
         /\ st.op = "close" =>
              \/ test \in TwoPeer /\ K(g) = 4
              \/ test = "timed-out" /\ I(B) = 3
              \/ test \in {"error-closed", "post-close-send"} /\ K(B) = 4 /\ t = 1 /\ (I(B) = 1 => st.at = "offerer")
              \/ test \in Connected /\ K(B) = ClosesAt /\ K(B) > 4
         /\ test = "post-close-send" /\ K(B) = 4 /\ I(B) = 1 => st.op = "close" /\ t = 1
         /\ test = "timed-out" => st.op \in {"offer", "times-out", "close"} /\ st.at = "offerer" /\ t = 1
         /\ test \in TwoPeer /\ K(g) = 4 => st.op = "close" /\ I(g) = 1 /\ t = 1
<1>1. CASE AsPeer(g, t, st)
  <2>1. g \in Sides /\ test \in TwoPeer /\ PeerCall(g, K(g), t, pos[g].ix[t], st) /\ K(g) \in 1..4
    BY <1>1 DEF AsPeer
  <2>2. test \notin {"overflow", "post-close-send", "timed-out", "error-closed", "receive-via-stream", "receive-via-stream-once", "round-trip", "send-via-stream"}
    BY <2>1 DEF TwoPeer
  <2>3. CASE K(g) = 1
    <3>1. st.op \in {"offer", "answer", "recv-offer", "publish", "done", "consume", "wait", "incoming"}
      BY <2>1, <2>3 DEF PeerCall, HandshakeCall, Is
    <3> QED BY <2>1, <2>2, <2>3, <3>1
  <2>4. CASE K(g) = 2
    <3>1. st.op \in {"send", "receive"}
      BY <2>1, <2>4 DEF PeerCall, ExchangeCall, Sends, Receives, Is
    <3> QED BY <2>1, <2>2, <2>4, <3>1
  <2>5. CASE K(g) = 3
    <3>1. (st.op = "send" /\ st.errs = {"closed"}) \/ st.op = "receive"
      BY <2>1, <2>5 DEF PeerCall, BarrierCall, Sends, Receives, Is
    <3> QED BY <2>1, <2>2, <2>5, <3>1
  <2>6. CASE K(g) = 4
    <3>1. st.op = "close" /\ pos[g].ix[t] = 1 /\ t = 1
      BY <2>1, <2>6 DEF PeerCall, Is
    <3> QED BY <2>1, <2>2, <2>6, <3>1 DEF I
  <2> QED BY <2>1, <2>3, <2>4, <2>5, <2>6
<1>2. CASE AsBoth(g, t, st)
  <2>1. /\ test \notin TwoPeer /\ InprocCall(K(B), t, pos[B].ix[t], st) /\ K(B) \in 1..StageCount /\ StageCount \in Nat
        /\ pos[B].ix[t] \in 1..InprocSize(K(B), t) /\ t \in {1, 2}
    BY <1>2, AtPlace DEF AsBoth
  <2>2. CASE test \in {"timed-out", "invalid-sdp"}
    <3>1. K(B) = 1
      BY <2>1, <2>2 DEF StageCount, TwoPeer
    <3>2. t = 1
      BY <2>1, <2>2, <3>1 DEF InprocSize
    <3>3. InprocCall(1, 1, I(B), st)
      BY <2>1, <3>1, <3>2 DEF I
    <3> QED BY <2>1, <2>2, <3>2, <3>3 DEF InprocCall, Is
  <2>3. CASE test \in Connected
    <3>1. test \notin {"timed-out", "invalid-sdp"}
      BY <2>3 DEF Connected
    <3>2. CASE K(B) <= 3
      <4>1. ConnectCall(K(B), t, pos[B].ix[t], st)
        BY <2>1, <3>1, <3>2 DEF InprocCall
      <4>2. st.op \in {"offer", "set-remote", "answer", "add-candidates", "wait", "incoming"}
        BY <4>1 DEF ConnectCall, Is
      <4> QED BY <2>1, <3>1, <3>2, <4>2
    <3>3. CASE K(B) > 3 /\ K(B) = ClosesAt
      <4>1. LastCall(pos[B].ix[t], st)
        BY <2>1, <3>1, <3>3 DEF InprocCall
      <4>2. st.op = "close" /\ K(B) > 4 /\ test \notin {"error-closed", "post-close-send"}
        BY <2>3, <3>3, <4>1 DEF LastCall, Is, ClosesAt
      <4> QED BY <2>1, <2>3, <3>1, <3>3, <4>2
    <3>4. CASE K(B) = 4 /\ K(B) # ClosesAt
      <4>1. FourthCall(t, pos[B].ix[t], st) /\ pos[B].ix[t] \in 1..FourthSize(t)
        BY <2>1, <3>1, <3>4 DEF InprocCall, InprocSize
      <4>2. t = 1 => FourthCall(1, I(B), st) /\ I(B) \in 1..FourthSize(1)
        BY <4>1 DEF I
      <4>3. t = 2 => FourthCall(2, J(B), st) /\ J(B) \in 1..FourthSize(2)
        BY <4>1 DEF J
      <4>4. CASE test \in {"round-trip", "send-via-stream", "receive-via-stream"}
        <5>1. st.op \in {"send", "receive"}
          BY <4>1, <4>4 DEF FourthCall, Sends, Receives, Is
        <5> QED BY <2>1, <3>4, <4>4, <5>1
      <4>5. CASE test = "receive-via-stream-once"
        <5>1. (t = 1 /\ st.op = "receive") \/ (t = 2 /\ st.op = "claim" /\ st.at = "answerer" /\ J(B) = 1)
          BY <2>1, <4>2, <4>3, <4>5 DEF FourthCall, FourthSize, Receives, Is
        <5> QED BY <2>1, <3>4, <4>5, <5>1
      <4>6. CASE test \in {"overflow", "error-closed", "post-close-send"}
        <5>1. t = 1
          BY <2>1, <4>3, <4>6 DEF FourthSize
        <5>2. I(B) \in 1..3 /\ FourthCall(1, I(B), st)
          BY <4>2, <4>6, <5>1 DEF FourthSize
        <5> QED BY <2>1, <3>4, <4>6, <5>1, <5>2 DEF FourthCall, Receives, Is
      <4> QED BY <2>3, <4>4, <4>5, <4>6 DEF Connected, InProcess
    <3>5. CASE K(B) > 4 /\ K(B) # ClosesAt
      <4>1. K(B) = 5 /\ test \in {"send-via-stream", "receive-via-stream", "receive-via-stream-once"}
        BY <2>1, <2>3, <3>5 DEF Connected, InProcess, TwoPeer, StageCount, ClosesAt
      <4>2. FifthCall(pos[B].ix[t], st) /\ pos[B].ix[t] \in 1..FifthSize(t)
        BY <2>1, <3>5, <4>1 DEF InprocCall, InprocSize
      <4>3. t = 1
        BY <2>1, <4>2 DEF FifthSize
      <4>4. FifthCall(I(B), st) /\ I(B) \in 1..FifthSize(1)
        BY <4>2, <4>3 DEF I
      <4>5. test = "send-via-stream" => st.op = "receive"
        BY <4>4 DEF FifthCall, Receives, Is
      <4>6. test = "receive-via-stream-once" => (st.op = "claim-fails" /\ st.at = "answerer") \/ st.op = "receive"
        BY <4>4 DEF FifthCall, Receives, Is
      <4>7. test = "receive-via-stream" =>
              \/ st.op = "claim" /\ st.at = "answerer" /\ I(B) = 1
              \/ st.op = "read" /\ st.at = "answerer" /\ I(B) > 1 /\ st.want # Nothing
        <5>1. test = "receive-via-stream" => I(B) \in 1..(Count + 1)
          BY <4>4 DEF FifthSize
        <5> QED BY <4>4, <5>1, Values DEF FifthCall, Is
      <4> QED BY <2>1, <3>5, <4>1, <4>3, <4>5, <4>6, <4>7
    <3> QED BY <2>1, <3>2, <3>3, <3>4, <3>5
  <2> QED BY <1>2, <2>2, <2>3 DEF AsBoth, Connected
<1> QED BY <1>1, <1>2, AtPlace

\* Where the receives are, and what they take for an answer.
LEMMA ReceivePlaces ==
  ASSUME GuestAssumption, PosInv, NEW g, NEW t, AtCall(g, t), NEW st, st = Current(g, t), st.op = "receive"
  PROVE  /\ Claims(st.at) => "claimed" \in st.errs
         /\ \/ "closed" \in st.errs
            \/ test \in TwoPeer /\ K(g) = 2
            \/ test = "overflow" /\ st.at = "answerer"
            \/ test \in {"round-trip", "send-via-stream", "receive-via-stream-once"} /\ K(B) < ClosesAt
         /\ test = "overflow" =>
              /\ "overflow" \in st.errs /\ st.want = Nothing
              /\ st.at = "answerer" => st.skip /\ K(B) = 4 /\ I(B) = 3
         /\ st.want = Nothing => test \in {"overflow", "error-closed", "receive-via-stream-once"}
         /\ Claims(st.at) => st.want = Nothing
         /\ "closed" \in st.errs /\ st.want # Nothing => test \in TwoPeer /\ K(g) = 3 /\ J(g) = 1
<1>1. CASE AsPeer(g, t, st)
  <2>1. g \in Sides /\ test \in TwoPeer /\ PeerCall(g, K(g), t, pos[g].ix[t], st) /\ K(g) \in 1..4
    BY <1>1 DEF AsPeer
  <2>2. test \notin {"overflow", "receive-via-stream", "receive-via-stream-once"} /\ ~Claims(st.at)
    BY <2>1 DEF TwoPeer, Claims
  <2>3. K(g) \in {2, 3}
    BY <2>1 DEF PeerCall, HandshakeCall, Is
  <2>4. CASE K(g) = 2
    <3>1. ExchangeCall(g, t, pos[g].ix[t], st)
      BY <2>1, <2>4 DEF PeerCall
    <3>2. st.want \in 1..Msgs
      <4>1. CASE test # "sequence"
        <5>1. pos[g].ix[t] \in (Msgs + 1)..(2 * Msgs) /\ st.want = pos[g].ix[t] - Msgs
          BY <3>1, <4>1 DEF ExchangeCall, Sends, Receives, Is
        <5> QED BY <5>1, Values
      <4>2. CASE test = "sequence"
        BY <3>1, <4>2 DEF ExchangeCall, Sends, Receives, Is
      <4> QED BY <4>1, <4>2
    <3>3. st.want # Nothing
      BY <3>2, Values
    <3>4. "closed" \notin st.errs
      BY <3>1 DEF ExchangeCall, Sends, Receives, Is
    <3> QED BY <2>1, <2>2, <2>4, <3>3, <3>4
  <2>5. CASE K(g) = 3
    <3>1. st.want = Sentinel /\ st.errs = {"closed"}
      BY <2>1, <2>5 DEF PeerCall, BarrierCall, Sends, Receives, Is
    <3>2. st.want # Nothing
      BY <3>1, Values
    <3>3. J(g) = 1
      <4>1. t = 2
        BY <2>1, <2>5 DEF PeerCall, BarrierCall, Sends, Is
      <4>2. pos[g].ix[2] \in 1..1
        BY <1>1, <2>5, <4>1 DEF AsPeer, PeerSize
      <4>3. pos[g].ix[2] = 1
        BY <4>2
      <4> QED BY <4>3 DEF J
    <3> QED BY <2>1, <2>2, <2>5, <3>1, <3>2, <3>3
  <2> QED BY <2>3, <2>4, <2>5
<1>2. CASE AsBoth(g, t, st)
  <2>1. /\ test \notin TwoPeer /\ InprocCall(K(B), t, pos[B].ix[t], st) /\ K(B) \in 1..StageCount /\ StageCount \in Nat
        /\ pos[B].ix[t] \in 1..InprocSize(K(B), t) /\ t \in {1, 2}
    BY <1>2, AtPlace DEF AsBoth
  <2>2. test \in Connected
    <3>1. test \notin {"timed-out", "invalid-sdp"}
      BY <2>1 DEF InprocCall, Is
    <3> QED BY <1>2, <3>1 DEF AsBoth, Connected
  <2>3. K(B) > 3 /\ K(B) # ClosesAt
    <3>1. test \notin {"timed-out", "invalid-sdp"}
      BY <2>2 DEF Connected
    <3>2. CASE K(B) <= 3
      BY <2>1, <3>1, <3>2 DEF InprocCall, ConnectCall, Is
    <3>3. CASE K(B) > 3 /\ K(B) = ClosesAt
      BY <2>1, <3>1, <3>3 DEF InprocCall, LastCall, Is
    <3> QED BY <2>1, <3>2, <3>3
  <2>4. CASE K(B) = 4
    <3>1. FourthCall(t, pos[B].ix[t], st) /\ pos[B].ix[t] \in 1..FourthSize(t)
      BY <2>1, <2>2, <2>3, <2>4 DEF InprocCall, InprocSize, Connected
    <3>2. t = 1 => FourthCall(1, I(B), st) /\ I(B) \in 1..FourthSize(1)
      BY <3>1 DEF I
    <3>3. t = 2 => FourthCall(2, J(B), st) /\ J(B) \in 1..FourthSize(2)
      BY <3>1 DEF J
    <3>4. CASE test = "round-trip"
      <4>1. st.want \in {1, 2} /\ ClosesAt = 5 /\ ~Claims(st.at)
        BY <2>1, <3>2, <3>3, <3>4 DEF FourthCall, Sends, Receives, Is, ClosesAt, Claims
      <4>2. st.want # Nothing
        BY <4>1, Values
      <4>3. st.errs = {}
        BY <2>1, <3>2, <3>3, <3>4 DEF FourthCall, Sends, Receives, Is
      <4> QED BY <2>4, <3>4, <4>1, <4>2, <4>3
    <3>5. CASE test \in {"send-via-stream", "receive-via-stream", "post-close-send"}
      <4>1. st.op # "receive"
        BY <2>1, <3>1, <3>5 DEF FourthCall, Sends, Is
      <4> QED BY <4>1
    <3>6. CASE test = "receive-via-stream-once"
      <4>1. Receives(st, "answerer", Nothing, FALSE, {"claimed"}) /\ ClosesAt = 6
        BY <2>1, <3>2, <3>3, <3>6 DEF FourthCall, Is, ClosesAt
      <4> QED BY <2>4, <3>6, <4>1 DEF Receives, Is
    <3>7. CASE test \in {"overflow", "error-closed"}
      <4>1. t = 1
        BY <2>1, <3>3, <3>7 DEF FourthSize
      <4>2. I(B) \in 1..3 /\ FourthCall(1, I(B), st)
        BY <3>2, <3>7, <4>1 DEF FourthSize
      <4>3. ~Claims(st.at)
        BY <3>7 DEF Claims
      <4> QED BY <2>4, <3>7, <4>2, <4>3 DEF FourthCall, Receives, Is
    <3> QED BY <2>2, <3>4, <3>5, <3>6, <3>7 DEF Connected, InProcess
  <2>5. CASE K(B) # 4
    <3>1. K(B) = 5 /\ test \in {"send-via-stream", "receive-via-stream", "receive-via-stream-once"} /\ ClosesAt = 6
      BY <2>1, <2>2, <2>3, <2>5 DEF Connected, InProcess, TwoPeer, StageCount, ClosesAt
    <3>2. FifthCall(pos[B].ix[t], st) /\ pos[B].ix[t] \in 1..FifthSize(t)
      BY <2>1, <2>3, <3>1 DEF InprocCall, InprocSize
    <3>3. t = 1
      BY <2>1, <3>2 DEF FifthSize
    <3>4. FifthCall(I(B), st) /\ I(B) \in 1..FifthSize(1)
      BY <3>2, <3>3 DEF I
    <3>5. CASE test = "send-via-stream"
      <4>1. st.want \in 1..Count /\ ~Claims(st.at)
        BY <3>4, <3>5 DEF FifthCall, FifthSize, Receives, Is, Claims
      <4>2. st.want # Nothing
        BY <4>1, Values
      <4>3. st.errs = {}
        BY <3>4, <3>5 DEF FifthCall, Receives
      <4> QED BY <3>1, <3>5, <4>1, <4>2, <4>3
    <3>6. CASE test = "receive-via-stream"
      BY <3>4, <3>6 DEF FifthCall, Is
    <3>7. CASE test = "receive-via-stream-once"
      <4>1. st.errs = {"claimed"} /\ st.want = Nothing
        BY <3>4, <3>7 DEF FifthCall, Receives, Is
      <4> QED BY <3>1, <3>7, <4>1
    <3> QED BY <3>1, <3>5, <3>6, <3>7
  <2> QED BY <2>4, <2>5
<1> QED BY <1>1, <1>2, AtPlace

\* Where the claims are, and what may be closed, as the places move.
LEMMA ClaimsGo ==
  ASSUME GuestAssumption, PosInv, NEW g, NEW t, AtCall(g, t), Goes(g, t), NEW st, st = Current(g, t), NEW s \in Sides
  PROVE  /\ Claims(s)' <=> Claims(s) \/ (st.op = "claim" /\ s = "answerer")
         /\ st.op = "claim" => ~Claims(st.at)
         /\ st.op = "claim-fails" => Claims(st.at)
<1>1. test' = test
  BY DEF Goes
<1>2. CASE test \in {"receive-via-stream", "receive-via-stream-once"}
  <2>1. AsBoth(g, t, st) /\ t \in {1, 2}
    BY <1>2, AtPlace DEF AsPeer, TwoPeer
  <2>2. /\ g = B /\ B \in Guests /\ InprocCall(K(B), t, pos[B].ix[t], st) /\ K(B) \in 1..6
        /\ pos[B].ix[t] \in 1..InprocSize(K(B), t)
    BY <1>2, <2>1 DEF AsBoth, AtCall, StageCount, ClosesAt, TwoPeer
  <2>3. /\ K(B)' = K(B) /\ I(B) \in Nat /\ J(B) \in Nat
        /\ t = 1 => I(B)' = I(B) + 1 /\ J(B)' = J(B)
        /\ t = 2 => J(B)' = J(B) + 1 /\ I(B)' = I(B)
    BY <2>2, GoesFacts DEF K, I, J, Threads, AtCall, PosInv
  <2>4. CASE test = "receive-via-stream"
    <3>1. Claims(s) <=> s = "answerer" /\ ((K(B) = 5 /\ I(B) > 1) \/ K(B) = 6)
      BY <2>4 DEF Claims
    <3>2. Claims(s)' <=> s = "answerer" /\ ((K(B) = 5 /\ I(B)' > 1) \/ K(B) = 6)
      BY <1>1, <2>3, <2>4 DEF Claims
    <3>3. CASE K(B) # 5
      <4>1. st.op \notin {"claim", "claim-fails"}
        BY <2>4, <3>3, CallPlaces
      <4> QED BY <2>2, <3>1, <3>2, <3>3, <4>1
    <3>4. CASE K(B) = 5
      <4>1. FifthCall(pos[B].ix[t], st) /\ pos[B].ix[t] \in 1..FifthSize(t)
        BY <2>2, <2>4, <3>4 DEF InprocCall, InprocSize, ClosesAt
      <4>2. t = 1
        BY <2>1, <4>1 DEF FifthSize
      <4>3. FifthCall(I(B), st) /\ I(B) \in 1..FifthSize(1) /\ I(B) >= 1
        BY <4>1, <4>2 DEF I
      <4>4. (st.op = "claim" <=> I(B) = 1) /\ st.op # "claim-fails"
        BY <2>3, <2>4, <4>3 DEF FifthCall, Is
      <4>5. st.op = "claim" => st.at = "answerer"
        BY CallPlaces
      <4>6. I(B)' = I(B) + 1
        BY <2>3, <4>2
      <4>7. CASE I(B) = 1
        <5>1. ~Claims("answerer") /\ (Claims(s)' <=> s = "answerer")
          BY <2>4, <3>2, <3>4, <4>6, <4>7 DEF Claims
        <5> QED BY <3>1, <3>4, <4>4, <4>5, <4>7, <5>1
      <4>8. CASE I(B) > 1
        BY <2>3, <3>1, <3>2, <3>4, <4>4, <4>6, <4>8
      <4> QED BY <2>3, <4>3, <4>7, <4>8
    <3> QED BY <3>3, <3>4
  <2>5. CASE test = "receive-via-stream-once"
    <3>1. Claims(s) <=> s = "answerer" /\ ((K(B) = 4 /\ J(B) > 1) \/ K(B) > 4)
      BY <2>5 DEF Claims
    <3>2. Claims(s)' <=> s = "answerer" /\ ((K(B) = 4 /\ J(B)' > 1) \/ K(B) > 4)
      BY <1>1, <2>3, <2>5 DEF Claims
    <3>3. CASE K(B) # 4
      <4>1. st.op # "claim" /\ (st.op = "claim-fails" => K(B) = 5 /\ st.at = "answerer")
        BY <2>5, <3>3, CallPlaces
      <4>2. st.op = "claim-fails" => Claims(st.at)
        BY <2>5, <4>1 DEF Claims
      <4> QED BY <2>2, <3>1, <3>2, <3>3, <4>1, <4>2
    <3>4. CASE K(B) = 4
      <4>1. FourthCall(t, pos[B].ix[t], st) /\ pos[B].ix[t] \in 1..FourthSize(t)
        BY <2>2, <2>5, <3>4 DEF InprocCall, InprocSize, ClosesAt
      <4>2. pos[B].ix[t] = 1
        BY <2>1, <2>5, <4>1 DEF FourthSize
      <4>3. (st.op = "claim" <=> t = 2) /\ st.op # "claim-fails"
        BY <2>1, <2>5, <4>1 DEF FourthCall, Receives, Is
      <4>4. st.op = "claim" => st.at = "answerer"
        BY CallPlaces
      <4>5. CASE t = 1
        BY <2>3, <3>1, <3>2, <3>4, <4>3, <4>5
      <4>6. CASE t = 2
        <5>1. J(B) = 1 /\ J(B)' = 2
          BY <2>3, <4>2, <4>6 DEF J
        <5>2. ~Claims("answerer")
          BY <2>5, <3>4, <5>1 DEF Claims
        <5> QED BY <3>1, <3>2, <3>4, <4>3, <4>4, <4>6, <5>1, <5>2
      <4> QED BY <2>1, <4>5, <4>6
    <3> QED BY <3>3, <3>4
  <2> QED BY <1>2, <2>4, <2>5
<1>3. CASE test \notin {"receive-via-stream", "receive-via-stream-once"}
  <2>1. ~Claims(s) /\ ~Claims(s)'
    BY <1>1, <1>3 DEF Claims
  <2>2. st.op \notin {"claim", "claim-fails"}
    BY <1>3, CallPlaces
  <2> QED BY <2>1, <2>2
<1> QED BY <1>2, <1>3

\* The end of a stage does not change who has claimed.
LEMMA ClaimsStage ==
  ASSUME GuestAssumption, PosInv, NEW g \in Guests, \A t \in Threads : Finished(g, t), test' = test, verdict' = verdict,
         K(g) # StageCount, pos' = [pos EXCEPT ![g] = [stage |-> @.stage + 1, ix |-> <<1, 1>>, bad |-> FALSE]],
         NEW s \in Sides
  PROVE  Claims(s)' <=> Claims(s)
<1>1. CASE test \in {"receive-via-stream", "receive-via-stream-once"}
  <2>1. g = B /\ B \in Guests /\ StageCount = 6 /\ ClosesAt = 6
    BY <1>1 DEF Guests, TwoPeer, B, StageCount, ClosesAt
  <2>2. /\ K(B)' = K(B) + 1 /\ I(B)' = 1 /\ J(B)' = 1 /\ K(B) \in 1..6
        /\ I(B) = Size(B, K(B), 1) + 1 /\ J(B) = Size(B, K(B), 2) + 1
    BY <2>1, StageMoved DEF PosInv, K
  <2>3. CASE test = "receive-via-stream"
    <3>1. K(B) = 5 => I(B) = Count + 2
      BY <1>1, <2>1, <2>2, <2>3, Values DEF Size, InprocSize, FifthSize, TwoPeer
    <3>2. (Claims(s) <=> s = "answerer" /\ ((K(B) = 5 /\ I(B) > 1) \/ K(B) = 6))
      BY <2>3 DEF Claims
    <3>3. (Claims(s)' <=> s = "answerer" /\ ((K(B)' = 5 /\ I(B)' > 1) \/ K(B)' = 6))
      BY <2>3 DEF Claims
    <3> QED BY <2>1, <2>2, <3>1, <3>2, <3>3, Values
  <2>4. CASE test = "receive-via-stream-once"
    <3>1. K(B) = 4 => J(B) = 2
      BY <1>1, <2>1, <2>2, <2>4 DEF Size, InprocSize, FourthSize, TwoPeer
    <3>2. (Claims(s) <=> s = "answerer" /\ ((K(B) = 4 /\ J(B) > 1) \/ K(B) > 4))
      BY <2>4 DEF Claims
    <3>3. (Claims(s)' <=> s = "answerer" /\ ((K(B)' = 4 /\ J(B)' > 1) \/ K(B)' > 4))
      BY <2>4 DEF Claims
    <3> QED BY <2>2, <3>1, <3>2, <3>3
  <2> QED BY <1>1, <2>3, <2>4
<1>2. CASE test \notin {"receive-via-stream", "receive-via-stream-once"}
  BY <1>2 DEF Claims
<1> QED BY <1>1, <1>2

-----------------------------------------------------------------------------
(* What moves with the places *)

Moves(g) ==
  /\ \A t \in Threads : Finished(g, t)
  /\ test' = test /\ verdict' = verdict /\ K(g) # StageCount
  /\ pos' = [pos EXCEPT ![g] = [stage |-> @.stage + 1, ix |-> <<1, 1>>, bad |-> FALSE]]

\* What may be closed stays so as a thread goes on, and a close call is the only one
\* after which a guest counts as closing.
LEMMA EndedGo ==
  ASSUME GuestAssumption, PosInv, NEW g, NEW t, AtCall(g, t), Goes(g, t), NEW st, st = Current(g, t),
         chan["answerer"].over => chan'["answerer"].over
  PROVE  /\ Ended => Ended'
         /\ st.op = "close" => Ended'
         /\ test \in TwoPeer => \A h \in Sides : K(h)' = 4 /\ I(h)' > 1 =>
              \/ K(h) = 4 /\ I(h) > 1
              \/ h = g /\ st.op = "close" /\ st.at = g
<1>1. test' = test
  BY DEF Goes
<1>2. CASE test \in TwoPeer
  <2>1. AsPeer(g, t, st) /\ t \in {1, 2}
    BY <1>2, AtPlace DEF AsBoth
  <2>2. Guests = Sides /\ g \in Sides
    BY <1>2 DEF AtCall, Guests
  <2>3. /\ \A h \in Sides : K(h)' = K(h) /\ I(h)' >= I(h) /\ I(h) \in Nat /\ I(h)' \in Nat
        /\ \A h \in Sides : h # g => I(h)' = I(h)
        /\ t = 1 => I(g)' = I(g) + 1
        /\ t = 2 => I(g)' = I(g)
    <3>1. \A h \in Sides : K(h)' = K(h) /\ I(h) \in Nat /\ (h # g => I(h)' = I(h))
      BY <2>2, GoesFacts DEF AtCall, PosInv, K, I, Threads
    <3>2. /\ t = 1 => I(g)' = I(g) + 1
          /\ t = 2 => I(g)' = I(g)
      BY <2>2, GoesFacts DEF AtCall, I, Threads
    <3> QED BY <2>1, <2>2, <3>1, <3>2
  <2>4. K(g) = 4 => st.op = "close" /\ I(g) = 1 /\ t = 1 /\ st.at = g
    BY <1>2, CallPlaces, ConnectPlaces
  <2>5. st.op = "close" => K(g) = 4
    <3>1. st.op = "close" =>
              \/ test \in TwoPeer /\ K(g) = 4
              \/ test = "timed-out"
              \/ test \in {"error-closed", "post-close-send"}
              \/ test \in Connected
      BY CallPlaces
    <3> QED BY <1>2, <3>1 DEF TwoPeer, Connected, InProcess
  <2>6. (Ended <=> \E h \in Sides : K(h) = 4 /\ I(h) > 1) /\ (Ended' <=> \E h \in Sides : K(h)' = 4 /\ I(h)' > 1)
    BY <1>1, <1>2 DEF Ended, TwoPeer
  <2>7. st.op = "close" => K(g)' = 4 /\ I(g)' > 1
    BY <2>2, <2>3, <2>4, <2>5
  <2> QED BY <2>2, <2>3, <2>4, <2>6, <2>7
<1>3. CASE test \notin TwoPeer
  <2>1. AsBoth(g, t, st) /\ t \in {1, 2}
    BY <1>3, AtPlace DEF AsPeer
  <2>2. g = B /\ B \in Guests
    BY <2>1 DEF AtCall, AsBoth
  <2>3. K(B)' = K(B) /\ I(B) \in Nat /\ I(B)' \in Nat /\ I(B)' >= I(B) /\ (t = 1 => I(B)' = I(B) + 1)
    <3>1. K(B)' = K(B) /\ I(B) \in Nat
      BY <2>2, GoesFacts DEF AtCall, PosInv, K, I, Threads
    <3>2. (t = 1 => I(B)' = I(B) + 1) /\ (t = 2 => I(B)' = I(B))
      BY <2>2, GoesFacts DEF AtCall, I, Threads
    <3> QED BY <2>1, <3>1, <3>2
  <2>4. Ended => Ended'
    <3>1. test \in InProcess /\ test \notin TwoPeer
      BY <2>1 DEF AsBoth
    <3>2. CASE test = "overflow"
      BY <1>1, <2>3, <3>1, <3>2 DEF Ended
    <3>3. CASE test \in {"error-closed", "post-close-send"}
      <4>1. (Ended <=> K(B) = 4 /\ I(B) > 1) /\ (Ended' <=> K(B)' = 4 /\ I(B)' > 1)
        BY <1>1, <3>1, <3>3 DEF Ended
      <4> QED BY <2>3, <4>1
    <3>4. CASE test = "timed-out"
      <4>1. (Ended <=> I(B) > 2) /\ (Ended' <=> I(B)' > 2)
        BY <1>1, <3>1, <3>4 DEF Ended
      <4> QED BY <2>3, <4>1
    <3>5. CASE test \in {"round-trip", "send-via-stream", "receive-via-stream", "receive-via-stream-once", "invalid-sdp"}
      BY <1>1, <2>3, <3>1, <3>5 DEF Ended
    <3> QED BY <3>1, <3>2, <3>3, <3>4, <3>5 DEF InProcess
  <2>5. st.op = "close" => Ended'
    <3>1. st.op = "close" =>
              \/ test = "timed-out" /\ I(B) = 3
              \/ test \in {"error-closed", "post-close-send"} /\ K(B) = 4 /\ t = 1
              \/ test \in Connected /\ K(B) = ClosesAt /\ K(B) > 4
      BY <1>3, CallPlaces
    <3>2. CASE test = "timed-out"
      <4>1. Ended' <=> I(B)' > 2
        BY <1>1, <1>3, <3>2 DEF Ended
      <4>2. st.op = "close" => t = 1 /\ I(B) = 3
        BY <2>2, <3>2, CallPlaces, <3>1 DEF Connected
      <4> QED BY <2>3, <4>1, <4>2
    <3>3. CASE test \in {"error-closed", "post-close-send"}
      <4>1. st.op = "close" => K(B) = 4 /\ t = 1
        BY <3>1, <3>3 DEF ClosesAt
      <4>2. I(B) >= 1
        BY <2>2 DEF PosInv, I, Threads
      <4>3. Ended' <=> K(B)' = 4 /\ I(B)' > 1
        BY <1>1, <1>3, <3>3 DEF Ended
      <4> QED BY <2>3, <4>1, <4>2, <4>3
    <3>4. CASE test \in Connected \ {"error-closed", "post-close-send"}
      <4>1. st.op = "close" => K(B) = ClosesAt
        BY <3>1, <3>4 DEF Connected
      <4>2. test \in {"round-trip", "overflow", "send-via-stream", "receive-via-stream", "receive-via-stream-once"}
        BY <3>4 DEF Connected, InProcess
      <4> QED BY <1>1, <2>3, <4>1, <4>2 DEF Ended, TwoPeer, ClosesAt
    <3>5. CASE test = "invalid-sdp"
      BY <3>1, <3>5 DEF Connected
    <3> QED BY <2>1, <3>2, <3>3, <3>4, <3>5 DEF AsBoth, Connected
  <2> QED BY <1>3, <2>4, <2>5
<1> QED BY <1>2, <1>3

\* What may be closed stays so at the end of a stage.
LEMMA EndedStage ==
  ASSUME GuestAssumption, PosInv, NEW g \in Guests, Moves(g),
         chan["answerer"].over => chan'["answerer"].over
  PROVE  /\ Ended => Ended'
         /\ test \in TwoPeer => \A h \in Sides : K(h)' = 4 /\ I(h)' > 1 => K(h) = 4 /\ I(h) > 1
<1>1. test' = test /\ K(g) # StageCount
  BY DEF Moves
<1>2. /\ K(g)' = K(g) + 1 /\ I(g)' = 1
      /\ \A h \in Guests : h # g => K(h)' = K(h) /\ I(h)' = I(h)
      /\ K(g) \in 1..StageCount
  BY StageMoved DEF K, I, Moves, PosInv
<1>3. CASE test \in TwoPeer
  <2>1. Guests = Sides /\ StageCount = 4
    BY <1>3 DEF Guests, StageCount, TwoPeer
  <2>2. (Ended <=> \E h \in Sides : K(h) = 4 /\ I(h) > 1) /\ (Ended' <=> \E h \in Sides : K(h)' = 4 /\ I(h)' > 1)
    BY <1>1, <1>3 DEF Ended, TwoPeer
  <2> QED BY <1>1, <1>2, <2>1, <2>2
<1>4. CASE test \notin TwoPeer
  <2>1. g = B /\ test \in InProcess
    BY <1>4 DEF Guests, B, GuestAssumption, PosInv
  <2>2. CASE test = "overflow"
    <3>1. StageCount = 5
      BY <2>2 DEF StageCount, TwoPeer, ClosesAt
    <3> QED BY <1>1, <1>2, <1>4, <2>1, <2>2, <3>1 DEF Ended
  <2>3. CASE test # "overflow"
    <3>1. CASE test \in {"error-closed", "post-close-send"}
      <4>1. StageCount = 4
        BY <3>1 DEF StageCount
      <4>2. Ended <=> K(B) = 4 /\ I(B) > 1
        BY <1>4, <3>1 DEF Ended
      <4>3. K(B) # 4
        BY <1>1, <2>1, <4>1
      <4> QED BY <1>4, <4>2, <4>3
    <3>2. CASE test = "round-trip"
      <4>1. StageCount = 5
        BY <3>2 DEF StageCount, ClosesAt, TwoPeer
      <4>2. Ended <=> K(B) = 5
        BY <1>4, <3>2 DEF Ended
      <4> QED BY <1>1, <1>4, <2>1, <4>1, <4>2
    <3>3. CASE test \in {"send-via-stream", "receive-via-stream", "receive-via-stream-once"}
      <4>1. StageCount = 6
        BY <3>3 DEF StageCount, ClosesAt, TwoPeer
      <4>2. Ended <=> K(B) = 6
        BY <1>4, <3>3 DEF Ended
      <4> QED BY <1>1, <1>4, <2>1, <4>1, <4>2
    <3>4. CASE test \in {"timed-out", "invalid-sdp"}
      <4>1. StageCount = 1
        BY <3>4 DEF StageCount, TwoPeer
      <4>2. K(B) = 1
        BY <1>2, <2>1, <4>1
      <4> QED BY <1>1, <2>1, <4>1, <4>2
    <3> QED BY <2>1, <2>3, <3>1, <3>2, <3>3, <3>4 DEF InProcess
  <2> QED BY <2>2, <2>3
<1> QED BY <1>3, <1>4

\* How far publishing has come, as the places move.
LEMMA PubFacts ==
  ASSUME GuestAssumption, PosInv, test \in TwoPeer, NEW s \in Sides
  PROVE  /\ Pub(s) \in 0..3 /\ K(s) \in 1..4 /\ I(s) \in Nat /\ I(s) >= 1
         /\ K(s) > 1 => Pub(s) = 3
         /\ K(s) = 1 => Pub(s) = IF I(s) < Offset(s) THEN 0 ELSE IF I(s) > Offset(s) + 3 THEN 3 ELSE I(s) - Offset(s)
<1>1. K(s) \in 1..4 /\ I(s) \in Nat /\ I(s) >= 1
  <2>1. Guests = Sides /\ StageCount = 4
    BY DEF Guests, StageCount, TwoPeer
  <2>2. pos[s].stage \in 1..4 /\ pos[s].ix[1] \in Nat
    BY <2>1 DEF PosInv, Threads
  <2>3. pos[s].ix[1] \in 1..(Size(s, pos[s].stage, 1) + 1)
    BY <2>1 DEF PosInv, Threads
  <2> QED BY <2>2, <2>3 DEF K, I
<1>2. Offset(s) \in {2, 3}
  BY DEF Offset
<1> QED BY <1>1, <1>2 DEF Pub, Larger, Smaller

\* Only the publish call moves the count of blobs, and it publishes the next one.
LEMMA PubGo ==
  ASSUME GuestAssumption, PosInv, test \in TwoPeer, NEW g, NEW t, AtCall(g, t), Goes(g, t), NEW st, st = Current(g, t), NEW s \in Sides
  PROVE  /\ Pub(s)' = IF st.op = "publish" /\ g = s THEN Pub(s) + 1 ELSE Pub(s)
         /\ st.op = "publish" => st.blob = Pub(g) + 1 /\ K(g) = 1 /\ I(g) <= Offset(g) + 2
         /\ st.op = "done" => Pub(g) = 3
         /\ (K(s) = 1 /\ I(s) <= Offset(s) + 2)' => K(s) = 1 /\ I(s) <= Offset(s) + 2
<1>1. test' = test /\ Guests = Sides /\ g \in Sides
  BY DEF Goes, AtCall, Guests
<1>2. AsPeer(g, t, st) /\ t \in {1, 2}
  BY AtPlace DEF AsBoth
<1>3. PosInv'
  BY Moved DEF AtCall
<1>4. /\ K(s)' = K(s) /\ (s # g => I(s)' = I(s))
      /\ s = g /\ t = 1 => I(s)' = I(s) + 1
      /\ s = g /\ t = 2 => I(s)' = I(s)
  BY <1>1, GoesFacts DEF AtCall, K, I, Threads
<1>5. /\ Pub(s)' \in 0..3
      /\ K(s)' > 1 => Pub(s)' = 3
      /\ K(s)' = 1 => Pub(s)' = IF I(s)' < Offset(s) THEN 0 ELSE IF I(s)' > Offset(s) + 3 THEN 3 ELSE I(s)' - Offset(s)
  <2>1. K(s)' \in 1..4 /\ I(s)' \in Nat /\ I(s)' >= 1
    BY <1>1, <1>2, <1>4, PubFacts
  <2>2. Offset(s) \in {2, 3}
    BY DEF Offset
  <2> QED BY <2>1, <2>2 DEF Pub, Larger, Smaller
<1>6. Offset(g) \in {2, 3} /\ Offset(s) \in {2, 3}
  BY DEF Offset
<1>7. /\ st.op = "publish" => K(g) = 1 /\ t = 1 /\ I(g) \in Offset(g)..(Offset(g) + 2) /\ st.blob = I(g) + 1 - Offset(g)
      /\ st.op = "done" => I(g) = Offset(g) + 3 /\ K(g) = 1
  BY ConnectPlaces
<1>8. K(g) = 1 /\ st.op # "publish" => t = 1 /\ I(g) \notin Offset(g)..(Offset(g) + 2)
  <2>1. ASSUME K(g) = 1, st.op # "publish" PROVE t = 1 /\ HandshakeCall(g, I(g), st)
    <3>1. t = 1 /\ HandshakeCall(g, pos[g].ix[t], st)
      BY <1>2, <2>1 DEF AsPeer, PeerCall
    <3> QED BY <3>1 DEF I
  <2>2. I(g) \in Nat
    BY <1>1, PubFacts
  <2>3. Offset("offerer") = 2 /\ Offset("answerer") = 3
    BY DEF Offset
  <2>4. ASSUME K(g) = 1, st.op # "publish" PROVE I(g) \notin Offset(g)..(Offset(g) + 2)
    <3>1. HandshakeCall(g, I(g), st)
      BY <2>1, <2>4
    <3>2. CASE g = "offerer"
      BY <2>2, <2>3, <2>4, <3>1, <3>2 DEF HandshakeCall, Is
    <3>3. CASE g = "answerer"
      BY <2>2, <2>3, <2>4, <3>1, <3>3 DEF HandshakeCall, Is
    <3> QED BY <1>1, <3>2, <3>3 DEF Sides
  <2> QED BY <2>1, <2>4
<1>9. /\ Pub(g) \in 0..3 /\ K(g) \in 1..4 /\ I(g) \in Nat /\ I(g) >= 1
      /\ K(g) > 1 => Pub(g) = 3
      /\ K(g) = 1 => Pub(g) = IF I(g) < Offset(g) THEN 0 ELSE IF I(g) > Offset(g) + 3 THEN 3 ELSE I(g) - Offset(g)
  BY <1>1, PubFacts
<1>10. /\ st.op = "publish" => st.blob = Pub(g) + 1 /\ K(g) = 1 /\ I(g) <= Offset(g) + 2
       /\ st.op = "done" => Pub(g) = 3
  BY <1>6, <1>7, <1>9
<1>11. CASE s = g
  <2>1. CASE K(g) = 1
    BY <1>2, <1>4, <1>5, <1>6, <1>7, <1>8, <1>9, <1>10, <1>11, <2>1
  <2>2. CASE K(g) # 1
    BY <1>2, <1>4, <1>5, <1>6, <1>7, <1>9, <1>10, <1>11, <2>2
  <2> QED BY <2>1, <2>2
<1>12. CASE s # g
  <2>1. Pub(s)' = Pub(s)
    BY <1>1, <1>4, <1>12 DEF Pub
  <2>2. (K(s) = 1 /\ I(s) <= Offset(s) + 2)' => K(s) = 1 /\ I(s) <= Offset(s) + 2
    BY <1>4, <1>12
  <2> QED BY <1>10, <1>12, <2>1, <2>2
<1> QED BY <1>11, <1>12

\* A guest that stops while it publishes is not at a publishing place any more.
LEMMA PubStop ==
  ASSUME GuestAssumption, PosInv, test \in TwoPeer, NEW g, NEW t, AtCall(g, t), Stops(g, t), NEW s \in Sides
  PROVE  /\ Pub(s)' \in 0..3 /\ Pub(s)' >= Pub(s)
         /\ (K(s) = 1 /\ I(s) <= Offset(s) + 2)' => K(s) = 1 /\ I(s) <= Offset(s) + 2 /\ Pub(s)' = Pub(s)
<1>1. Guests = Sides /\ g \in Sides
  BY DEF AtCall, Guests
<1>2. AsPeer(g, t, Current(g, t)) /\ t \in {1, 2}
  BY AtPlace DEF AsBoth
<1>3. /\ K(s)' = K(s) /\ (s # g => I(s)' = I(s))
      /\ s = g /\ t = 1 => I(s)' = Size(s, K(s), 1) + 1
      /\ s = g /\ t = 2 => I(s)' = I(s)
  BY <1>1, StopsFacts DEF AtCall, K, I, Threads
<1>4. /\ Pub(s) \in 0..3 /\ K(s) \in 1..4 /\ I(s) \in Nat /\ I(s) >= 1
      /\ K(s) > 1 => Pub(s) = 3
  BY PubFacts
<1>5. CASE s # g \/ t = 2
  <2>1. Pub(s)' = Pub(s) /\ I(s)' = I(s)
    BY <1>2, <1>3, <1>5 DEF Pub
  <2> QED BY <1>3, <1>4, <2>1
<1>6. CASE s = g /\ t = 1
  <2>1. CASE K(s) = 1
    <3>1. I(s)' = Offset(s) + IF s = "offerer" THEN 6 ELSE 7
      BY <1>3, <1>6, <2>1 DEF Size, PeerSize, HandshakeSize, Offset, Sides
    <3>2. Offset(s) \in {2, 3}
      BY DEF Offset
    <3>3. Pub(s)' = 3
      BY <1>3, <2>1, <3>1, <3>2 DEF Pub, Smaller, Larger
    <3> QED BY <1>4, <3>1, <3>2, <3>3
  <2>2. CASE K(s) # 1
    <3>1. Pub(s)' = 3 /\ Pub(s) = 3 /\ K(s)' # 1
      BY <1>3, <1>4, <2>2 DEF Pub
    <3> QED BY <3>1
  <2> QED BY <2>1, <2>2
<1> QED BY <1>2, <1>5, <1>6

\* The handshake ends with every blob published.
LEMMA PubStage ==
  ASSUME GuestAssumption, PosInv, test \in TwoPeer, NEW g \in Guests, Moves(g), NEW s \in Sides
  PROVE  /\ Pub(s)' = Pub(s)
         /\ (K(s) = 1)' => K(s) = 1 /\ I(s)' = I(s)
<1>1. /\ K(g)' = K(g) + 1 /\ I(g)' = 1 /\ Guests = Sides
      /\ I(g) = Size(g, K(g), 1) + 1
      /\ \A h \in Guests : h # g => K(h)' = K(h) /\ I(h)' = I(h)
  BY StageMoved DEF K, I, Moves, Guests
<1>2. Pub(s) \in 0..3 /\ K(s) \in 1..4 /\ I(s) \in Nat
  BY PubFacts
<1>3. CASE s = g
  <2>1. Pub(s)' = 3 /\ K(s)' # 1
    BY <1>1, <1>2, <1>3 DEF Pub
  <2>2. CASE K(s) = 1
    <3>1. I(s) = Offset(s) + IF s = "offerer" THEN 6 ELSE 7
      BY <1>1, <1>3, <2>2 DEF Size, PeerSize, HandshakeSize, Offset, Sides
    <3>2. Offset(s) \in {2, 3}
      BY DEF Offset
    <3> QED BY <2>1, <2>2, <3>1, <3>2 DEF Pub, Smaller, Larger
  <2>3. CASE K(s) # 1
    BY <1>2, <2>1, <2>3, PubFacts
  <2> QED BY <2>2, <2>3
<1>4. CASE s # g
  BY <1>1, <1>4 DEF Pub
<1> QED BY <1>3, <1>4

-----------------------------------------------------------------------------
(* What holds in any state *)

\* The eleven kinds of call, and the steps of the environment.
ACall(g, t, st) ==
  \/ Describe(g, t, st) \/ PublishOrDone(g, t, st) \/ RecvOffer(g, t, st) \/ ConsumeSignaling(g, t, st)
  \/ WaitConnected(g, t, st) \/ FirstIncoming(g, t, st) \/ SendCall(g, t, st) \/ SendLoop(g, t, st)
  \/ ReceiveCall(g, t, st) \/ StreamCall(g, t, st) \/ Close(g, t, st)
Env == \E s \in Sides : Connect(s) \/ Open(s) \/ Deliver(s) \/ CloseArrives(s) \/ LagPasses(s)
Faults == (\E g \in Guests, t \in Threads : CallFails(g, t)) \/ ConnectionBreaks \/ \E s \in Sides : MessageLost(s)

\* The steps of the system: the end of a stage, a call, the connection, a fault.
LEMMA StepCases ==
  ASSUME Next
  PROVE  \/ \E g \in Guests : NextStage(g)
         \/ \E g \in Guests, t \in Threads : AtCall(g, t) /\ ACall(g, t, Current(g, t))
         \/ Env \/ Faults
BY DEF Next, Progress, Call, AtCall, ACall, Env, Faults

\* A guest at a call moves forward or stays.
LEMMA CallMoves ==
  ASSUME NEW g, NEW t, NEW st, ACall(g, t, st)
  PROVE  (Goes(g, t) \/ Stops(g, t) \/ Stays) /\ fault' = fault
<1>1. CASE Describe(g, t, st)
  BY <1>1 DEF Describe
<1>2. CASE PublishOrDone(g, t, st)
  BY <1>2 DEF PublishOrDone
<1>3. CASE RecvOffer(g, t, st)
  BY <1>3 DEF RecvOffer
<1>4. CASE ConsumeSignaling(g, t, st)
  BY <1>4 DEF ConsumeSignaling
<1>5. CASE WaitConnected(g, t, st)
  BY <1>5 DEF WaitConnected, Answers
<1>6. CASE FirstIncoming(g, t, st)
  BY <1>6 DEF FirstIncoming, Answers
<1>7. CASE SendCall(g, t, st)
  BY <1>7 DEF SendCall, Answers
<1>8. CASE SendLoop(g, t, st)
  BY <1>8 DEF SendLoop
<1>9. CASE ReceiveCall(g, t, st)
  BY <1>9 DEF ReceiveCall, Answers
<1>10. CASE StreamCall(g, t, st)
  BY <1>10 DEF StreamCall, Answers
<1>11. CASE Close(g, t, st)
  BY <1>11 DEF Close
<1> QED BY <1>1, <1>2, <1>3, <1>4, <1>5, <1>6, <1>7, <1>8, <1>9, <1>10, <1>11 DEF ACall

\* A call does not change the stages, and no guest goes back.
LEMMA Forward ==
  ASSUME GuestAssumption, PosInv, NEW g, NEW t, AtCall(g, t), Goes(g, t) \/ Stops(g, t) \/ Stays
  PROVE  /\ test' = test /\ verdict' = verdict /\ Guests' = Guests /\ PosInv'
         /\ \A h \in Guests : K(h)' = K(h) /\ K(h) \in Nat /\ I(h) \in Nat /\ I(h)' \in Nat /\ I(h)' >= I(h)
<1>1. PosInv' /\ test' = test /\ verdict' = verdict /\ Guests' = Guests
  BY Moved, TestKept DEF AtCall, Goes, Stops, Stays
<1>2. /\ \A h \in Guests : K(h) \in Nat /\ I(h) \in Nat /\ I(h)' \in Nat
      /\ t = 1 => I(g) \in 1..(Size(g, K(g), 1) + 1) /\ Size(g, K(g), 1) \in Nat
  <2>1. \A h \in Guests : K(h) \in Nat /\ I(h) \in Nat
    BY DEF PosInv, K, I, Threads
  <2>2. \A h \in Guests : I(h)' \in Nat
    BY <1>1 DEF PosInv, I, Threads
  <2>3. t = 1 => I(g) \in 1..(Size(g, K(g), 1) + 1) /\ Size(g, K(g), 1) \in Nat
    BY Placed DEF AtCall, I
  <2> QED BY <2>1, <2>2, <2>3
<1>3. CASE Goes(g, t)
  <2>1. \A h \in Guests : K(h)' = K(h) /\ (h # g => I(h)' = I(h))
    BY <1>3, GoesFacts DEF AtCall, K, I
  <2>2. I(g)' = I(g) + 1 \/ I(g)' = I(g)
    BY <1>3, GoesFacts DEF AtCall, I, Threads
  <2> QED BY <1>1, <1>2, <2>1, <2>2 DEF AtCall
<1>4. CASE Stops(g, t)
  <2>1. \A h \in Guests : K(h)' = K(h) /\ (h # g => I(h)' = I(h))
    BY <1>4, StopsFacts DEF AtCall, K, I
  <2>2. (t = 1 /\ I(g)' = Size(g, K(g), 1) + 1) \/ I(g)' = I(g)
    BY <1>4, StopsFacts DEF AtCall, I, Threads
  <2> QED BY <1>1, <1>2, <2>1, <2>2 DEF AtCall
<1>5. CASE Stays
  BY <1>1, <1>2, <1>5 DEF Stays, K, I
<1> QED BY <1>3, <1>4, <1>5

\* Every step keeps the guests at places of their programs.
LEMMA PosNext ==
  ASSUME GuestAssumption, PosInv, Next
  PROVE  PosInv'
<1>1. ASSUME NEW g \in Guests, NextStage(g)
      PROVE  PosInv'
  <2>1. test' = test /\ Guests' = Guests /\ StageCount' = StageCount /\ (\A h, k, t : Size(h, k, t)' = Size(h, k, t))
    BY <1>1, TestKept DEF NextStage
  <2>2. CASE pos' = pos /\ verdict' \in [Guests -> {"run", "pass", "fail"}]
    BY <2>1, <2>2 DEF PosInv
  <2>3. Len(Run(g)) = StageCount
    BY StageTable DEF PosInv
  <2>4. CASE ~pos[g].bad /\ pos[g].stage # Len(Run(g))
    <3>1. \A t \in Threads : Finished(g, t)
      BY <1>1 DEF NextStage
    <3>2. pos' = [pos EXCEPT ![g] = [stage |-> @.stage + 1, ix |-> <<1, 1>>, bad |-> FALSE]] /\ verdict' = verdict
      BY <1>1, <2>4 DEF NextStage
    <3> QED BY <2>1, <2>3, <2>4, <3>1, <3>2, StageMoved DEF K
  <2>5. CASE pos[g].bad \/ pos[g].stage = Len(Run(g))
    <3>1. pos' = pos /\ (verdict' = [verdict EXCEPT ![g] = "fail"] \/ verdict' = [verdict EXCEPT ![g] = "pass"])
      BY <1>1, <2>5 DEF NextStage
    <3> QED BY <2>2, <3>1 DEF PosInv
  <2> QED BY <2>4, <2>5
<1>2. ASSUME NEW g \in Guests, NEW t \in Threads, AtCall(g, t), ACall(g, t, Current(g, t))
      PROVE  PosInv'
  BY <1>2, CallMoves, Forward
<1>3. ASSUME NEW g \in Guests, NEW t \in Threads, CallFails(g, t)
      PROVE  PosInv'
  BY <1>3, Forward DEF CallFails, AtCall
<1>4. CASE UNCHANGED <<test, guestVars>>
  <2>1. test' = test /\ pos' = pos /\ verdict' = verdict
    BY <1>4 DEF guestVars
  <2> QED BY <2>1, TestKept DEF PosInv
<1>5. CASE Env \/ ConnectionBreaks \/ \E s \in Sides : MessageLost(s)
  BY <1>4, <1>5 DEF Env, Connect, Open, Deliver, CloseArrives, LagPasses, ConnectionBreaks, MessageLost
<1> QED BY <1>1, <1>2, <1>3, <1>5, StepCases DEF Faults

\* Every call keeps the types of the peers, channels and messages, and the limit of the buffers.
LEMMA HostCall ==
  ASSUME GuestAssumption, PosInv, HostInv, NEW g, NEW t, AtCall(g, t), NEW st, st = Current(g, t), ACall(g, t, st)
  PROVE  HostInv'
<1>1. st.at \in Sides
  BY ConnectPlaces
<1>2. Limit \in Nat /\ Lag \in Nat /\ Filler \in Nat
  BY Values
<1> DEFINE s == st.at
           o == Other(st.at)
<1>3. s \in Sides /\ o \in Sides /\ o # s
  BY <1>1 DEF Other, Sides
<1>4. fault' = fault
  BY CallMoves
<1>t. /\ fault \in BOOLEAN /\ loops \in Nat
      /\ peer \in [Sides -> Peers] /\ chan \in [Sides -> Chans] /\ wire \in [Sides -> Seq(Nat)]
      /\ \A r \in Sides : Len(chan[r].inbox) <= Limit
  BY DEF HostInv
<1> HIDE DEF s, o
<1>5. ASSUME hostVars' = hostVars, loops' = loops
      PROVE  HostInv'
  <2>1. peer' = peer /\ chan' = chan /\ wire' = wire
    BY <1>5 DEF hostVars
  <2> QED BY <1>4, <1>5, <2>1 DEF HostInv
<1>6. ASSUME chan' = chan, wire' = wire, loops' = loops, peer' \in [Sides -> Peers]
      PROVE  HostInv'
  BY <1>4, <1>6 DEF HostInv
<1>7. /\ [peer EXCEPT ![s].local = TRUE] \in [Sides -> Peers]
      /\ [peer EXCEPT ![s].remote = TRUE] \in [Sides -> Peers]
      /\ [peer EXCEPT ![s].cands = @ + 1] \in [Sides -> Peers]
      /\ [peer EXCEPT ![s] = Closed(@)] \in [Sides -> Peers]
  <2>1. peer[s] \in Peers
    BY <1>3, <1>t
  <2> DEFINE p == peer[s]
  <2> HIDE DEF p
  <2>2. /\ [p EXCEPT !.local = TRUE] \in Peers /\ [p EXCEPT !.remote = TRUE] \in Peers
        /\ Closed(p) \in Peers
    BY <2>1 DEF Peers, Conns, Closed, p
  <2>3. p.cands \in Nat /\ p.cands + 1 \in Nat
    BY <2>1 DEF Peers, p
  <2>4. [p EXCEPT !.cands = @ + 1] \in Peers
    BY <2>1, <2>3 DEF Peers, p
  <2> QED BY <1>3, <1>t, <2>2, <2>4 DEF p
<1>8. CASE Describe(g, t, st)
  BY <1>6, <1>7, <1>8, <1>t DEF Describe, s
<1>9. CASE PublishOrDone(g, t, st)
  BY <1>5, <1>9 DEF PublishOrDone
<1>10. CASE RecvOffer(g, t, st)
  BY <1>6, <1>7, <1>10, <1>t DEF RecvOffer, s
<1>11. CASE ConsumeSignaling(g, t, st)
  BY <1>6, <1>7, <1>11, <1>t DEF ConsumeSignaling, s
<1>12. CASE WaitConnected(g, t, st)
  BY <1>5, <1>12 DEF WaitConnected
<1>13. CASE FirstIncoming(g, t, st)
  BY <1>5, <1>13 DEF FirstIncoming
<1>14. ASSUME NEW m \in Nat, Accepted(s, m), ~Dead(s)
       PROVE  /\ chan' \in [Sides -> Chans] /\ wire' \in [Sides -> Seq(Nat)]
              /\ \A r \in Sides : Len(chan'[r].inbox) <= Limit
  <2>1. CASE chan[s].closed
    <3>1. chan[s].lag \in 1..Lag /\ chan[s].lag - 1 \in 0..Lag
      BY <1>2, <1>3, <1>14, <1>t, <2>1 DEF Dead, Chans
    <3>2. chan' = [chan EXCEPT ![s].lag = @ - 1] /\ wire' = wire
      BY <1>14, <2>1 DEF Accepted
    <3> QED BY <1>3, <1>t, <3>1, <3>2 DEF Chans
  <2>2. CASE ~chan[s].closed
    <3>1. chan' = chan /\ wire' = [wire EXCEPT ![o] = IF chan[o].closed THEN @ ELSE Append(@, m)]
      BY <1>14, <2>2 DEF Accepted, o, s
    <3> QED BY <1>3, <1>14, <1>t, <3>1
  <2> QED BY <2>1, <2>2
<1>15. CASE SendCall(g, t, st)
  <2>1. CASE UNCHANGED <<chan, wire>>
    BY <1>6, <1>15, <1>t, <2>1 DEF SendCall
  <2>2. CASE ~Dead(s) /\ Accepted(s, st.msg) /\ Goes(g, t)
    <3>1. st.msg \in Nat
      BY <1>15, <2>2, Counted, NumbersNat DEF SendCall
    <3>2. loops' = loops /\ peer' = peer
      BY <1>15 DEF SendCall
    <3> QED BY <1>4, <1>14, <1>t, <2>2, <3>1, <3>2 DEF HostInv
  <2> QED BY <1>15, <2>1, <2>2 DEF SendCall, s
<1>16. CASE SendLoop(g, t, st)
  <2>1. CASE UNCHANGED <<loops, chan, wire>>
    BY <1>6, <1>16, <1>t, <2>1 DEF SendLoop
  <2>2. CASE ~Dead(s) /\ Accepted(s, Filler) /\ loops' = loops + 1
    <3>1. peer' = peer
      BY <1>16 DEF SendLoop
    <3> QED BY <1>2, <1>4, <1>14, <1>t, <2>2, <3>1 DEF HostInv
  <2> QED BY <1>16, <2>1, <2>2 DEF SendLoop, s
<1>17. CASE \/ UNCHANGED <<loops, peer, wire, chan>>
            \/ UNCHANGED <<loops, peer, wire>> /\ chan[s].inbox # <<>> /\ chan' = [chan EXCEPT ![s].inbox = Tail(@)]
            \/ UNCHANGED <<loops, peer, wire>> /\ chan' = [chan EXCEPT ![s].claimed = TRUE]
  <2>1. CASE UNCHANGED <<loops, peer, wire, chan>>
    BY <1>6, <1>t, <2>1
  <2>2. CASE UNCHANGED <<loops, peer, wire>> /\ chan[s].inbox # <<>> /\ chan' = [chan EXCEPT ![s].inbox = Tail(@)]
    <3>1. chan[s].inbox \in Seq(Nat) /\ Tail(chan[s].inbox) \in Seq(Nat) /\ Len(Tail(chan[s].inbox)) <= Limit
      BY <1>2, <1>3, <1>t, <2>2 DEF Chans
    <3> QED BY <1>3, <1>4, <1>t, <2>2, <3>1 DEF Chans, HostInv
  <2>3. CASE UNCHANGED <<loops, peer, wire>> /\ chan' = [chan EXCEPT ![s].claimed = TRUE]
    BY <1>3, <1>4, <1>t, <2>3 DEF Chans, HostInv
  <2> QED BY <1>17, <2>1, <2>2, <2>3
<1>18. CASE ReceiveCall(g, t, st)
  BY <1>17, <1>18 DEF ReceiveCall, s
<1>19. CASE StreamCall(g, t, st)
  BY <1>17, <1>19 DEF StreamCall, s
<1>20. CASE Close(g, t, st)
  <2>1. PICK lag \in 0..Lag : chan' = [chan EXCEPT ![s].closed = TRUE, ![s].lag = lag]
    BY <1>20 DEF Close, s
  <2>2. peer' = [peer EXCEPT ![s] = Closed(@)] /\ loops' = loops /\ wire' = wire
    BY <1>20 DEF Close, s
  <2>3. chan' \in [Sides -> Chans] /\ \A r \in Sides : chan'[r].inbox = chan[r].inbox
    <3> DEFINE c == [chan[s] EXCEPT !.closed = TRUE, !.lag = lag]
    <3>1. chan[s] \in Chans
      BY <1>3, <1>t
    <3>2. c \in Chans /\ c.inbox = chan[s].inbox
      BY <3>1 DEF Chans
    <3>3. chan' = [chan EXCEPT ![s] = c]
      BY <2>1
    <3> HIDE DEF c
    <3> QED BY <1>3, <1>t, <3>2, <3>3
  <2> QED BY <1>4, <1>7, <1>t, <2>2, <2>3 DEF HostInv
<1> QED BY <1>8, <1>9, <1>10, <1>11, <1>12, <1>13, <1>15, <1>16, <1>18, <1>19, <1>20 DEF ACall

\* So does every step.
LEMMA HostNext ==
  ASSUME GuestAssumption, PosInv, HostInv, Next
  PROVE  HostInv'
<1>t. /\ fault \in BOOLEAN /\ loops \in Nat
      /\ peer \in [Sides -> Peers] /\ chan \in [Sides -> Chans] /\ wire \in [Sides -> Seq(Nat)]
      /\ \A r \in Sides : Len(chan[r].inbox) <= Limit
  BY DEF HostInv
<1>1. Limit \in Nat /\ Lag \in Nat /\ Sides = {"offerer", "answerer"}
  BY Values DEF Sides
<1>2. ASSUME NEW g \in Guests, NextStage(g)
      PROVE  HostInv'
  <2>1. UNCHANGED <<loops, wire, fault>>
    BY <1>2 DEF NextStage
  <2>2. CASE pos[g].bad
    <3>1. /\ peer' = [s \in Sides |-> IF s \in Owned(g) THEN Closed(peer[s]) ELSE peer[s]]
          /\ chan' = [s \in Sides |-> IF s \in Owned(g) THEN [chan[s] EXCEPT !.closed = TRUE] ELSE chan[s]]
      BY <1>2, <2>2 DEF NextStage
    <3>2. \A s \in Sides : Closed(peer[s]) \in Peers /\ [chan[s] EXCEPT !.closed = TRUE] \in Chans
                           /\ [chan[s] EXCEPT !.closed = TRUE].inbox = chan[s].inbox
      BY <1>t DEF Peers, Closed, Conns, Chans
    <3> QED BY <1>t, <2>1, <3>1, <3>2 DEF HostInv
  <2>3. CASE ~pos[g].bad
    <3>1. peer' = peer /\ chan' = chan
      BY <1>2, <2>3 DEF NextStage
    <3> QED BY <2>1, <3>1 DEF HostInv
  <2> QED BY <2>2, <2>3
<1>3. ASSUME NEW g \in Guests, NEW t \in Threads, AtCall(g, t), ACall(g, t, Current(g, t))
      PROVE  HostInv'
  BY <1>3, HostCall
<1>4. ASSUME NEW s \in Sides, Connect(s) \/ Open(s) \/ Deliver(s) \/ CloseArrives(s) \/ LagPasses(s)
      PROVE  HostInv'
  <2>1. UNCHANGED <<loops, fault>>
    BY <1>4 DEF Connect, Open, Deliver, CloseArrives, LagPasses, guestVars
  <2>2. CASE Connect(s)
    <3>1. peer' \in [Sides -> Peers] /\ chan' = chan /\ wire' = wire
      <4> DEFINE d == [peer[s] EXCEPT !.conn = "connected"]
      <4>1. peer[s] \in Peers
        BY <1>t
      <4>2. d \in Peers
        BY <4>1 DEF Peers, Conns
      <4>3. peer' = [peer EXCEPT ![s] = d] /\ chan' = chan /\ wire' = wire
        BY <2>2 DEF Connect
      <4> HIDE DEF d
      <4> QED BY <1>t, <4>2, <4>3
    <3> QED BY <1>t, <2>1, <3>1 DEF HostInv
  <2>3. CASE Open(s)
    <3>1. peer' = peer /\ chan' \in [Sides -> Chans] /\ wire' = wire /\ \A r \in Sides : chan'[r].inbox = chan[r].inbox
      BY <1>t, <2>3 DEF Open, Chans
    <3> QED BY <1>t, <2>1, <3>1 DEF HostInv
  <2>4. CASE Deliver(s)
    <3>1. wire[s] \in Seq(Nat) /\ wire[s] # <<>> /\ peer' = peer /\ chan[s].inbox \in Seq(Nat)
      BY <1>t, <2>4 DEF Deliver, Chans
    <3>2. Head(wire[s]) \in Nat /\ Tail(wire[s]) \in Seq(Nat)
      BY <3>1
    <3>3. CASE Len(chan[s].inbox) < Limit
      <4>1. chan' = [chan EXCEPT ![s].inbox = Append(@, Head(wire[s]))] /\ wire' = [wire EXCEPT ![s] = Tail(@)]
        BY <2>4, <3>3 DEF Deliver
      <4> DEFINE b == Append(chan[s].inbox, Head(wire[s]))
      <4>2. b \in Seq(Nat) /\ Len(b) <= Limit
        BY <1>1, <3>1, <3>2, <3>3
      <4>3. chan' = [chan EXCEPT ![s].inbox = b]
        BY <4>1
      <4> HIDE DEF b
      <4>4. chan' \in [Sides -> Chans] /\ \A r \in Sides : Len(chan'[r].inbox) <= Limit
        BY <1>t, <4>2, <4>3 DEF Chans
      <4>5. wire' \in [Sides -> Seq(Nat)]
        BY <1>t, <3>2, <4>1
      <4> QED BY <1>t, <2>1, <3>1, <4>4, <4>5 DEF HostInv
    <3>4. CASE ~(Len(chan[s].inbox) < Limit)
      <4>1. chan' = [chan EXCEPT ![s].over = TRUE, ![s].closed = TRUE] /\ wire' = [wire EXCEPT ![s] = <<>>]
        BY <2>4, <3>4 DEF Deliver
      <4>2. chan' \in [Sides -> Chans] /\ \A r \in Sides : chan'[r].inbox = chan[r].inbox
        BY <1>t, <4>1 DEF Chans
      <4>3. wire' \in [Sides -> Seq(Nat)]
        <5>1. <<>> \in Seq(Nat)
          OBVIOUS
        <5> QED BY <1>t, <4>1, <5>1
      <4> QED BY <1>t, <2>1, <3>1, <4>2, <4>3 DEF HostInv
    <3> QED BY <3>3, <3>4
  <2>5. CASE CloseArrives(s)
    <3>1. peer' = [peer EXCEPT ![s].conn = IF Lost(Other(s)) THEN "failed" ELSE @] /\ wire' = [wire EXCEPT ![s] = <<>>]
      BY <2>5 DEF CloseArrives
    <3>3. peer' \in [Sides -> Peers]
      <4>1. peer[s] \in Peers /\ [peer[s] EXCEPT !.conn = "failed"] \in Peers
        BY <1>t DEF Peers, Conns
      <4>2. peer' = [peer EXCEPT ![s].conn = "failed"] \/ peer' = peer
        BY <1>t, <3>1 DEF Peers
      <4> QED BY <1>t, <4>1, <4>2
    <3>4. wire' \in [Sides -> Seq(Nat)]
      <4>1. <<>> \in Seq(Nat)
        OBVIOUS
      <4> QED BY <1>t, <3>1, <4>1
    <3>2. chan' \in [Sides -> Chans] /\ \A r \in Sides : chan'[r].inbox = chan[r].inbox
      BY <1>t, <2>5 DEF CloseArrives, Chans
    <3> QED BY <1>t, <2>1, <3>2, <3>3, <3>4 DEF HostInv
  <2>6. CASE LagPasses(s)
    <3>1. chan[s].lag \in 0..Lag /\ chan[s].lag > 0 /\ chan' = [chan EXCEPT ![s].lag = @ - 1] /\ peer' = peer /\ wire' = wire
      BY <1>t, <2>6 DEF LagPasses, Chans
    <3>2. chan[s].lag - 1 \in 0..Lag
      BY <1>1, <3>1
    <3> QED BY <1>t, <2>1, <3>1, <3>2 DEF HostInv, Chans
  <2> QED BY <1>4, <2>2, <2>3, <2>4, <2>5, <2>6
<1>5. CASE Faults
  <2>1. loops' = loops /\ fault' = TRUE
    BY <1>5 DEF Faults, CallFails, ConnectionBreaks, MessageLost, guestVars
  <2>2. CASE UNCHANGED hostVars
    <3>1. peer' = peer /\ chan' = chan /\ wire' = wire
      BY <2>2 DEF hostVars
    <3> QED BY <2>1, <3>1 DEF HostInv
  <2>3. CASE ConnectionBreaks
    <3>1. peer' = [s \in Sides |-> [peer[s] EXCEPT !.conn = "failed"]]
          /\ chan' = [s \in Sides |-> [chan[s] EXCEPT !.closed = TRUE]] /\ wire' = [s \in Sides |-> <<>>]
      BY <2>3 DEF ConnectionBreaks
    <3>2. \A s \in Sides : [peer[s] EXCEPT !.conn = "failed"] \in Peers /\ [chan[s] EXCEPT !.closed = TRUE] \in Chans
                           /\ [chan[s] EXCEPT !.closed = TRUE].inbox = chan[s].inbox
      BY <1>t DEF Peers, Conns, Chans
    <3>3. chan' \in [Sides -> Chans] /\ \A r \in Sides : chan'[r].inbox = chan[r].inbox
      BY <3>1, <3>2
    <3>4. peer' \in [Sides -> Peers] /\ wire' \in [Sides -> Seq(Nat)]
      BY <3>1, <3>2
    <3> QED BY <1>t, <2>1, <3>3, <3>4 DEF HostInv
  <2>4. ASSUME NEW s \in Sides, MessageLost(s) PROVE HostInv'
    <3>1. wire' = [wire EXCEPT ![s] = Tail(@)] /\ wire[s] # <<>> /\ peer' = peer /\ chan' = chan
      BY <2>4 DEF MessageLost
    <3>2. Tail(wire[s]) \in Seq(Nat)
      BY <1>t, <3>1
    <3> QED BY <1>t, <2>1, <3>1, <3>2 DEF HostInv
  <2> QED BY <1>5, <2>2, <2>3, <2>4 DEF Faults, CallFails
<1> QED BY <1>2, <1>3, <1>4, <1>5, StepCases DEF Env

\* A guest is where it was or further on.
Onward(h) ==
  /\ K(h) \in Nat /\ K(h) >= 1 /\ K(h)' \in Nat /\ I(h) \in Nat /\ I(h)' \in Nat /\ I(h) >= 1 /\ I(h)' >= 1
  /\ (K(h)' = K(h) /\ I(h)' >= I(h)) \/ K(h)' = K(h) + 1

\* A call leaves each guest where it was or further on.
LEMMA CallOnward ==
  ASSUME GuestAssumption, PosInv, NEW g, NEW t, AtCall(g, t), Goes(g, t) \/ Stops(g, t) \/ Stays
  PROVE  test' = test /\ Guests' = Guests /\ \A h \in Guests : Onward(h)
<1>1. /\ test' = test /\ PosInv' /\ Guests' = Guests
      /\ \A h \in Guests : K(h)' = K(h) /\ K(h) \in Nat /\ I(h) \in Nat /\ I(h)' \in Nat /\ I(h)' >= I(h)
  BY Forward
<1>2. \A h \in Guests : I(h) >= 1 /\ K(h) >= 1
  <2>1. \A h \in Guests : I(h) >= 1
    BY DEF PosInv, I, Threads
  <2>2. \A h \in Guests : K(h) >= 1
    BY DEF PosInv, K
  <2> QED BY <2>1, <2>2
<1> QED BY <1>1, <1>2 DEF Onward

\* So does the end of a stage.
LEMMA StageOnward ==
  ASSUME GuestAssumption, PosInv, NEW g \in Guests, NextStage(g)
  PROVE  test' = test /\ Guests' = Guests /\ \A h \in Guests : Onward(h)
<1>1. test' = test /\ Guests' = Guests
  BY TestKept DEF NextStage
<1>2. \A h \in Guests : K(h) \in Nat /\ K(h) >= 1 /\ I(h) \in Nat /\ I(h) >= 1
  <2>1. \A h \in Guests : I(h) \in Nat /\ I(h) >= 1
    BY DEF PosInv, I, Threads
  <2>2. \A h \in Guests : K(h) \in Nat /\ K(h) >= 1
    BY DEF PosInv, K
  <2> QED BY <2>1, <2>2
<1>3. CASE pos' = pos
  BY <1>1, <1>2, <1>3 DEF Onward, K, I
<1>4. CASE pos' # pos
  <2>1. Len(Run(g)) = StageCount
    BY StageTable DEF PosInv
  <2>2. /\ \A t \in Threads : Finished(g, t)
        /\ ~pos[g].bad /\ pos[g].stage # Len(Run(g)) /\ verdict' = verdict
        /\ pos' = [pos EXCEPT ![g] = [stage |-> @.stage + 1, ix |-> <<1, 1>>, bad |-> FALSE]]
    BY <1>4 DEF NextStage
  <2>3. K(g)' = K(g) + 1 /\ I(g)' = 1 /\ \A h \in Guests : h # g => pos'[h] = pos[h]
    BY <1>1, <2>1, <2>2, StageMoved DEF K
  <2>4. K(g)' \in Nat /\ \A h \in Guests : h # g => K(h)' = K(h) /\ I(h)' = I(h)
    BY <1>2, <2>3 DEF K, I
  <2>5. \A h \in Guests : h # g => Onward(h)
    BY <1>2, <2>4 DEF Onward
  <2>6. Onward(g)
    BY <1>2, <2>3, <2>4 DEF Onward
  <2> QED BY <1>1, <2>5, <2>6
<1> QED BY <1>3, <1>4

\* A step that sends nothing in a loop keeps the bounds of the loops.
LEMMA LoopsFrame ==
  ASSUME GuestAssumption, LoopsInv, HostInv, PosInv', test' = test, loops' = loops, B \in Guests => Onward(B)
  PROVE  LoopsInv'
<1>1. loops \in Nat /\ Limit \in Nat /\ Tries \in Nat
  BY Values DEF HostInv
<1>2. test \in {"overflow", "post-close-send"} => B \in Guests
  BY DEF Guests, TwoPeer, B
<1>3. CASE test = "overflow"
  BY <1>1, <1>2, <1>3 DEF LoopsInv, Onward
<1>4. CASE test = "post-close-send"
  <2>1. K(B)' <= 4
    <3>1. StageCount' = 4 /\ Guests' = Guests
      BY <1>4, TestKept DEF StageCount
    <3>2. K(B)' \in 1..StageCount'
      BY <1>2, <1>4, <3>1 DEF PosInv, K
    <3> QED BY <3>1, <3>2
  <2> QED BY <1>1, <1>2, <1>4, <2>1 DEF LoopsInv, Onward
<1>5. CASE test \notin {"overflow", "post-close-send"}
  BY <1>5 DEF LoopsInv
<1> QED BY <1>3, <1>4, <1>5

\* A loop of sends stops at its bound.
LEMMA LoopsSend ==
  ASSUME GuestAssumption, PosInv, LoopsInv, HostInv, NEW g, NEW t, AtCall(g, t), NEW st, st = Current(g, t), SendLoop(g, t, st)
  PROVE  LoopsInv'
<1>1. loops \in Nat /\ Limit \in Nat /\ Tries \in Nat
  BY Values DEF HostInv
<1>2. Goes(g, t) \/ Stops(g, t) \/ Stays
  BY DEF SendLoop
<1>3. test' = test /\ \A h \in Guests : K(h)' = K(h)
  BY <1>2, Forward
<1>4. B \in Guests => Onward(B)
  BY <1>2, CallOnward
<1>5. CASE loops' = loops
  BY <1>2, <1>3, <1>4, <1>5, LoopsFrame, Forward
<1>6. CASE loops' # loops
  <2>1. /\ loops' = loops + 1
        /\ CASE st.op = "flood" /\ loops' = Limit + 1 -> Goes(g, t)
             [] st.op = "send-until-closed" /\ loops' > Tries -> Stops(g, t)
             [] OTHER -> Stays
    BY <1>6 DEF SendLoop
  <2>2. st.op = "flood" \/ st.op = "send-until-closed"
    BY DEF SendLoop
  <2>3. CASE st.op = "flood"
    <3>1. test = "overflow" /\ K(B) = 4 /\ I(B) = 1 /\ t = 1 /\ g = B /\ B \in Guests
      BY <2>3, CallPlaces, AtPlace DEF AsPeer, AsBoth, TwoPeer, AtCall
    <3>2. loops <= Limit
      BY <3>1 DEF LoopsInv
    <3>3. CASE loops' = Limit + 1
      <4>1. Goes(g, t)
        BY <2>1, <2>3, <3>3
      <4>2. I(B)' = 2
        BY <3>1, <4>1, GoesFacts DEF I, Threads
      <4> QED BY <1>1, <1>3, <3>1, <3>3, <4>2 DEF LoopsInv
    <3>4. CASE loops' # Limit + 1
      BY <1>1, <1>3, <2>1, <3>1, <3>2, <3>4 DEF LoopsInv
    <3> QED BY <3>3, <3>4
  <2>4. CASE st.op = "send-until-closed"
    <3>1. test = "post-close-send" /\ K(B) = 4 /\ I(B) = 2 /\ t = 1 /\ g = B /\ B \in Guests
      BY <2>4, CallPlaces, AtPlace DEF AsPeer, AsBoth, TwoPeer, AtCall
    <3>2. loops <= Tries
      BY <3>1 DEF LoopsInv
    <3>3. CASE loops' > Tries
      <4>1. Stops(g, t)
        BY <2>1, <2>4, <3>3
      <4>2. I(B)' = Size(B, 4, 1) + 1
        BY <3>1, <4>1, StopsFacts DEF I, Threads
      <4>3. Size(B, 4, 1) = 3
        BY <3>1 DEF Size, InprocSize, TwoPeer, FourthSize, ClosesAt
      <4> QED BY <1>1, <1>3, <2>1, <3>1, <3>2, <4>2, <4>3 DEF LoopsInv
    <3>4. CASE ~(loops' > Tries)
      <4>1. Stays
        BY <2>1, <2>4, <3>4
      <4>2. I(B)' = 2
        BY <3>1, <4>1 DEF I, Stays
      <4> QED BY <1>1, <1>3, <2>1, <3>1, <3>4, <4>2 DEF LoopsInv
    <3> QED BY <3>3, <3>4
  <2> QED BY <2>2, <2>3, <2>4
<1> QED BY <1>5, <1>6

\* Every step keeps the bounds of the loops.
LEMMA LoopsNext ==
  ASSUME GuestAssumption, PosInv, LoopsInv, HostInv, Next
  PROVE  LoopsInv'
<1>p. PosInv'
  BY PosNext
<1>1. ASSUME NEW g \in Guests, NextStage(g)
      PROVE  LoopsInv'
  <2>1. loops' = loops
    BY <1>1 DEF NextStage
  <2> QED BY <1>1, <1>p, <2>1, StageOnward, LoopsFrame
<1>2. ASSUME NEW g \in Guests, NEW t \in Threads, AtCall(g, t), ACall(g, t, Current(g, t))
      PROVE  LoopsInv'
  <2>1. CASE SendLoop(g, t, Current(g, t))
    BY <1>2, <2>1, LoopsSend
  <2>2. CASE ~SendLoop(g, t, Current(g, t))
    <3>1. loops' = loops
      BY <1>2, <2>2 DEF ACall, Describe, PublishOrDone, RecvOffer, ConsumeSignaling, WaitConnected, FirstIncoming,
                        SendCall, ReceiveCall, StreamCall, Close
    <3> QED BY <1>2, <1>p, <3>1, CallMoves, CallOnward, LoopsFrame
  <2> QED BY <2>1, <2>2
<1>3. ASSUME NEW g \in Guests, NEW t \in Threads, CallFails(g, t)
      PROVE  LoopsInv'
  BY <1>3, <1>p, CallOnward, LoopsFrame DEF CallFails, AtCall
<1>4. CASE UNCHANGED <<test, guestVars>>
  BY <1>4 DEF guestVars, LoopsInv, K, I
<1>5. CASE Env \/ ConnectionBreaks \/ \E s \in Sides : MessageLost(s)
  BY <1>4, <1>5 DEF Env, Connect, Open, Deliver, CloseArrives, LagPasses, ConnectionBreaks, MessageLost
<1> QED BY <1>1, <1>2, <1>3, <1>5, StepCases DEF Faults

\* Publishing has come as far as it had, or further.
PubOn(s) ==
  /\ Pub(s) \in Nat /\ Pub(s)' \in Nat /\ Pub(s)' >= Pub(s)
  /\ (K(s) = 1 /\ I(s) <= Offset(s) + 2)' => K(s) = 1 /\ I(s) <= Offset(s) + 2 /\ Pub(s)' = Pub(s)

\* A call that does not publish leaves publishing where it was, or stops it.
LEMMA PubCall ==
  ASSUME GuestAssumption, PosInv, test \in TwoPeer, NEW g, NEW t, AtCall(g, t), NEW st, st = Current(g, t),
         Goes(g, t) \/ Stops(g, t) \/ Stays, NEW s \in Sides, ~(Goes(g, t) /\ st.op = "publish" /\ g = s)
  PROVE  PubOn(s)
<1>1. Pub(s) \in Nat
  BY PubFacts
<1>2. CASE Goes(g, t)
  <2>1. /\ Pub(s)' = Pub(s)
        /\ (K(s) = 1 /\ I(s) <= Offset(s) + 2)' => K(s) = 1 /\ I(s) <= Offset(s) + 2
    BY <1>2, PubGo
  <2> QED BY <1>1, <2>1 DEF PubOn
<1>3. CASE Stops(g, t)
  <2>1. /\ Pub(s)' \in 0..3 /\ Pub(s)' >= Pub(s)
        /\ (K(s) = 1 /\ I(s) <= Offset(s) + 2)' => K(s) = 1 /\ I(s) <= Offset(s) + 2 /\ Pub(s)' = Pub(s)
    BY <1>3, PubStop
  <2> QED BY <1>1, <2>1 DEF PubOn
<1>4. CASE Stays
  BY <1>1, <1>4 DEF Stays, PubOn, Pub, K, I
<1> QED BY <1>2, <1>3, <1>4

\* The end of a stage leaves publishing where it was.
LEMMA PubNextStage ==
  ASSUME GuestAssumption, PosInv, test \in TwoPeer, NEW g \in Guests, NextStage(g), NEW s \in Sides
  PROVE  PubOn(s) /\ Pub(s)' = Pub(s)
<1>1. Pub(s) \in Nat
  BY PubFacts
<1>2. CASE pos' = pos
  <2>1. Pub(s)' = Pub(s) /\ K(s)' = K(s) /\ I(s)' = I(s)
    BY <1>2 DEF Pub, K, I
  <2> QED BY <1>1, <2>1 DEF PubOn
<1>3. CASE pos' # pos
  <2>1. Len(Run(g)) = StageCount
    BY StageTable DEF PosInv
  <2>2. Moves(g)
    BY <1>3, <2>1 DEF NextStage, Moves, K
  <2>3. Pub(s)' = Pub(s) /\ ((K(s) = 1)' => K(s) = 1 /\ I(s)' = I(s))
    BY <2>2, PubStage
  <2> QED BY <1>1, <2>3 DEF PubOn
<1> QED BY <1>2, <1>3

SameCands == \A s \in Sides : peer'[s].cands = peer[s].cands

\* A step that neither publishes nor receives keeps the mailboxes and the candidates.
LEMMA MailFrame ==
  ASSUME MailInv, HostInv, test' = test, UNCHANGED <<published, received, replaced>>, frozen' \subseteq Sides, SameCands,
         test \in TwoPeer => \A s \in Sides : PubOn(s),
         test \in InProcess => Onward(B)
  PROVE  MailInv'
<1>1. CASE test \in TwoPeer
  <2>1. test \notin InProcess /\ \A s \in Sides : Other(s) \in Sides
    BY <1>1 DEF TwoPeer, InProcess, Sides, Other
  <2>2. ASSUME NEW s \in Sides
        PROVE /\ Len(published[s]) <= Pub(s)' /\ \A i \in 1..Len(published[s]) : published[s][i] = i
              /\ Len(received[s]) <= Len(published[s]) /\ \A i \in 1..Len(received[s]) : received[s][i] = i
              /\ peer'[Other(s)].cands = IF Len(received[s]) > 1 THEN 1 ELSE 0
              /\ (K(s) = 1 /\ I(s) <= Offset(s) + 2)' => Len(published[s]) = Pub(s)'
    <3>1. /\ Len(published[s]) <= Pub(s) /\ \A i \in 1..Len(published[s]) : published[s][i] = i
          /\ Len(received[s]) <= Len(published[s]) /\ \A i \in 1..Len(received[s]) : received[s][i] = i
          /\ peer[Other(s)].cands = IF Len(received[s]) > 1 THEN 1 ELSE 0
          /\ K(s) = 1 /\ I(s) <= Offset(s) + 2 => Len(published[s]) = Pub(s)
          /\ published[s] \in Seq(Nat)
      BY <1>1 DEF MailInv
    <3>2. Len(published[s]) \in Nat
      BY <3>1
    <3>3. PubOn(s) /\ peer'[Other(s)].cands = peer[Other(s)].cands
      BY <1>1, <2>1 DEF SameCands
    <3> QED BY <3>1, <3>2, <3>3 DEF PubOn
  <2> QED BY <1>1, <2>1, <2>2 DEF MailInv
<1>2. CASE test \notin TwoPeer
  <2>1. ASSUME test \in InProcess, NEW s \in Sides
        PROVE /\ peer'[s].cands \in 0..1
              /\ test \in {"timed-out", "invalid-sdp"} => peer'[s].cands = 0
              /\ K(B)' = 1 /\ I(B)' <= (IF s = "offerer" THEN 5 ELSE 6) => peer'[s].cands = 0
    <3>1. /\ peer[s].cands \in 0..1
          /\ test \in {"timed-out", "invalid-sdp"} => peer[s].cands = 0
          /\ K(B) = 1 /\ I(B) <= (IF s = "offerer" THEN 5 ELSE 6) => peer[s].cands = 0
      BY <2>1 DEF MailInv
    <3>2. peer'[s].cands = peer[s].cands
      BY DEF SameCands
    <3>3. Onward(B)
      BY <2>1
    <3> QED BY <3>1, <3>2, <3>3 DEF Onward
  <2>2. ~replaced' /\ published' \in [Sides -> Seq(Nat)] /\ received' \in [Sides -> Seq(Nat)] /\ frozen' \subseteq Sides
    BY DEF MailInv
  <2> QED BY <1>2, <2>1, <2>2 DEF MailInv
<1> QED BY <1>1, <1>2

\* What is received from a mailbox is what was published next.
LEMMA MailReceived ==
  ASSUME MailInv, test \in TwoPeer, NEW r \in Sides, NEW b \in Nat, Mail!Receive(r, b)
  PROVE  /\ b = Len(received[r]) + 1 /\ b <= Len(published[r])
         /\ received' = [received EXCEPT ![r] = Append(@, b)]
         /\ received'[r] = Append(received[r], b) /\ Len(received'[r]) = b /\ \A i \in 1..b : received'[r][i] = i
         /\ \A s \in Sides : s # r => received'[s] = received[s]
         /\ received' \in [Sides -> Seq(Nat)]
         /\ published' = published /\ frozen' = frozen /\ replaced' = replaced
<1>1. /\ ~replaced /\ published[r] \in Seq(Nat) /\ received[r] \in Seq(Nat) /\ received \in [Sides -> Seq(Nat)]
      /\ \A i \in 1..Len(published[r]) : published[r][i] = i
      /\ \A i \in 1..Len(received[r]) : received[r][i] = i
  BY DEF MailInv
<1>2. /\ Mail!IsPrefix(Append(received[r], b), published[r])
      /\ received' = [received EXCEPT ![r] = Append(@, b)]
      /\ published' = published /\ frozen' = frozen /\ replaced' = replaced
  BY <1>1 DEF Mail!Receive
<1> DEFINE p == published[r]
           q == received[r]
           n == Len(q) + 1
           a == Append(q, b)
<1>3. a \in Seq(Nat) /\ Len(a) = n /\ a[n] = b /\ n \in Nat /\ n >= 1 /\ \A i \in 1..(n - 1) : a[i] = q[i]
  BY <1>1
<1>4. Len(a) <= Len(p) /\ SubSeq(a, 1, Len(a)) = SubSeq(p, 1, Len(a))
  BY <1>2 DEF Mail!IsPrefix
<1>5. a[n] = p[n] /\ n <= Len(p)
  <2>1. p \in Seq(Nat) /\ n \in 1..n
    BY <1>1, <1>3
  <2> HIDE DEF a, p, n
  <2>2. SubSeq(a, 1, n)[n] = a[n] /\ SubSeq(p, 1, n)[n] = p[n]
    BY <1>3, <1>4, <2>1
  <2> QED BY <1>3, <1>4, <2>2
<1>6. p[n] = n
  BY <1>1, <1>3, <1>5
<1>7. received'[r] = a /\ (\A s \in Sides : s # r => received'[s] = received[s]) /\ received' \in [Sides -> Seq(Nat)]
  BY <1>1, <1>2, <1>3
<1>8. b = n
  BY <1>3, <1>5, <1>6
<1>9. \A i \in 1..b : a[i] = i
  <2> HIDE DEF a
  <2> QED BY <1>1, <1>3, <1>8
<1> QED BY <1>2, <1>3, <1>5, <1>7, <1>8, <1>9

\* The candidates of one guest with both peers are added once on each side.
LEMMA CandidatePlaces ==
  ASSUME GuestAssumption, PosInv, NEW g, NEW t, AtCall(g, t), NEW st, st = Current(g, t), st.op = "add-candidates"
  PROVE  /\ test \in Connected /\ test \in InProcess /\ test \notin TwoPeer /\ g = B /\ K(B) = 1 /\ t = 1
         /\ (I(B) = 5 /\ st.at = "offerer") \/ (I(B) = 6 /\ st.at = "answerer")
<1>1. CASE AsPeer(g, t, st)
  <2>1. K(g) \in 1..4 /\ PeerCall(g, K(g), t, pos[g].ix[t], st)
    BY <1>1 DEF AsPeer
  <2>2. CASE K(g) = 1
    BY <2>1, <2>2 DEF PeerCall, HandshakeCall, Is
  <2>3. CASE K(g) = 2
    BY <2>1, <2>3 DEF PeerCall, ExchangeCall, Sends, Receives, Is
  <2>4. CASE K(g) \in {3, 4}
    BY <2>1, <2>4 DEF PeerCall, BarrierCall, Sends, Receives, Is
  <2> QED BY <2>1, <2>2, <2>3, <2>4
<1>2. CASE AsBoth(g, t, st)
  <2>1. /\ InprocCall(K(B), t, pos[B].ix[t], st) /\ test \in InProcess /\ test \notin TwoPeer /\ g = B /\ K(B) \in Nat /\ K(B) >= 1
        /\ pos[B].ix[t] \in 1..InprocSize(K(B), t) /\ t \in {1, 2}
    BY <1>2, AtPlace DEF AsBoth
  <2>2. test \in Connected
    BY <2>1 DEF InprocCall, Is, Connected
  <2>3. K(B) <= 3
    <3>1. CASE K(B) > 3 /\ K(B) = ClosesAt
      <4>1. LastCall(pos[B].ix[t], st)
        BY <2>1, <2>2, <3>1 DEF InprocCall, Connected
      <4> QED BY <4>1 DEF LastCall, Is
    <3>2. CASE K(B) = 4 /\ K(B) # ClosesAt
      <4>1. FourthCall(t, pos[B].ix[t], st)
        BY <2>1, <2>2, <3>2 DEF InprocCall, Connected
      <4>2. test \in {"round-trip", "overflow", "error-closed", "post-close-send", "send-via-stream", "receive-via-stream", "receive-via-stream-once"}
        BY <2>2 DEF Connected, InProcess
      <4> QED BY <4>1, <4>2 DEF FourthCall, Is, Sends, Receives
    <3>3. CASE K(B) > 4 /\ K(B) # ClosesAt
      <4>1. FifthCall(pos[B].ix[t], st)
        BY <2>1, <2>2, <3>3 DEF InprocCall, Connected
      <4> QED BY <4>1 DEF FifthCall, Is, Receives
    <3> QED BY <2>1, <3>1, <3>2, <3>3
  <2>4. ConnectCall(K(B), t, pos[B].ix[t], st)
    BY <2>1, <2>2, <2>3 DEF InprocCall, Connected
  <2>5. K(B) = 1 /\ ((pos[B].ix[t] = 5 /\ st.at = "offerer") \/ (pos[B].ix[t] = 6 /\ st.at = "answerer"))
    BY <2>4 DEF ConnectCall, Is
  <2>6. InprocSize(K(B), t) = IF t = 1 THEN 6 ELSE 0
    BY <2>1, <2>2, <2>3, <2>5 DEF InprocSize, ConnectSize, Connected
  <2>7. t = 1
    BY <2>1, <2>5, <2>6
  <2> QED BY <2>1, <2>2, <2>5, <2>7 DEF I
<1> QED BY <1>1, <1>2, AtPlace

\* A publish adds the next blob of its side.
LEMMA MailPublish ==
  ASSUME GuestAssumption, PosInv, HostInv, MailInv, NEW g, NEW t, AtCall(g, t), NEW st, st = Current(g, t), PublishOrDone(g, t, st)
  PROVE  MailInv'
<1>1. Goes(g, t) /\ peer' = peer /\ test' = test
  BY DEF PublishOrDone, hostVars, Goes
<1>2. test \in TwoPeer /\ st.at = g /\ test \notin InProcess /\ g \in Sides
  <2>1. test \in TwoPeer /\ st.at = g /\ st.at \in Sides
    BY ConnectPlaces DEF PublishOrDone
  <2> QED BY <2>1 DEF TwoPeer, InProcess
<1>3. CASE st.op = "done" /\ Mail!Freeze(st.at)
  <2>1. UNCHANGED <<published, received, replaced>> /\ frozen' \subseteq Sides
    BY <1>2, <1>3 DEF Mail!Freeze, MailInv
  <2>2. \A s \in Sides : PubOn(s)
    BY <1>1, <1>2, <1>3, PubCall
  <2> QED BY <1>1, <1>2, <2>1, <2>2, MailFrame DEF SameCands
<1>4. CASE st.op = "publish" /\ Mail!Publish(st.at, st.blob)
  <2>1. published' = [published EXCEPT ![g] = Append(@, st.blob)] /\ UNCHANGED <<frozen, received, replaced>>
    BY <1>2, <1>4 DEF Mail!Publish
  <2>2. /\ st.blob = Pub(g) + 1 /\ K(g) = 1 /\ I(g) <= Offset(g) + 2 /\ Pub(g)' = Pub(g) + 1 /\ Pub(g) \in Nat
    BY <1>1, <1>2, <1>4, PubGo, PubFacts
  <2>3. /\ published[g] \in Seq(Nat) /\ Len(published[g]) = Pub(g) /\ received[g] \in Seq(Nat)
        /\ \A i \in 1..Len(published[g]) : published[g][i] = i
        /\ published \in [Sides -> Seq(Nat)]
    BY <1>2, <2>2 DEF MailInv
  <2> DEFINE q == Append(published[g], st.blob)
  <2>4. q \in Seq(Nat) /\ Len(q) = Pub(g) + 1 /\ \A i \in 1..Len(q) : q[i] = i
    BY <2>2, <2>3
  <2>5. published' = [published EXCEPT ![g] = q]
    BY <2>1
  <2> HIDE DEF q
  <2>6. published' \in [Sides -> Seq(Nat)] /\ published'[g] = q /\ \A s \in Sides : s # g => published'[s] = published[s]
    BY <1>2, <2>3, <2>4, <2>5
  <2>7. ASSUME NEW s \in Sides
        PROVE /\ Len(published'[s]) <= Pub(s)' /\ \A i \in 1..Len(published'[s]) : published'[s][i] = i
              /\ Len(received[s]) <= Len(published'[s]) /\ \A i \in 1..Len(received[s]) : received[s][i] = i
              /\ peer[Other(s)].cands = IF Len(received[s]) > 1 THEN 1 ELSE 0
              /\ (K(s) = 1 /\ I(s) <= Offset(s) + 2)' => Len(published'[s]) = Pub(s)'
    <3>1. /\ Len(published[s]) <= Pub(s) /\ \A i \in 1..Len(published[s]) : published[s][i] = i
          /\ Len(received[s]) <= Len(published[s]) /\ \A i \in 1..Len(received[s]) : received[s][i] = i
          /\ peer[Other(s)].cands = IF Len(received[s]) > 1 THEN 1 ELSE 0
          /\ K(s) = 1 /\ I(s) <= Offset(s) + 2 => Len(published[s]) = Pub(s)
          /\ received[s] \in Seq(Nat) /\ published[s] \in Seq(Nat)
      BY <1>2 DEF MailInv
    <3>2. CASE s = g
      <4>1. Len(received[s]) \in Nat /\ Len(received[s]) <= Pub(g) + 1
        BY <2>2, <2>3, <3>1, <3>2, SMTT(30)
      <4>2. published'[s] = q /\ Pub(s)' = Len(q)
        BY <2>2, <2>4, <2>6, <3>2
      <4>3. Len(published'[s]) <= Pub(s)' /\ Len(received[s]) <= Len(published'[s]) /\ Len(published'[s]) = Pub(s)'
        BY <2>2, <2>4, <3>2, <4>1, <4>2
      <4>4. \A i \in 1..Len(published'[s]) : published'[s][i] = i
        BY <2>4, <4>2
      <4> QED BY <3>1, <4>3, <4>4
    <3>3. CASE s # g
      <4>1. PubOn(s) /\ published'[s] = published[s] /\ Len(published[s]) \in Nat
        BY <1>1, <1>2, <2>6, <3>1, <3>3, PubCall
      <4> QED BY <3>1, <4>1 DEF PubOn
    <3> QED BY <3>2, <3>3
  <2> QED BY <1>1, <1>2, <2>1, <2>6, <2>7 DEF MailInv
<1> QED BY <1>3, <1>4 DEF PublishOrDone

\* A blob received is the next one, and only the second is a candidate.
LEMMA MailTaken ==
  ASSUME GuestAssumption, PosInv, HostInv, MailInv, NEW g, NEW t, AtCall(g, t), NEW st, st = Current(g, t),
         st.op \in {"recv-offer", "consume"}, Goes(g, t) \/ Stops(g, t) \/ Stays,
         NEW b \in Nat, Mail!Receive(Other(st.at), b), peer' \in [Sides -> Peers],
         \A s \in Sides : peer'[s].cands = IF s = st.at /\ b = Candidate THEN peer[s].cands + 1 ELSE peer[s].cands
  PROVE  MailInv'
<1>1. test \in TwoPeer /\ st.at = g /\ test \notin InProcess /\ g \in Sides
  <2>1. test \in TwoPeer /\ st.at = g /\ st.at \in Sides
    BY ConnectPlaces
  <2> QED BY <2>1 DEF TwoPeer, InProcess
<1> DEFINE r == Other(g)
<1>2. r \in Sides /\ Other(r) = g /\ \A s \in Sides : s # r => s = g /\ Other(s) = r /\ Other(s) # g
  BY <1>1 DEF Other, Sides
<1> HIDE DEF r
<1>3. test' = test /\ \A s \in Sides : PubOn(s)
  <2>1. st.op # "publish"
    OBVIOUS
  <2> QED BY <1>1, <2>1, PubCall, Forward
<1>4. /\ b = Len(received[r]) + 1 /\ b <= Len(published[r])
      /\ Len(received'[r]) = b /\ \A i \in 1..b : received'[r][i] = i
      /\ \A s \in Sides : s # r => received'[s] = received[s]
      /\ received' \in [Sides -> Seq(Nat)]
      /\ published' = published /\ frozen' = frozen /\ replaced' = replaced
  <2>1. Mail!Receive(r, b)
    BY <1>1 DEF r
  <2> QED BY <1>1, <1>2, <2>1, MailReceived
<1>5. ASSUME NEW s \in Sides
      PROVE /\ Len(published[s]) <= Pub(s)' /\ \A i \in 1..Len(published[s]) : published[s][i] = i
            /\ Len(received'[s]) <= Len(published[s]) /\ \A i \in 1..Len(received'[s]) : received'[s][i] = i
            /\ peer'[Other(s)].cands = IF Len(received'[s]) > 1 THEN 1 ELSE 0
            /\ (K(s) = 1 /\ I(s) <= Offset(s) + 2)' => Len(published[s]) = Pub(s)'
  <2>1. /\ Len(published[s]) <= Pub(s) /\ \A i \in 1..Len(published[s]) : published[s][i] = i
        /\ Len(received[s]) <= Len(published[s]) /\ \A i \in 1..Len(received[s]) : received[s][i] = i
        /\ peer[Other(s)].cands = IF Len(received[s]) > 1 THEN 1 ELSE 0
        /\ K(s) = 1 /\ I(s) <= Offset(s) + 2 => Len(published[s]) = Pub(s)
        /\ received[s] \in Seq(Nat) /\ published[s] \in Seq(Nat)
    BY <1>1 DEF MailInv
  <2>2. Len(published[s]) \in Nat /\ Len(received[s]) \in Nat /\ PubOn(s)
    BY <1>3, <2>1, SMTT(30)
  <2>3. Len(published[s]) <= Pub(s)' /\ ((K(s) = 1 /\ I(s) <= Offset(s) + 2)' => Len(published[s]) = Pub(s)')
    BY <2>1, <2>2 DEF PubOn
  <2>4. CASE s = r
    <3>1. peer'[g].cands = IF b = 2 THEN peer[g].cands + 1 ELSE peer[g].cands
      BY <1>1 DEF Candidate
    <3>2. peer[g].cands = IF Len(received[r]) > 1 THEN 1 ELSE 0
      BY <1>2, <2>1, <2>4
    <3>3. peer'[g].cands = IF b > 1 THEN 1 ELSE 0
      BY <1>4, <2>2, <2>4, <3>1, <3>2
    <3> QED BY <1>2, <1>4, <2>1, <2>3, <2>4, <3>3
  <2>5. CASE s # r
    <3>1. received'[s] = received[s] /\ peer'[Other(s)].cands = peer[Other(s)].cands
      BY <1>1, <1>2, <1>4, <2>5
    <3> QED BY <2>1, <2>3, <3>1
  <2> QED BY <2>4, <2>5
<1>6. ~replaced' /\ published' \in [Sides -> Seq(Nat)] /\ frozen' \subseteq Sides
  BY <1>4 DEF MailInv
<1> QED BY <1>1, <1>3, <1>4, <1>5, <1>6 DEF MailInv

\* Every call keeps the mailboxes in order.
LEMMA MailCall ==
  ASSUME GuestAssumption, PosInv, HostInv, MailInv, NEW g, NEW t, AtCall(g, t), NEW st, st = Current(g, t), ACall(g, t, st)
  PROVE  MailInv'
<1> DEFINE s == st.at
<1>1. /\ s \in Sides /\ peer \in [Sides -> Peers]
      /\ test \in TwoPeer => s = g
  BY ConnectPlaces DEF HostInv
<1>2. Goes(g, t) \/ Stops(g, t) \/ Stays
  BY CallMoves
<1>3. test' = test /\ (test \in InProcess => Onward(B))
  <2>1. test \in InProcess => B \in Guests
    BY DEF Guests, InProcess, TwoPeer, B
  <2> QED BY <1>2, <2>1, CallOnward
<1>4. HostInv'
  BY HostCall
<1> HIDE DEF s
<1>5. ASSUME UNCHANGED <<published, received, frozen, replaced>>, SameCands, st.op # "publish"
      PROVE  MailInv'
  <2>1. ASSUME test \in TwoPeer, NEW r \in Sides PROVE PubOn(r)
    BY <1>2, <1>5, <2>1, PubCall
  <2>2. frozen' \subseteq Sides
    BY <1>5 DEF MailInv
  <2> QED BY <1>3, <1>5, <2>1, <2>2, MailFrame
<1>6. CASE Describe(g, t, st)
  <2>1. UNCHANGED <<published, received, frozen, replaced>> /\ st.op # "publish"
    BY <1>6 DEF Describe, mailVars
  <2>2. CASE st.op # "add-candidates"
    <3>1. \/ peer' = [peer EXCEPT ![s].local = TRUE] \/ peer' = [peer EXCEPT ![s].remote = TRUE] \/ peer' = peer
      BY <1>6, <2>2 DEF Describe, s
    <3>2. SameCands
      BY <1>1, <3>1 DEF SameCands, Peers
    <3> QED BY <1>5, <2>1, <3>2
  <2>3. CASE st.op = "add-candidates"
    <3>1. peer' = [peer EXCEPT ![s].cands = @ + 1] /\ Goes(g, t)
      BY <1>6, <2>3 DEF Describe, s
    <3>2. /\ test \in Connected /\ test \in InProcess /\ test \notin TwoPeer /\ g = B /\ K(B) = 1 /\ t = 1 /\ B \in Guests
          /\ (I(B) = 5 /\ s = "offerer") \/ (I(B) = 6 /\ s = "answerer")
      BY <2>3, CandidatePlaces DEF s, AtCall
    <3>3. K(B)' = 1 /\ I(B)' = I(B) + 1
      BY <3>1, <3>2, GoesFacts DEF K, I, Threads
    <3>4. peer[s].cands = 0 /\ \A r \in Sides : peer[r].cands \in 0..1
      BY <3>2 DEF MailInv, Sides
    <3>5. peer'[s].cands = 1 /\ \A r \in Sides : r # s => peer'[r].cands = peer[r].cands
      <4>1. peer[s] \in Peers
        BY <1>1
      <4> QED BY <1>1, <3>1, <3>4, <4>1 DEF Peers
    <3>6. ASSUME NEW r \in Sides
          PROVE  /\ peer'[r].cands \in 0..1
                 /\ K(B)' = 1 /\ I(B)' <= (IF r = "offerer" THEN 5 ELSE 6) => peer'[r].cands = 0
      <4>1. K(B) = 1 /\ I(B) <= (IF r = "offerer" THEN 5 ELSE 6) => peer[r].cands = 0
        BY <3>2 DEF MailInv
      <4>2. CASE I(B) = 5
        BY <3>2, <3>3, <3>4, <3>5, <4>1, <4>2
      <4>3. CASE I(B) = 6
        BY <3>2, <3>3, <3>4, <3>5, <4>1, <4>3 DEF Sides
      <4> QED BY <3>2, <4>2, <4>3
    <3>7. test \notin {"timed-out", "invalid-sdp"}
      BY <3>2 DEF Connected
    <3>8. ~replaced' /\ published' \in [Sides -> Seq(Nat)] /\ received' \in [Sides -> Seq(Nat)] /\ frozen' \subseteq Sides
      BY <2>1 DEF MailInv
    <3> QED BY <1>3, <3>2, <3>6, <3>7, <3>8 DEF MailInv
  <2> QED BY <2>2, <2>3
<1>7. CASE PublishOrDone(g, t, st)
  BY <1>7, MailPublish
<1>8. /\ Sdp \in Nat /\ Candidate \in Nat /\ EndOfCandidates \in Nat
      /\ Sdp # Candidate /\ EndOfCandidates # Candidate
      /\ peer' \in [Sides -> Peers]
  BY <1>4 DEF Sdp, Candidate, EndOfCandidates, HostInv
<1>9. ASSUME NEW o \in Sides, Mail!End(o), UNCHANGED peer, st.op # "publish"
      PROVE  MailInv'
  BY <1>5, <1>9 DEF Mail!End, SameCands
<1>10. CASE RecvOffer(g, t, st)
  <2>1. st.op = "recv-offer" /\ Other(s) \in Sides
    BY <1>1, <1>10 DEF RecvOffer, Other, Sides
  <2>2. CASE Mail!Receive(Other(s), Sdp) /\ peer' = [peer EXCEPT ![s].remote = TRUE]
    <3>1. \A r \in Sides : peer'[r].cands = peer[r].cands
      BY <1>1, <2>2 DEF Peers
    <3>2. \A r \in Sides : peer'[r].cands = IF r = st.at /\ Sdp = Candidate THEN peer[r].cands + 1 ELSE peer[r].cands
      BY <1>8, <3>1
    <3>3. Mail!Receive(Other(st.at), Sdp) /\ st.op \in {"recv-offer", "consume"} /\ Sdp \in Nat
      BY <1>8, <2>1, <2>2 DEF s
    <3> HIDE DEF s
    <3> QED BY <1>2, <1>8, <3>2, <3>3, MailTaken
  <2>3. CASE Mail!End(Other(s)) /\ UNCHANGED peer
    BY <1>9, <2>1, <2>3
  <2> QED BY <1>10, <2>2, <2>3 DEF RecvOffer, s
<1>11. CASE ConsumeSignaling(g, t, st)
  <2>1. st.op = "consume" /\ Other(s) \in Sides
    BY <1>1, <1>11 DEF ConsumeSignaling, Other, Sides
  <2>2. CASE Mail!Receive(Other(s), EndOfCandidates) /\ UNCHANGED peer
    <3>1. \A r \in Sides : peer'[r].cands = peer[r].cands
      BY <2>2
    <3> QED BY <1>2, <1>8, <2>1, <2>2, <3>1, MailTaken DEF s
  <2>3. CASE Mail!Receive(Other(s), Sdp) /\ peer' = [peer EXCEPT ![s].remote = TRUE]
    <3>1. \A r \in Sides : peer'[r].cands = peer[r].cands
      BY <1>1, <2>3 DEF Peers
    <3>2. \A r \in Sides : peer'[r].cands = IF r = st.at /\ Sdp = Candidate THEN peer[r].cands + 1 ELSE peer[r].cands
      BY <1>8, <3>1
    <3>3. Mail!Receive(Other(st.at), Sdp) /\ st.op \in {"recv-offer", "consume"} /\ Sdp \in Nat
      BY <1>8, <2>1, <2>3 DEF s
    <3> HIDE DEF s
    <3> QED BY <1>2, <1>8, <3>2, <3>3, MailTaken
  <2>4. CASE Mail!Receive(Other(s), Candidate) /\ peer' = [peer EXCEPT ![s].cands = @ + 1]
    <3>1. \A r \in Sides : peer'[r].cands = IF r = s THEN peer[r].cands + 1 ELSE peer[r].cands
      BY <1>1, <2>4 DEF Peers
    <3> QED BY <1>2, <1>8, <2>1, <2>4, <3>1, MailTaken DEF s
  <2>5. CASE Mail!End(Other(s)) /\ UNCHANGED peer
    BY <1>9, <2>1, <2>5
  <2> QED BY <1>11, <2>2, <2>3, <2>4, <2>5 DEF ConsumeSignaling, s
<1>12. CASE Close(g, t, st)
  <2>1. UNCHANGED <<published, received, frozen, replaced>> /\ st.op # "publish" /\ peer' = [peer EXCEPT ![s] = Closed(@)]
    BY <1>12 DEF Close, mailVars, s
  <2>2. SameCands
    BY <1>1, <2>1 DEF SameCands, Peers, Closed
  <2> QED BY <1>5, <2>1, <2>2
<1>13. ASSUME UNCHANGED <<peer, mailVars>>, st.op # "publish"
       PROVE  MailInv'
  BY <1>5, <1>13 DEF mailVars, SameCands
<1>14. CASE WaitConnected(g, t, st)
  BY <1>13, <1>14 DEF WaitConnected, hostVars
<1>15. CASE FirstIncoming(g, t, st)
  BY <1>13, <1>15 DEF FirstIncoming, hostVars
<1>16. CASE SendCall(g, t, st)
  BY <1>13, <1>16 DEF SendCall
<1>17. CASE SendLoop(g, t, st)
  BY <1>13, <1>17 DEF SendLoop
<1>18. CASE ReceiveCall(g, t, st)
  BY <1>13, <1>18 DEF ReceiveCall
<1>19. CASE StreamCall(g, t, st)
  BY <1>13, <1>19 DEF StreamCall
<1> QED BY <1>6, <1>7, <1>10, <1>11, <1>12, <1>14, <1>15, <1>16, <1>17, <1>18, <1>19 DEF ACall

\* So does every step.
LEMMA MailNext ==
  ASSUME GuestAssumption, PosInv, HostInv, MailInv, Next
  PROVE  MailInv'
<1>0. test \in InProcess => B \in Guests
  BY DEF Guests, InProcess, TwoPeer, B
<1>t. peer \in [Sides -> Peers] /\ frozen \subseteq Sides
  BY DEF HostInv, MailInv
<1>1. ASSUME NEW g \in Guests, NextStage(g)
      PROVE  MailInv'
  <2>1. UNCHANGED <<published, received, frozen, replaced>>
    BY <1>1 DEF NextStage, mailVars
  <2>2. \/ peer' = peer \/ peer' = [s \in Sides |-> IF s \in Owned(g) THEN Closed(peer[s]) ELSE peer[s]]
    BY <1>1 DEF NextStage
  <2>3. SameCands
    BY <1>t, <2>2 DEF SameCands, Peers, Closed
  <2> QED BY <1>0, <1>1, <1>t, <2>1, <2>3, MailFrame, StageOnward, PubNextStage
<1>2. ASSUME NEW g \in Guests, NEW t \in Threads, AtCall(g, t), ACall(g, t, Current(g, t))
      PROVE  MailInv'
  BY <1>2, MailCall
<1>3. ASSUME NEW g \in Guests, NEW t \in Threads, CallFails(g, t)
      PROVE  MailInv'
  <2>1. UNCHANGED <<published, received, frozen, replaced>> /\ SameCands
    BY <1>3 DEF CallFails, mailVars, hostVars, SameCands
  <2>2. AtCall(g, t) /\ Stops(g, t)
    BY <1>3 DEF CallFails, AtCall
  <2>3. ASSUME test \in TwoPeer, NEW s \in Sides PROVE PubOn(s)
    <3>1. Pub(s) \in Nat
      BY <2>3, PubFacts
    <3>2. /\ Pub(s)' \in 0..3 /\ Pub(s)' >= Pub(s)
          /\ (K(s) = 1 /\ I(s) <= Offset(s) + 2)' => K(s) = 1 /\ I(s) <= Offset(s) + 2 /\ Pub(s)' = Pub(s)
      BY <2>2, <2>3, PubStop
    <3> QED BY <3>1, <3>2 DEF PubOn
  <2> QED BY <1>0, <1>t, <2>1, <2>2, <2>3, CallOnward, MailFrame
<1>4. ASSUME UNCHANGED <<test, guestVars, mailVars>>, SameCands
      PROVE  MailInv'
  <2>1. test' = test /\ pos' = pos /\ UNCHANGED <<published, received, frozen, replaced>>
    BY <1>4 DEF guestVars, mailVars
  <2>2. ASSUME test \in TwoPeer, NEW s \in Sides PROVE PubOn(s)
    <3>1. Pub(s) \in Nat
      BY <2>2, PubFacts
    <3>2. Pub(s)' = Pub(s) /\ K(s)' = K(s) /\ I(s)' = I(s)
      BY <2>1 DEF Pub, K, I
    <3> QED BY <3>1, <3>2 DEF PubOn
  <2>3. test \in InProcess => Onward(B)
    <3>1. K(B)' = K(B) /\ I(B)' = I(B)
      BY <2>1 DEF K, I
    <3>2. test \in InProcess => K(B) \in Nat /\ K(B) >= 1
      BY <1>0 DEF PosInv, K
    <3>3. test \in InProcess => I(B) \in Nat /\ I(B) >= 1
      BY <1>0 DEF PosInv, I, Threads
    <3> QED BY <3>1, <3>2, <3>3 DEF Onward
  <2> QED BY <1>4, <1>t, <2>1, <2>2, <2>3, MailFrame
<1>5. ASSUME NEW s \in Sides, Connect(s) \/ Open(s) \/ Deliver(s) \/ CloseArrives(s) \/ LagPasses(s) \/ MessageLost(s)
      PROVE  MailInv'
  <2>1. UNCHANGED <<test, guestVars, mailVars>>
    BY <1>5 DEF Connect, Open, Deliver, CloseArrives, LagPasses, MessageLost
  <2>2. peer' = peer \/ peer' = [peer EXCEPT ![s].conn = "connected"]
        \/ peer' = [peer EXCEPT ![s].conn = IF Lost(Other(s)) THEN "failed" ELSE @]
    BY <1>5 DEF Connect, Open, Deliver, CloseArrives, LagPasses, MessageLost
  <2>3. SameCands
    BY <1>t, <2>2 DEF SameCands, Peers
  <2> QED BY <1>4, <2>1, <2>3
<1>6. CASE ConnectionBreaks
  <2>1. UNCHANGED <<test, guestVars, mailVars>> /\ peer' = [s \in Sides |-> [peer[s] EXCEPT !.conn = "failed"]]
    BY <1>6 DEF ConnectionBreaks
  <2>2. SameCands
    BY <1>t, <2>1 DEF SameCands, Peers
  <2> QED BY <1>4, <2>1, <2>2
<1> QED BY <1>1, <1>2, <1>3, <1>5, <1>6, StepCases DEF Env, Faults

\* What holds in every state, fault or not, is kept by every step.
LEMMA AlwaysNext ==
  ASSUME GuestAssumption, Always, Next
  PROVE  Always'
BY PosNext, HostNext, LoopsNext, MailNext DEF Always

-----------------------------------------------------------------------------
(* What may be closed *)

\* No side sends more than a buffer holds.
LEMMA SentBound ==
  ASSUME GuestAssumption, PosInv, NEW s \in Sides
  PROVE  Sent(s) <= Limit /\ Sent(s) \in Nat
<1>1. /\ Count \in Nat /\ Limit \in Nat /\ Limit >= 3 /\ Count < Limit
      /\ Msgs \in Nat /\ Msgs + 1 <= Limit
  BY Values
<1>2. Sent(s) \in Nat
  BY NumbersNat
<1>3. CASE test \in TwoPeer
  <2>1. /\ K(s) \in 1..4 /\ I(s) \in Nat /\ I(s) >= 1 /\ s \in Guests
    BY <1>3, PubFacts DEF Guests
  <2>2. I(s) <= Size(s, K(s), 1) + 1
    BY <2>1 DEF PosInv, I, Threads, K
  <2>3. K(s) = 3 => I(s) <= 2
    BY <1>3, <2>1, <2>2 DEF Size, PeerSize
  <2>4. SentAsPeer(s) <= Msgs + 1
    <3>1. CASE K(s) = 2
      BY <1>1, <2>1, <3>1 DEF SentAsPeer, Smaller
    <3>2. CASE K(s) # 2
      BY <1>1, <2>1, <2>3, <3>2 DEF SentAsPeer
    <3> QED BY <3>1, <3>2
  <2>5. Sent(s) = SentAsPeer(s)
    BY <1>3 DEF Sent
  <2> QED BY <1>1, <1>2, <2>4, <2>5
<1>4. CASE test \notin TwoPeer
  <2>0. B \in Guests
    BY <1>4 DEF Guests, B
  <2>1. K(B) \in Nat /\ I(B) \in Nat /\ J(B) \in Nat /\ I(B) >= 1 /\ J(B) >= 1
    BY <2>0 DEF PosInv, K, I, J, Threads
  <2>2. CASE test = "round-trip"
    <3>1. K(B) = 4 => J(B) <= 3
      <4>1. J(B) <= Size(B, K(B), 2) + 1
        BY <2>0 DEF PosInv, J, Threads, K
      <4>2. K(B) = 4 => Size(B, K(B), 2) = 2
        BY <1>4, <2>2 DEF Size, InprocSize, ClosesAt, FourthSize
      <4> QED BY <2>1, <4>1, <4>2
    <3>2. Sent(s) <= 1
      BY <1>4, <2>1, <2>2, <3>1 DEF Sent, Smaller
    <3> QED BY <1>1, <1>2, <3>2
  <2>3. CASE test \in {"send-via-stream", "receive-via-stream"}
    <3>1. K(B) = 4 => I(B) <= Count + 1
      <4>1. I(B) <= Size(B, K(B), 1) + 1
        BY <2>0 DEF PosInv, I, Threads, K
      <4>2. K(B) = 4 => Size(B, K(B), 1) = Count
        BY <1>4, <2>3 DEF Size, InprocSize, ClosesAt, FourthSize
      <4> QED BY <1>1, <2>1, <4>1, <4>2
    <3>2. Sent(s) <= Count
      BY <1>1, <1>4, <2>1, <2>3, <3>1 DEF Sent
    <3> QED BY <1>1, <1>2, <3>2
  <2>4. CASE test \notin {"round-trip", "send-via-stream", "receive-via-stream"}
    BY <1>1, <1>2, <1>4, <2>4 DEF Sent
  <2> QED BY <2>2, <2>3, <2>4
<1> QED BY <1>3, <1>4

\* A guest that has not come to the rendezvous keeps the other from the end.
LEMMA PeerNotEnded ==
  ASSUME GuestAssumption, Always, Good, test \in TwoPeer, NEW g \in Sides, Ended
  PROVE  /\ K(g) \in {3, 4}
         /\ K(g) = 3 => K(Other(g)) = 4 /\ chan[Other(g)].closed /\ Sent(Other(g)) = Msgs + 1
<1>1. PICK h \in Sides : K(h) = 4 /\ I(h) > 1
  BY DEF Ended, TwoPeer
<1>2. K(g) \in 1..4 /\ I(g) \in Nat /\ I(g) >= 1 /\ Msgs \in Nat
  BY PubFacts, Values DEF Always
<1>3. CASE h = g
  BY <1>1, <1>3
<1>4. CASE h # g
  <2>1. h = Other(g) /\ Other(h) = g
    BY <1>4 DEF Other, Sides
  <2>2. Flow(h) /\ chan[h].closed
    BY <1>1 DEF Good, FlowInv, EndInv, TwoPeer
  <2>3. Rec(h) = Msgs + 1 /\ Sent(h) = Msgs + 1
    BY <1>1 DEF Rec, RecAsPeer, Sent, SentAsPeer
  <2>4. Rec(h) + Len(chan[h].inbox) <= Sent(g)
    BY <2>1, <2>2 DEF Flow
  <2>5. Len(chan[h].inbox) \in Nat /\ Sent(g) \in Nat
    <3>1. chan[h].inbox \in Seq(Nat)
      BY DEF Always, HostInv, Chans
    <3>2. Len(chan[h].inbox) \in Nat
      BY <3>1
    <3>3. Sent(g) \in Nat
      BY NumbersNat DEF Always
    <3> QED BY <3>2, <3>3
  <2>6. Sent(g) >= Msgs + 1
    <3> DEFINE n == Len(chan[h].inbox)  m == Msgs  r == Sent(g)
    <3>1. m + 1 + n <= r /\ m \in Nat /\ n \in Nat /\ r \in Nat
      BY <1>2, <2>3, <2>4, <2>5
    <3> HIDE DEF n, m, r
    <3>2. r >= m + 1
      BY <3>1
    <3> QED BY <3>2 DEF m, r
  <2>7. K(g) \notin {1, 2}
    <3>1. K(g) = 1 => Sent(g) = 0
      BY DEF Sent, SentAsPeer
    <3>2. K(g) = 2 => Sent(g) <= Msgs
      BY <1>2 DEF Sent, SentAsPeer, Smaller
    <3> QED BY <1>2, <2>5, <2>6, <3>1, <3>2
  <2> QED BY <1>1, <1>2, <2>1, <2>2, <2>3, <2>7
<1> QED BY <1>3, <1>4

\* Nothing is closed before the stage of the test that closes it.
LEMMA InprocNotEnded ==
  ASSUME GuestAssumption, Always, Good, test \in InProcess
  PROVE  /\ test \in Connected /\ K(B) <= 3 => ~Ended
         /\ test \in {"round-trip", "send-via-stream", "receive-via-stream", "receive-via-stream-once"} /\ K(B) < ClosesAt => ~Ended
         /\ test = "receive-via-stream" /\ K(B) < 6 => ~Ended
         /\ test = "timed-out" /\ I(B) <= 2 => ~Ended
<1>1. test \notin TwoPeer /\ B \in Guests
  BY DEF TwoPeer, InProcess, Guests, B
<1>2. K(B) \in Nat /\ I(B) \in Nat
  BY <1>1 DEF Always, PosInv, K, I, Threads
<1>3. CASE test = "overflow"
  <2>1. K(B) < 4 => ~chan["answerer"].over
    BY <1>3 DEF Good, SpecialInv
  <2> QED BY <1>1, <1>2, <1>3, <2>1 DEF Ended
<1>4. CASE test \in {"error-closed", "post-close-send"}
  <2>1. Ended => K(B) = 4
    BY <1>1, <1>4 DEF Ended
  <2> QED BY <1>2, <1>4, <2>1
<1>5. CASE test = "round-trip"
  <2>1. (Ended => K(B) = 5) /\ ClosesAt = 5
    BY <1>1, <1>5 DEF Ended, ClosesAt
  <2> QED BY <1>2, <1>5, <2>1
<1>6. CASE test \in {"send-via-stream", "receive-via-stream", "receive-via-stream-once"}
  <2>1. (Ended => K(B) = 6) /\ ClosesAt = 6
    BY <1>1, <1>6 DEF Ended, ClosesAt
  <2> QED BY <1>2, <1>6, <2>1
<1>7. CASE test = "timed-out"
  <2>1. Ended => I(B) > 2
    BY <1>1, <1>7 DEF Ended
  <2> QED BY <1>2, <1>7, <2>1 DEF Connected
<1>8. CASE test = "invalid-sdp"
  BY <1>1, <1>8 DEF Connected
<1> QED BY <1>3, <1>4, <1>5, <1>6, <1>7, <1>8 DEF InProcess

\* What is not closed yet answers.
LEMMA NotEndedFacts ==
  ASSUME Good, ~Ended, NEW s \in Sides
  PROVE  ~chan[s].closed /\ ~Lost(s) /\ ~Dead(s)
BY DEF Good, EndInv, Dead

-----------------------------------------------------------------------------
(* Without a fault no call stops its thread *)

\* The answerer receives the offer, and not the end of a mailbox that has none.
LEMMA RecvOfferGoes ==
  ASSUME GuestAssumption, Always, Good, NEW g, NEW t, AtCall(g, t), NEW st, st = Current(g, t), RecvOffer(g, t, st)
  PROVE  Goes(g, t) /\ Mail!Receive(Other(st.at), Sdp) /\ peer' = [peer EXCEPT ![st.at].remote = TRUE]
<1>1. test \in TwoPeer /\ st.at = g /\ g = "answerer" /\ K(g) = 1 /\ I(g) = 1
  BY ConnectPlaces DEF RecvOffer, Always
<1>2. Other(st.at) = "offerer" /\ "offerer" \in Sides
  BY <1>1 DEF Other, Sides
<1>3. /\ Len(published["offerer"]) = Pub("offerer") /\ ("offerer" \in frozen => Pub("offerer") = 3)
      /\ Len(received["offerer"]) = 0
  BY <1>1, <1>2 DEF Good, MetInv
<1>4. ~Mail!End("offerer")
  <2>1. ~replaced
    BY DEF Always, MailInv
  <2> QED BY <1>3, <2>1 DEF Mail!End
<1> QED BY <1>2, <1>4 DEF RecvOffer

\* A description comes before the candidates, and the offer only once.
LEMMA ConsumeGoes ==
  ASSUME GuestAssumption, Always, Good, NEW g, NEW t, AtCall(g, t), NEW st, st = Current(g, t), ConsumeSignaling(g, t, st)
  PROVE  \/ Mail!Receive(Other(g), EndOfCandidates) /\ Stays /\ UNCHANGED peer
         \/ Mail!Receive(Other(g), Sdp) /\ peer' = [peer EXCEPT ![g].remote = TRUE] /\ Stays
         \/ Mail!Receive(Other(g), Candidate) /\ peer' = [peer EXCEPT ![g].cands = @ + 1] /\ Stays
         \/ Mail!End(Other(g)) /\ Goes(g, t) /\ UNCHANGED peer
<1>1. test \in TwoPeer /\ st.at = g /\ g \in Sides /\ K(g) = 1 /\ I(g) = Offset(g) + 4
  BY ConnectPlaces DEF ConsumeSignaling, Always
<1>2. Other(g) \in Sides /\ Other(Other(g)) = g
  BY <1>1 DEF Other, Sides
<1>3. peer[g].remote <=> Len(received[Other(g)]) > 0
  BY <1>1, <1>2 DEF Good, MetInv
<1>4. Mail!Receive(Other(g), Candidate) => peer[g].remote
  <2>1. ASSUME Mail!Receive(Other(g), Candidate) PROVE Candidate = Len(received[Other(g)]) + 1
    BY <1>1, <1>2, <2>1, MailReceived DEF Always, Candidate
  <2>2. received[Other(g)] \in Seq(Nat)
    BY <1>2 DEF Always, MailInv
  <2> QED BY <1>3, <2>1, <2>2 DEF Candidate
<1>5. Mail!Receive(Other(g), Sdp) => g = "offerer"
  <2>1. ASSUME Mail!Receive(Other(g), Sdp) PROVE Sdp = Len(received[Other(g)]) + 1
    BY <1>1, <1>2, <2>1, MailReceived DEF Always, Sdp
  <2>2. received[Other(g)] \in Seq(Nat)
    BY <1>2 DEF Always, MailInv
  <2>3. g = "answerer" => Len(received[Other(g)]) # 0
    <3>1. "offerer" \in Sides /\ (g = "answerer" => Other(g) = "offerer" /\ I(g) = 7)
      BY <1>1 DEF Sides, Other, Offset
    <3> QED BY <1>1, <3>1 DEF Good, MetInv
  <2> QED BY <1>1, <2>1, <2>2, <2>3 DEF Sdp, Sides
<1> QED BY <1>1, <1>4, <1>5 DEF ConsumeSignaling

\* A wait for the connection or the channel is answered with it.
LEMMA WaitGoes ==
  ASSUME GuestAssumption, Always, Good, NEW g, NEW t, AtCall(g, t), NEW st, st = Current(g, t),
         WaitConnected(g, t, st) \/ FirstIncoming(g, t, st)
  PROVE  Goes(g, t)
<1>1. st.at \in Sides /\ Other(st.at) \in Sides /\ g \in Guests
  BY ConnectPlaces DEF Always, Other, Sides, AtCall
<1>2. st.op \in {"wait", "incoming"} => ~Ended
  <2>1. ASSUME st.op \in {"wait", "incoming"}
        PROVE  (test \in TwoPeer /\ K(g) = 1) \/ (test \in Connected /\ K(B) \in {2, 3})
    BY <2>1, ConnectPlaces DEF Always
  <2>2. test \in TwoPeer => g \in Sides
    BY <1>1 DEF Guests
  <2> QED BY <2>1, <2>2, PeerNotEnded, InprocNotEnded DEF Connected
<1>3. st.op \in {"wait", "incoming"} => ~Lost(st.at) /\ ~Lost(Other(st.at)) /\ ~Dead(st.at)
  BY <1>1, <1>2, NotEndedFacts
<1>4. st.op = "times-out" => peer[st.at].conn = "new"
  <2>1. ASSUME st.op = "times-out" PROVE test = "timed-out" /\ I(B) = 2 /\ st.at = "offerer"
    BY <2>1, ConnectPlaces, CallPlaces DEF Always
  <2> QED BY <2>1 DEF Good, SpecialInv
<1> QED BY <1>3, <1>4 DEF WaitConnected, FirstIncoming, Answers

\* A send is accepted, or fails as the program expects.
LEMMA SendGoes ==
  ASSUME GuestAssumption, Always, Good, NEW g, NEW t, AtCall(g, t), NEW st, st = Current(g, t), SendCall(g, t, st)
  PROVE  /\ Goes(g, t) /\ st.at \in Sides
         /\ \/ Dead(st.at) /\ UNCHANGED <<chan, wire>>
            \/ chan[st.at].open /\ Accepted(st.at, st.msg)
         /\ chan[st.at].closed => chan[Other(st.at)].closed
<1>1. st.at \in Sides /\ g \in Guests /\ st.op = "send"
  BY ConnectPlaces DEF Always, AtCall, SendCall
<1>2. CASE test \in TwoPeer /\ K(g) = 2
  <2>1. g \in Sides
    BY <1>1, <1>2 DEF Guests
  <2>2. ~Ended
    BY <1>2, <2>1, PeerNotEnded
  <2> QED BY <1>1, <2>2, NotEndedFacts DEF SendCall
<1>3. CASE test \in TwoPeer /\ K(g) = 3 /\ st.errs = {"closed"}
  <2>1. g \in Sides /\ st.at = g
    BY <1>1, <1>3, ConnectPlaces DEF Guests, Always
  <2>2. Ended => chan[Other(g)].closed
    BY <1>3, <2>1, PeerNotEnded
  <2>3. chan[g].closed => chan[Other(g)].closed
    BY <2>1, <2>2, NotEndedFacts
  <2>4. Goes(g, t) /\ (\/ Dead(st.at) /\ UNCHANGED <<chan, wire>>
                       \/ chan[st.at].open /\ Accepted(st.at, st.msg))
    BY <1>3 DEF SendCall, Answers
  <2> QED BY <1>1, <2>1, <2>3, <2>4
<1>4. CASE test \in {"round-trip", "send-via-stream", "receive-via-stream"} /\ K(B) = 4
  <2>1. ~Ended
    BY <1>4, InprocNotEnded DEF InProcess, ClosesAt
  <2> QED BY <1>1, <2>1, NotEndedFacts DEF SendCall
<1> QED BY <1>1, <1>2, <1>3, <1>4, CallPlaces DEF Always

\* The loops of sends end as their tests expect.
LEMMA SendLoopGoes ==
  ASSUME GuestAssumption, Always, Good, NEW g, NEW t, AtCall(g, t), NEW st, st = Current(g, t), SendLoop(g, t, st)
  PROVE  /\ Goes(g, t) \/ Stays
         /\ st.at = "offerer" /\ g = B /\ K(B) = 4 /\ t = 1
         /\ \/ test = "overflow" /\ I(B) = 1 /\ st.op = "flood"
            \/ test = "post-close-send" /\ I(B) = 2 /\ st.op = "send-until-closed"
         /\ \/ Dead("offerer") /\ Goes(g, t) /\ UNCHANGED <<loops, chan, wire>>
            \/ ~Dead("offerer") /\ Accepted("offerer", Filler) /\ loops' = loops + 1
<1>1. /\ st.at = "offerer" /\ K(B) = 4 /\ t = 1
      /\ \/ test = "overflow" /\ I(B) = 1 /\ st.op = "flood"
         \/ test = "post-close-send" /\ I(B) = 2 /\ st.op = "send-until-closed"
  BY CallPlaces DEF Always, SendLoop
<1>2. g = B
  BY <1>1 DEF AtCall, Guests, TwoPeer, B
<1>3. \/ Dead("offerer") /\ Goes(g, t) /\ UNCHANGED <<loops, chan, wire>>
      \/ /\ ~Dead("offerer") /\ Accepted("offerer", Filler) /\ loops' = loops + 1
         /\ CASE st.op = "flood" /\ loops' = Limit + 1 -> Goes(g, t)
             [] st.op = "send-until-closed" /\ loops' > Tries -> Stops(g, t)
             [] OTHER -> Stays
  BY <1>1 DEF SendLoop
<1>4. CASE test = "overflow"
  <2>1. st.op # "send-until-closed"
    BY <1>1, <1>4
  <2> QED BY <1>1, <1>2, <1>3, <2>1
<1>5. CASE test = "post-close-send"
  <2>1. st.op # "flood"
    BY <1>1, <1>5
  <2>2. loops + chan["offerer"].lag <= Lag /\ chan["offerer"].closed
    BY <1>1, <1>5 DEF Good, SpecialInv
  <2>3. chan["offerer"].lag \in 0..Lag /\ loops \in Nat
    BY DEF Always, HostInv, Chans, Sides
  <2>4. Lag \in Nat /\ Tries \in Nat /\ Lag <= Tries
    BY Values
  <2>5. ~Dead("offerer") => loops + 1 <= Tries
    BY <2>2, <2>3, <2>4 DEF Dead
  <2> QED BY <1>1, <1>2, <1>3, <2>1, <2>3, <2>4, <2>5
<1> QED BY <1>1, <1>4, <1>5

\* A call that takes a message asks for the next one of the other side.
LEMMA WantsNext ==
  ASSUME GuestAssumption, PosInv, NEW g, NEW t, AtCall(g, t), NEW st, st = Current(g, t), Takes(st)
  PROVE  st.want = Message(Other(st.at), Rec(st.at) + 1)
<1>1. CASE AsPeer(g, t, st)
  <2>1. /\ test \in TwoPeer /\ g \in Sides /\ K(g) \in 1..4 /\ g \in Guests
        /\ PeerCall(g, K(g), t, pos[g].ix[t], st)
        /\ I(g) \in Nat /\ J(g) \in Nat /\ Msgs \in Nat
    BY <1>1, PubFacts, Values DEF AsPeer, AtCall, PosInv, I, J, Threads
  <2>2. K(g) \in {2, 3}
    BY <2>1 DEF PeerCall, HandshakeCall, Is, Takes
  <2>3. CASE K(g) = 2
    <3>1. ExchangeCall(g, t, pos[g].ix[t], st)
      BY <2>1, <2>3 DEF PeerCall
    <3>2. Rec(g) = IF test = "sequence" THEN J(g) - 1 ELSE Larger(0, I(g) - 1 - Msgs)
      BY <2>1, <2>3 DEF Rec, RecAsPeer
    <3>3. CASE test # "sequence"
      <4>1. st.at = g /\ I(g) \in (Msgs + 1)..(2 * Msgs) /\ st.want = I(g) - Msgs
        BY <2>1, <3>1, <3>3 DEF ExchangeCall, Sends, Receives, Is, Takes, I
      <4>2. Rec(g) + 1 = I(g) - Msgs /\ I(g) - Msgs <= Msgs
        BY <2>1, <3>2, <3>3, <4>1 DEF Larger
      <4> QED BY <2>1, <4>1, <4>2 DEF Message
    <3>4. CASE test = "sequence"
      <4>1. st.at = g /\ J(g) \in 1..Msgs /\ st.want = J(g)
        BY <2>1, <3>1, <3>4 DEF ExchangeCall, Sends, Receives, Is, Takes, J
      <4>2. Rec(g) + 1 = J(g)
        BY <2>1, <3>2, <3>4, <4>1
      <4> QED BY <2>1, <4>1, <4>2 DEF Message
    <3> QED BY <3>3, <3>4
  <2>4. CASE K(g) = 3
    <3>1. BarrierCall(g, t, st)
      BY <2>1, <2>4 DEF PeerCall
    <3>2. st.at = g /\ st.want = Sentinel /\ t = 2
      BY <3>1 DEF BarrierCall, Sends, Receives, Is, Takes
    <3>3. J(g) = 1
      <4>1. pos[g].ix[2] \in 1..1
        BY <1>1, <2>4, <3>2 DEF AsPeer, PeerSize
      <4> QED BY <4>1 DEF J
    <3>4. Rec(g) + 1 = Msgs + 1
      BY <2>1, <2>4, <3>3 DEF Rec, RecAsPeer
    <3> QED BY <2>1, <3>2, <3>4 DEF Message
  <2> QED BY <2>2, <2>3, <2>4
<1>2. CASE AsBoth(g, t, st)
  <2>1. /\ test \notin TwoPeer /\ InprocCall(K(B), t, pos[B].ix[t], st) /\ K(B) \in 1..StageCount /\ StageCount \in Nat
        /\ pos[B].ix[t] \in 1..InprocSize(K(B), t) /\ t \in {1, 2} /\ B \in Guests /\ test \in InProcess
    BY <1>2, AtPlace DEF AsBoth, AtCall
  <2>2. I(B) \in Nat /\ J(B) \in Nat /\ K(B) \in Nat
    BY <2>1 DEF PosInv, K, I, J, Threads
  <2>3. test \in Connected
    BY <2>1 DEF InprocCall, Is, Takes, Connected
  <2>4. K(B) > 3 /\ K(B) # ClosesAt
    <3>1. CASE K(B) <= 3
      BY <2>1, <2>3, <3>1 DEF InprocCall, ConnectCall, Is, Takes, Connected
    <3>2. CASE K(B) > 3 /\ K(B) = ClosesAt
      BY <2>1, <2>3, <3>2 DEF InprocCall, LastCall, Is, Takes, Connected
    <3> QED BY <2>2, <3>1, <3>2
  <2>5. CASE K(B) = 4
    <3>1. FourthCall(t, pos[B].ix[t], st) /\ pos[B].ix[t] \in 1..FourthSize(t)
      BY <2>1, <2>3, <2>4, <2>5 DEF InprocCall, InprocSize, Connected
    <3>2. test = "round-trip"
      <4>1. CASE test \in {"send-via-stream", "receive-via-stream"}
        BY <3>1, <4>1 DEF FourthCall, Sends, Is, Takes
      <4>2. CASE test \in {"overflow", "error-closed", "post-close-send", "receive-via-stream-once"}
        BY <3>1, <4>2 DEF FourthCall, Receives, Is, Takes
      <4> QED BY <2>3, <4>1, <4>2 DEF Connected, InProcess
    <3>3. /\ Rec("offerer") = I(B) - Smaller(2, I(B)) /\ Rec("answerer") = Smaller(1, J(B) - 1)
          /\ \A i : Message("offerer", i) = i /\ Message("answerer", i) = 2
      BY <2>1, <2>5, <3>2 DEF Rec, Message
    <3>4. CASE t = 1
      <4>1. FourthCall(1, I(B), st)
        BY <3>1, <3>4 DEF I
      <4>2. st.at = "offerer" /\ st.want = 2
        BY <3>2, <4>1 DEF FourthCall, Sends, Receives, Is, Takes
      <4> QED BY <3>3, <4>2 DEF Other
    <3>5. CASE t = 2
      <4>1. FourthCall(2, J(B), st)
        BY <3>1, <3>5 DEF J
      <4>2. st.at = "answerer" /\ st.want = 1 /\ J(B) = 1
        BY <3>2, <4>1 DEF FourthCall, Sends, Receives, Is, Takes
      <4>3. Rec("answerer") = 0
        BY <3>3, <4>2 DEF Smaller
      <4> QED BY <3>3, <4>2, <4>3 DEF Other
    <3> QED BY <2>1, <3>4, <3>5
  <2>6. CASE K(B) # 4
    <3>1. K(B) = 5 /\ test \in {"send-via-stream", "receive-via-stream", "receive-via-stream-once"}
      BY <2>1, <2>3, <2>4, <2>6 DEF Connected, InProcess, TwoPeer, StageCount, ClosesAt
    <3>2. FifthCall(pos[B].ix[t], st) /\ pos[B].ix[t] \in 1..FifthSize(t)
      BY <2>1, <2>4, <3>1 DEF InprocCall, InprocSize
    <3>3. t = 1
      BY <2>1, <3>2 DEF FifthSize
    <3>4. FifthCall(I(B), st)
      BY <3>2, <3>3 DEF I
    <3>5. \A i : Message("offerer", i) = i
      BY <2>1 DEF Message
    <3>6. CASE test = "send-via-stream"
      <4>1. st.at = "answerer" /\ st.want = I(B)
        BY <3>4, <3>6 DEF FifthCall, Receives, Is
      <4>2. Rec("answerer") = I(B) - 1
        BY <2>1, <3>1, <3>6 DEF Rec
      <4>3. Rec("answerer") + 1 = I(B)
        BY <2>2, <4>2
      <4> QED BY <3>5, <4>1, <4>3 DEF Other
    <3>7. CASE test = "receive-via-stream"
      <4>1. st.at = "answerer" /\ st.want = I(B) - 1 /\ I(B) > 1
        BY <3>4, <3>7 DEF FifthCall, Is, Takes
      <4>2. Rec("answerer") = I(B) - Smaller(2, I(B))
        BY <2>1, <3>1, <3>7 DEF Rec
      <4>3. Rec("answerer") + 1 = I(B) - 1
        BY <2>2, <4>1, <4>2 DEF Smaller
      <4> QED BY <3>5, <4>1, <4>3 DEF Other
    <3>8. CASE test = "receive-via-stream-once"
      BY <3>4, <3>8 DEF FifthCall, Receives, Is, Takes
    <3> QED BY <3>1, <3>6, <3>7, <3>8
  <2> QED BY <2>5, <2>6
<1> QED BY <1>1, <1>2, AtPlace

\* The message a side takes is the next one the other sent.
LEMMA HeadIsNext ==
  ASSUME GuestAssumption, Always, NEW s \in Sides, Flow(s), chan[s].inbox # <<>>
  PROVE  /\ Head(chan[s].inbox) = Message(Other(s), Rec(s) + 1) /\ Rec(s) + 1 <= Sent(Other(s))
         /\ Len(chan[s].inbox) \in Nat /\ Len(chan[s].inbox) > 0
<1> DEFINE q == chan[s].inbox
<1>1. q \in Seq(Nat)
  BY DEF Always, HostInv, Chans
<1>2. Len(q) \in Nat /\ Len(q) >= 1 /\ Head(q) = q[1]
  BY <1>1
<1>3. Rec(s) + Len(q) <= Sent(Other(s)) /\ \A i \in 1..Len(q) : q[i] = Message(Other(s), Rec(s) + i)
  BY DEF Flow
<1>4. q[1] = Message(Other(s), Rec(s) + 1)
  <2>1. 1 \in 1..Len(q)
    BY <1>2
  <2> QED BY <1>3, <2>1
<1>5. Rec(s) \in Nat /\ Sent(Other(s)) \in Nat
  BY NumbersNat DEF Always, Other, Sides
<1> HIDE DEF q
<1>6. Rec(s) + 1 <= Sent(Other(s))
  BY <1>2, <1>3, <1>5
<1> QED BY <1>2, <1>4, <1>6 DEF q

\* The tests that expect no message get none.
LEMMA NothingSent ==
  ASSUME GuestAssumption, Always, NEW s \in Sides, test \in {"overflow", "error-closed", "receive-via-stream-once"}, Flow(s)
  PROVE  chan[s].inbox = <<>>
<1>1. Other(s) \in Sides /\ test \notin TwoPeer
  BY DEF Other, Sides, TwoPeer
<1>2. Sent(Other(s)) = 0
  BY <1>1 DEF Sent
<1>3. CASE chan[s].inbox # <<>>
  <2>1. Rec(s) + 1 <= 0 /\ Rec(s) \in Nat
    BY <1>2, <1>3, HeadIsNext, NumbersNat DEF Always
  <2> QED BY <2>1
<1> QED BY <1>3

\* A receive gets the message it wants, the error it wants, or skips a message of the flood.
LEMMA ReceiveGoes ==
  ASSUME GuestAssumption, Always, Good, NEW g, NEW t, AtCall(g, t), NEW st, st = Current(g, t), ReceiveCall(g, t, st)
  PROVE  LET s == st.at IN
         /\ s \in Sides
         /\ \/ Goes(g, t) /\ UNCHANGED chan /\ ~Takes(st)
            \/ /\ Goes(g, t) /\ UNCHANGED chan /\ Takes(st)
               /\ chan[s].inbox = <<>> /\ chan[s].closed /\ Rec(s) + 1 <= Sent(Other(s))
            \/ Goes(g, t) /\ Takes(st) /\ chan[s].inbox # <<>> /\ chan' = [chan EXCEPT ![s].inbox = Tail(@)]
            \/ /\ Stays /\ test = "overflow" /\ s = "answerer"
               /\ chan[s].inbox # <<>> /\ chan' = [chan EXCEPT ![s].inbox = Tail(@)]
<1> DEFINE s == st.at
           c == chan[s]
<1>1. s \in Sides /\ g \in Guests /\ st.op = "receive" /\ (test \in TwoPeer => s = g)
  BY ConnectPlaces DEF Always, AtCall, ReceiveCall
<1>2. Takes(st) <=> st.want # Nothing
  BY <1>1 DEF Takes
<1>3. /\ Claims(s) => "claimed" \in st.errs
      /\ \/ "closed" \in st.errs
         \/ test \in TwoPeer /\ K(g) = 2
         \/ test = "overflow" /\ s = "answerer"
         \/ test \in {"round-trip", "send-via-stream", "receive-via-stream-once"} /\ K(B) < ClosesAt
      /\ test = "overflow" =>
           /\ "overflow" \in st.errs /\ st.want = Nothing
           /\ s = "answerer" => st.skip
      /\ st.want = Nothing => test \in {"overflow", "error-closed", "receive-via-stream-once"}
      /\ Claims(s) => st.want = Nothing
      /\ "closed" \in st.errs /\ st.want # Nothing => test \in TwoPeer /\ K(g) = 3 /\ J(g) = 1
  BY <1>1, ReceivePlaces DEF Always
<1>4. c.claimed <=> Claims(s)
  BY <1>1 DEF Good, ClaimInv
<1>5. Flow(s) \/ (test = "overflow" /\ s = "answerer")
  BY <1>1 DEF Good, FlowInv
<1>6. CASE c.claimed /\ Answers(g, t, "claimed" \in st.errs) /\ UNCHANGED chan
  BY <1>1, <1>2, <1>3, <1>4, <1>6 DEF Answers
<1>7. CASE /\ ~c.claimed /\ c.inbox # <<>> /\ chan' = [chan EXCEPT ![s].inbox = Tail(@)]
           /\ IF Head(c.inbox) # st.want /\ st.skip THEN Stays ELSE Answers(g, t, Head(c.inbox) = st.want)
  <2>1. CASE test = "overflow" /\ s = "answerer"
    <3>1. \A i \in 1..Len(c.inbox) : c.inbox[i] = Filler
      BY <2>1 DEF Good, SpecialInv
    <3>2. c.inbox \in Seq(Nat)
      BY <1>1 DEF Always, HostInv, Chans
    <3>3. Head(c.inbox) = Filler
      <4> DEFINE q == c.inbox
      <4>1. q \in Seq(Nat) /\ q # <<>> /\ \A i \in 1..Len(q) : q[i] = Filler
        BY <1>7, <3>1, <3>2
      <4> HIDE DEF q
      <4>2. 1 \in 1..Len(q) /\ Head(q) = q[1]
        BY <4>1
      <4>3. Head(q) = Filler
        BY <4>1, <4>2
      <4> QED BY <4>3 DEF q
    <3>4. st.want = Nothing /\ Filler # Nothing /\ st.skip
      BY <1>3, <2>1, Values
    <3>5. Stays
      BY <1>7, <3>3, <3>4
    <3> QED BY <1>1, <1>7, <2>1, <3>5
  <2>2. CASE ~(test = "overflow" /\ s = "answerer")
    <3>1. Flow(s)
      BY <1>5, <2>2
    <3>2. st.want # Nothing
      BY <1>1, <1>3, <1>7, <3>1, NothingSent
    <3>3. Head(c.inbox) = Message(Other(s), Rec(s) + 1) /\ ~c.over
      BY <1>1, <1>7, <3>1, HeadIsNext DEF Flow
    <3>4. st.want = Head(c.inbox)
      BY <1>2, <3>2, <3>3, WantsNext DEF Always
    <3>5. Goes(g, t)
      BY <1>7, <3>4 DEF Answers
    <3> QED BY <1>1, <1>2, <1>7, <3>2, <3>5
  <2> QED BY <2>1, <2>2
<1>8. CASE /\ ~c.claimed /\ c.inbox = <<>> /\ (c.over \/ Dead(s))
           /\ Answers(g, t, (IF c.over THEN "overflow" ELSE "closed") \in st.errs) /\ UNCHANGED chan
  <2>1. CASE c.over
    <3>1. test = "overflow"
      BY <1>5, <2>1 DEF Flow
    <3>2. Goes(g, t) /\ st.want = Nothing
      BY <1>3, <1>8, <2>1, <3>1 DEF Answers
    <3> QED BY <1>1, <1>2, <1>8, <3>2
  <2>2. CASE ~c.over
    <3>1. Dead(s) /\ c.closed
      BY <1>8, <2>2 DEF Dead
    <3>2. Ended
      BY <1>1, <3>1, NotEndedFacts
    <3>3. ~(test \in TwoPeer /\ K(g) = 2)
      <4>1. test \in TwoPeer => g \in Sides
        BY <1>1 DEF Guests
      <4> QED BY <3>2, <4>1, PeerNotEnded
    <3>4. ~(test = "overflow" /\ s = "answerer")
      <4>1. test = "overflow" /\ s = "answerer" => K(B) = 4
        BY <1>1, ReceivePlaces DEF Always
      <4>2. test = "overflow" => (chan["answerer"].over \/ K(B) = 5)
        BY <3>2 DEF Ended, TwoPeer
      <4> QED BY <2>2, <4>1, <4>2
    <3>5. ~(test \in {"round-trip", "send-via-stream", "receive-via-stream-once"} /\ K(B) < ClosesAt)
      BY <3>2, InprocNotEnded DEF InProcess
    <3>6. "closed" \in st.errs /\ Goes(g, t)
      BY <1>3, <1>8, <2>2, <3>3, <3>4, <3>5 DEF Answers
    <3>7. CASE ~Takes(st)
      BY <1>1, <1>8, <3>6, <3>7
    <3>8. CASE Takes(st)
      <4>1. test \in TwoPeer /\ K(g) = 3 /\ J(g) = 1 /\ g \in Sides
        BY <1>1, <1>2, <1>3, <3>6, <3>8 DEF Guests
      <4>2. Sent(Other(g)) = Msgs + 1
        BY <3>2, <4>1, PeerNotEnded
      <4>3. Rec(g) + 1 = Msgs + 1 /\ Msgs \in Nat
        BY <4>1, Values DEF Rec, RecAsPeer
      <4>4. Rec(s) + 1 <= Sent(Other(s))
        BY <1>1, <4>1, <4>2, <4>3
      <4> QED BY <1>1, <1>8, <3>1, <3>6, <3>8, <4>4
    <3> QED BY <3>7, <3>8
  <2> QED BY <2>1, <2>2
<1> QED BY <1>1, <1>6, <1>7, <1>8 DEF ReceiveCall

\* The stream is claimed once and gives the messages it is read for.
LEMMA StreamGoes ==
  ASSUME GuestAssumption, Always, Good, NEW g, NEW t, AtCall(g, t), NEW st, st = Current(g, t), StreamCall(g, t, st)
  PROVE  /\ st.at = "answerer" /\ Goes(g, t)
         /\ \/ st.op = "claim" /\ chan' = [chan EXCEPT ![st.at].claimed = TRUE]
            \/ st.op = "claim-fails" /\ UNCHANGED chan
            \/ /\ st.op = "read" /\ Takes(st) /\ chan[st.at].inbox # <<>>
               /\ chan' = [chan EXCEPT ![st.at].inbox = Tail(@)]
<1> DEFINE s == st.at
           c == chan[s]
<1>1. s = "answerer" /\ s \in Sides
  BY CallPlaces DEF Always, StreamCall, Sides
<1>2. c.claimed <=> Claims(s)
  BY <1>1 DEF Good, ClaimInv
<1>3. CASE st.op = "claim" /\ Answers(g, t, ~c.claimed) /\ chan' = [chan EXCEPT ![s].claimed = TRUE]
  <2>1. ~Claims(s)
    <3>1. /\ test = "receive-via-stream" \/ test = "receive-via-stream-once"
          /\ test = "receive-via-stream" => K(B) = 5 /\ I(B) = 1
          /\ test = "receive-via-stream-once" => K(B) = 4 /\ J(B) = 1
      BY <1>3, CallPlaces DEF Always
    <3> QED BY <3>1 DEF Claims
  <2> QED BY <1>1, <1>2, <1>3, <2>1 DEF Answers
<1>4. CASE st.op = "claim-fails" /\ Answers(g, t, c.claimed) /\ UNCHANGED chan
  <2>1. Claims(s)
    <3>1. test = "receive-via-stream-once" /\ K(B) = 5
      BY <1>4, CallPlaces DEF Always
    <3> QED BY <1>1, <3>1 DEF Claims
  <2> QED BY <1>1, <1>2, <1>4, <2>1 DEF Answers
<1>5. ASSUME st.op = "read"
      PROVE  test = "receive-via-stream" /\ K(B) = 5 /\ Takes(st) /\ Flow(s)
  <2>1. test = "receive-via-stream" /\ K(B) = 5 /\ st.want # Nothing
    BY <1>5, CallPlaces DEF Always
  <2> QED BY <1>1, <1>5, <2>1 DEF Takes, Good, FlowInv
<1>6. CASE /\ st.op = "read" /\ c.inbox # <<>> /\ chan' = [chan EXCEPT ![s].inbox = Tail(@)]
           /\ Answers(g, t, Head(c.inbox) = st.want)
  <2>1. Head(c.inbox) = st.want
    BY <1>1, <1>5, <1>6, HeadIsNext, WantsNext DEF Always
  <2> QED BY <1>1, <1>5, <1>6, <2>1 DEF Answers
<1>7. CASE st.op = "read" /\ Dead(s)
  <2>1. ~Ended
    BY <1>5, <1>7, InprocNotEnded DEF InProcess
  <2> QED BY <1>1, <1>7, <2>1, NotEndedFacts
<1> QED BY <1>3, <1>4, <1>6, <1>7 DEF StreamCall

-----------------------------------------------------------------------------
(* What the steps do to the messages between the two sides *)

FlowTypes(s) ==
  /\ Rec(s) \in Nat /\ Sent(Other(s)) \in Nat
  /\ chan[s].inbox \in Seq(Nat) /\ wire[s] \in Seq(Nat)
  /\ Len(chan[s].inbox) \in Nat /\ Len(wire[s]) \in Nat

\* The terms the arithmetic of the messages is about are numbers and sequences.
LEMMA FlowTyped ==
  ASSUME GuestAssumption, Always, NEW s \in Sides
  PROVE  FlowTypes(s) /\ Other(s) \in Sides
<1>1. Rec(s) \in Nat /\ Sent(Other(s)) \in Nat /\ Other(s) \in Sides
  BY NumbersNat DEF Always, Other, Sides
<1>2. chan[s].inbox \in Seq(Nat) /\ wire[s] \in Seq(Nat)
  BY DEF Always, HostInv, Chans
<1>3. Len(chan[s].inbox) \in Nat /\ Len(wire[s]) \in Nat
  BY <1>2
<1> QED BY <1>1, <1>2, <1>3 DEF FlowTypes

\* The messages of a side are those of the test.
LEMMA MessageKept ==
  ASSUME test' = test
  PROVE  \A s, i : Message(s, i)' = Message(s, i)
BY TestKept DEF Message

\* A step that leaves the counts and the buffer alone; a close may lose what is under way.
LEMMA FlowSame ==
  ASSUME NEW s, Flow(s), test' = test, Rec(s)' = Rec(s), Sent(Other(s))' = Sent(Other(s)),
         chan'[s].inbox = chan[s].inbox, chan'[s].over = chan[s].over, chan[s].closed => chan'[s].closed,
         chan'[s].closed \/ wire'[s] = wire[s]
  PROVE  Flow(s)'
BY MessageKept DEF Flow

\* The other side sends: to a side that is closed, nothing arrives.
LEMMA FlowSent ==
  ASSUME NEW s, Flow(s), FlowTypes(s), test' = test, Rec(s)' = Rec(s), Sent(Other(s))' = Sent(Other(s)) + 1,
         chan'[s].inbox = chan[s].inbox, chan'[s].over = chan[s].over, chan'[s].closed = chan[s].closed,
         chan[s].closed \/ wire'[s] = Append(wire[s], Message(Other(s), Sent(Other(s)) + 1))
  PROVE  Flow(s)'
<1> DEFINE o == Other(s)
           q == chan[s].inbox
           w == wire[s]
           r == Rec(s)
           n == Sent(o)
<1>1. r \in Nat /\ n \in Nat /\ q \in Seq(Nat) /\ w \in Seq(Nat) /\ Len(q) \in Nat /\ Len(w) \in Nat
  BY DEF FlowTypes
<1>2. /\ r + Len(q) <= n /\ ~chan[s].over /\ \A i \in 1..Len(q) : q[i] = Message(o, r + i)
      /\ ~chan[s].closed => r + Len(q) + Len(w) = n /\ \A i \in 1..Len(w) : w[i] = Message(o, r + Len(q) + i)
  BY DEF Flow
<1>3. \A i : Message(o, i)' = Message(o, i)
  BY MessageKept
<1>4. chan'[s].inbox = q /\ Rec(s)' = r /\ Sent(o)' = n + 1
  OBVIOUS
<1>5. CASE chan[s].closed
  <2>1. r + Len(q) <= n + 1
    <3> HIDE DEF r, q, n
    <3> QED BY <1>1, <1>2
  <2> QED BY <1>2, <1>3, <1>4, <1>5, <2>1 DEF Flow
<1>6. CASE ~chan[s].closed
  <2> DEFINE v == Append(w, Message(o, n + 1))
  <2>1. wire'[s] = v
    BY <1>6
  <2> HIDE DEF r, q, n, w, o
  <2>2. r + Len(q) <= n + 1 /\ r + Len(q) + Len(w) = n
    BY <1>1, <1>2, <1>6
  <2>3. Len(v) = Len(w) + 1 /\ Len(v) \in Nat /\ v[Len(w) + 1] = Message(o, n + 1) /\ \A i \in 1..Len(w) : v[i] = w[i]
    BY <1>1
  <2>4. r + Len(q) + Len(v) = n + 1
    BY <1>1, <2>2, <2>3
  <2>5. ASSUME NEW i \in 1..Len(v) PROVE v[i] = Message(o, r + Len(q) + i)
    <3>1. CASE i \in 1..Len(w)
      BY <1>2, <1>6, <2>3, <3>1
    <3>2. CASE i \notin 1..Len(w)
      <4>0. Len(v) = Len(w) + 1 /\ Len(w) \in Nat /\ r \in Nat /\ n \in Nat /\ Len(q) \in Nat
        BY <1>1, <2>3
      <4>1. i = Len(w) + 1 /\ r + Len(q) + i = n + 1
        BY <2>2, <3>2, <4>0
      <4> QED BY <2>3, <4>1
    <3> QED BY <3>1, <3>2
  <2> HIDE DEF v
  <2> QED BY <1>2, <1>3, <1>4, <2>1, <2>2, <2>4, <2>5 DEF Flow, o
<1> QED BY <1>5, <1>6

\* The side takes the first message that arrived.
LEMMA FlowTaken ==
  ASSUME NEW s, Flow(s), FlowTypes(s), test' = test, Rec(s)' = Rec(s) + 1, Sent(Other(s))' = Sent(Other(s)),
         chan[s].inbox # <<>>, chan'[s].inbox = Tail(chan[s].inbox),
         chan'[s].over = chan[s].over, chan'[s].closed = chan[s].closed, wire'[s] = wire[s]
  PROVE  Flow(s)'
<1> DEFINE o == Other(s)
           q == chan[s].inbox
           v == Tail(q)
           w == wire[s]
           r == Rec(s)
           n == Sent(o)
<1>1. r \in Nat /\ n \in Nat /\ q \in Seq(Nat) /\ w \in Seq(Nat) /\ Len(q) \in Nat /\ Len(w) \in Nat
  BY DEF FlowTypes
<1>2. /\ r + Len(q) <= n /\ ~chan[s].over /\ \A i \in 1..Len(q) : q[i] = Message(o, r + i)
      /\ ~chan[s].closed => r + Len(q) + Len(w) = n /\ \A i \in 1..Len(w) : w[i] = Message(o, r + Len(q) + i)
  BY DEF Flow
<1>3. \A i : Message(o, i)' = Message(o, i)
  BY MessageKept
<1>4. chan'[s].inbox = v /\ Rec(s)' = r + 1 /\ Sent(o)' = n /\ q # <<>> /\ wire'[s] = w
  OBVIOUS
<1> HIDE DEF r, q, n, w, o
<1>5. v \in Seq(Nat) /\ Len(v) = Len(q) - 1 /\ \A i \in 1..Len(v) : v[i] = q[i + 1]
  BY <1>1, <1>4
<1> HIDE DEF v
<1>6. r + 1 + Len(v) = r + Len(q) /\ Len(v) \in Nat
  BY <1>1, <1>5
<1>7. ASSUME NEW i \in 1..Len(v) PROVE v[i] = Message(o, r + 1 + i)
  <2>1. i + 1 \in 1..Len(q) /\ r + (i + 1) = r + 1 + i
    BY <1>1, <1>5
  <2> QED BY <1>2, <1>5, <2>1
<1>8. ~chan[s].closed => r + 1 + Len(v) + Len(w) = n /\ \A i \in 1..Len(w) : w[i] = Message(o, r + 1 + Len(v) + i)
  BY <1>2, <1>6
<1>9. r + 1 + Len(v) <= n
  BY <1>2, <1>6
<1>10. \A i \in 1..Len(v) : v[i] = Message(o, (r + 1) + i)
  BY <1>7
<1>11. ~chan'[s].over /\ (chan'[s].closed <=> chan[s].closed)
  BY <1>2
<1> DEFINE r1 == r + 1
<1> HIDE DEF r1
<1>12. /\ \A i \in 1..Len(v) : v[i] = Message(o, r1 + i)
       /\ ~chan'[s].closed => r1 + Len(v) + Len(w) = n /\ \A i \in 1..Len(w) : w[i] = Message(o, r1 + Len(v) + i)
       /\ r1 + Len(v) <= n /\ Rec(s)' = r1
  BY <1>4, <1>8, <1>9, <1>10, <1>11 DEF r1
<1> QED BY <1>3, <1>4, <1>11, <1>12 DEF Flow, o

\* The side goes on without the message: the other is done, and closed.
LEMMA FlowMissed ==
  ASSUME NEW s, Flow(s), FlowTypes(s), test' = test, Rec(s)' = Rec(s) + 1, Sent(Other(s))' = Sent(Other(s)),
         chan[s].inbox = <<>>, chan[s].closed, Rec(s) + 1 <= Sent(Other(s)), chan'[s] = chan[s]
  PROVE  Flow(s)'
<1>1. Len(chan'[s].inbox) = 0 /\ Rec(s) + 1 + 0 <= Sent(Other(s)) /\ chan'[s].closed /\ ~chan'[s].over
  BY DEF Flow, FlowTypes
<1> QED BY <1>1 DEF Flow

\* A message arrives.
LEMMA FlowDelivered ==
  ASSUME NEW s, Flow(s), FlowTypes(s), test' = test, Rec(s)' = Rec(s), Sent(Other(s))' = Sent(Other(s)),
         ~chan[s].closed, wire[s] # <<>>, chan'[s].inbox = Append(chan[s].inbox, Head(wire[s])), wire'[s] = Tail(wire[s]),
         chan'[s].over = chan[s].over
  PROVE  Flow(s)'
<1> DEFINE o == Other(s)
           q == chan[s].inbox
           w == wire[s]
           x == Tail(w)
           v == Append(q, Head(w))
           r == Rec(s)
           n == Sent(o)
<1>1. r \in Nat /\ n \in Nat /\ q \in Seq(Nat) /\ w \in Seq(Nat) /\ Len(q) \in Nat /\ Len(w) \in Nat
  BY DEF FlowTypes
<1>2. /\ r + Len(q) <= n /\ ~chan[s].over /\ \A i \in 1..Len(q) : q[i] = Message(o, r + i)
      /\ r + Len(q) + Len(w) = n /\ \A i \in 1..Len(w) : w[i] = Message(o, r + Len(q) + i)
  BY DEF Flow
<1>3. \A i : Message(o, i)' = Message(o, i)
  BY MessageKept
<1>4. chan'[s].inbox = v /\ Rec(s)' = r /\ Sent(o)' = n /\ w # <<>> /\ wire'[s] = x /\ ~chan'[s].over
  BY <1>2
<1> HIDE DEF r, q, n, w, o
<1>5. Len(w) >= 1 /\ Head(w) = w[1] /\ x \in Seq(Nat) /\ Len(x) \in Nat /\ Len(x) = Len(w) - 1 /\ \A i \in 1..Len(x) : x[i] = w[i + 1]
  BY <1>1, <1>4
<1>6. Len(v) = Len(q) + 1 /\ Len(v) \in Nat /\ v[Len(q) + 1] = w[1] /\ \A i \in 1..Len(q) : v[i] = q[i]
  BY <1>1, <1>5
<1> HIDE DEF v, x
<1>7. r + Len(v) <= n /\ r + Len(v) + Len(x) = n
  <2>1. /\ Len(v) = Len(q) + 1 /\ Len(x) = Len(w) - 1 /\ Len(w) >= 1 /\ r + Len(q) + Len(w) = n
        /\ Len(v) \in Nat /\ Len(x) \in Nat /\ Len(q) \in Nat /\ Len(w) \in Nat /\ r \in Nat /\ n \in Nat
    BY <1>1, <1>2, <1>5, <1>6
  <2> DEFINE lq == Len(q)  lw == Len(w)  lv == Len(v)  lx == Len(x)
  <2>2. /\ lv = lq + 1 /\ lx = lw - 1 /\ lw >= 1 /\ r + lq + lw = n
        /\ lv \in Nat /\ lx \in Nat /\ lq \in Nat /\ lw \in Nat /\ r \in Nat /\ n \in Nat
    BY <2>1
  <2> HIDE DEF lq, lw, lv, lx
  <2>3. r + lv <= n /\ r + lv + lx = n
    BY <2>2
  <2> QED BY <2>3 DEF lv, lx
<1>8. ASSUME NEW i \in 1..Len(v) PROVE v[i] = Message(o, r + i)
  <2>1. CASE i \in 1..Len(q)
    BY <1>2, <1>6, <2>1
  <2>2. CASE i \notin 1..Len(q)
    <3>1. i = Len(q) + 1 /\ 1 \in 1..Len(w) /\ r + Len(q) + 1 = r + i
      BY <1>1, <1>5, <1>6, <2>2
    <3>2. w[1] = Message(o, r + Len(q) + 1)
      BY <1>2, <3>1
    <3> QED BY <1>6, <3>1, <3>2
  <2> QED BY <2>1, <2>2
<1>9. ASSUME NEW i \in 1..Len(x) PROVE x[i] = Message(o, r + Len(v) + i)
  <2>1. i + 1 \in 1..Len(w) /\ r + Len(q) + (i + 1) = r + Len(v) + i
    BY <1>1, <1>5, <1>6
  <2> QED BY <1>2, <1>5, <2>1
<1> QED BY <1>2, <1>3, <1>4, <1>7, <1>8, <1>9 DEF Flow, o

-----------------------------------------------------------------------------
(* The calls, without a fault *)

\* A call that neither sends nor takes a message leaves the counts alone.
LEMMA CountsKept ==
  ASSUME GuestAssumption, PosInv, NEW g, NEW t, AtCall(g, t), NEW st, st = Current(g, t),
         Stays \/ (Goes(g, t) /\ st.op # "send" /\ ~Takes(st)), NEW s \in Sides
  PROVE  Sent(s)' = Sent(s) /\ Rec(s)' = Rec(s) /\ test' = test
<1>1. CASE Stays
  <2>1. test' = test /\ pos' = pos
    BY <1>1 DEF Stays
  <2> QED BY <2>1, TestKept DEF Sent, Rec, SentAsPeer, RecAsPeer, K, I, J
<1>2. CASE Goes(g, t) /\ st.op # "send" /\ ~Takes(st)
  BY <1>2, Counted DEF SendsNow, TakesNow, Goes
<1> QED BY <1>1, <1>2

\* What a send that is accepted leaves alone.
LEMMA AcceptedFacts ==
  ASSUME Always, NEW s \in Sides, NEW m, Accepted(s, m)
  PROVE  /\ \A r \in Sides : /\ chan'[r].inbox = chan[r].inbox /\ chan'[r].over = chan[r].over
                             /\ chan'[r].closed = chan[r].closed /\ chan'[r].claimed = chan[r].claimed
         /\ \A r \in Sides : r # Other(s) \/ chan[s].closed => wire'[r] = wire[r]
         /\ ~chan[s].closed /\ ~chan[Other(s)].closed => wire'[Other(s)] = Append(wire[Other(s)], m)
         /\ wire'[Other(s)] = wire[Other(s)] \/ wire'[Other(s)] = Append(wire[Other(s)], m)
<1>1. chan \in [Sides -> Chans] /\ wire \in [Sides -> Seq(Nat)] /\ Other(s) \in Sides
  BY DEF Always, HostInv, Other, Sides
<1>2. CASE chan[s].closed
  <2> DEFINE d == [chan[s] EXCEPT !.lag = @ - 1]
  <2>1. chan' = [chan EXCEPT ![s] = d] /\ wire' = wire
    BY <1>2 DEF Accepted
  <2>2. /\ d.inbox = chan[s].inbox /\ d.over = chan[s].over
        /\ d.closed = chan[s].closed /\ d.claimed = chan[s].claimed
    BY <1>1 DEF Chans
  <2> HIDE DEF d
  <2> QED BY <1>1, <1>2, <2>1, <2>2
<1>3. CASE ~chan[s].closed
  BY <1>1, <1>3 DEF Accepted
<1> QED BY <1>2, <1>3

\* Every call keeps the messages of a side in order and complete.
LEMMA FlowCall ==
  ASSUME GuestAssumption, Always, Good, NEW g, NEW t, AtCall(g, t), NEW st, st = Current(g, t), ACall(g, t, st),
         NEW s \in Sides, ~(test = "overflow" /\ s = "answerer")
  PROVE  Flow(s)'
<1> DEFINE a == st.at
<1>1. a \in Sides /\ Other(a) \in Sides /\ Other(s) \in Sides /\ Other(Other(s)) = s /\ Other(s) # s
  BY ConnectPlaces DEF Always, Other, Sides
<1>2. Flow(s) /\ FlowTypes(s)
  BY FlowTyped DEF Good, FlowInv
<1>t. chan \in [Sides -> Chans] /\ wire \in [Sides -> Seq(Nat)] /\ PosInv
  BY DEF Always, HostInv
<1> HIDE DEF a
<1>3. ASSUME Stays \/ (Goes(g, t) /\ st.op # "send" /\ ~Takes(st)), UNCHANGED <<chan, wire>>
      PROVE  Flow(s)'
  BY <1>1, <1>2, <1>3, <1>t, CountsKept, FlowSame
<1>4. CASE Describe(g, t, st)
  BY <1>3, <1>4 DEF Describe, Takes
<1>5. CASE PublishOrDone(g, t, st)
  BY <1>3, <1>5 DEF PublishOrDone, Takes, hostVars
<1>6. CASE RecvOffer(g, t, st)
  BY <1>3, <1>6, RecvOfferGoes DEF RecvOffer, Takes
<1>7. CASE ConsumeSignaling(g, t, st)
  BY <1>3, <1>7, ConsumeGoes DEF ConsumeSignaling, Takes
<1>8. CASE WaitConnected(g, t, st)
  <2>1. Goes(g, t)
    BY <1>8, WaitGoes
  <2> QED BY <1>3, <1>8, <2>1 DEF WaitConnected, Takes, hostVars
<1>9. CASE FirstIncoming(g, t, st)
  <2>1. Goes(g, t)
    BY <1>9, WaitGoes
  <2> QED BY <1>3, <1>9, <2>1 DEF FirstIncoming, Takes, hostVars
<1>10. CASE SendCall(g, t, st)
  <2>1. /\ Goes(g, t) /\ st.op = "send"
        /\ \/ Dead(a) /\ UNCHANGED <<chan, wire>>
           \/ Accepted(a, st.msg)
        /\ chan[a].closed => chan[Other(a)].closed
    BY <1>10, SendGoes DEF SendCall, a
  <2>2. /\ \A r \in Sides : Sent(r)' = (IF r = a THEN Sent(r) + 1 ELSE Sent(r)) /\ Rec(r)' = Rec(r)
        /\ st.msg = Message(a, Sent(a) + 1) /\ test' = test
    BY <1>t, <2>1, Counted DEF SendsNow, TakesNow, Takes, Goes, a
  <2>3. \A r \in Sides : chan'[r].inbox = chan[r].inbox /\ chan'[r].over = chan[r].over /\ chan'[r].closed = chan[r].closed
    BY <1>1, <2>1, AcceptedFacts
  <2>4. CASE s = a
    <3>1. wire'[s] = wire[s]
      BY <1>1, <2>1, <2>4, AcceptedFacts
    <3>2. Sent(Other(s))' = Sent(Other(s)) /\ Rec(s)' = Rec(s)
      BY <1>1, <2>2, <2>4
    <3> QED BY <1>2, <2>2, <2>3, <3>1, <3>2, FlowSame
  <2>5. CASE s # a
    <3>1. a = Other(s) /\ s = Other(a)
      BY <1>1, <2>5 DEF Other, Sides
    <3>2. Sent(Other(s))' = Sent(Other(s)) + 1 /\ Rec(s)' = Rec(s)
      BY <1>1, <2>2, <3>1
    <3>3. chan[s].closed \/ wire'[s] = Append(wire[s], Message(Other(s), Sent(Other(s)) + 1))
      <4>1. CASE chan[s].closed
        BY <4>1
      <4>2. CASE ~chan[s].closed
        <5>1. ~chan[a].closed /\ ~Dead(a)
          BY <2>1, <3>1, <4>2 DEF Dead
        <5>2. wire'[Other(a)] = Append(wire[Other(a)], st.msg)
          BY <1>1, <2>1, <3>1, <4>2, <5>1, AcceptedFacts
        <5> QED BY <2>2, <3>1, <5>2
      <4> QED BY <4>1, <4>2
    <3> QED BY <1>2, <2>2, <2>3, <3>2, <3>3, FlowSent
  <2> QED BY <2>4, <2>5
<1>11. CASE SendLoop(g, t, st)
  <2>1. /\ Goes(g, t) \/ Stays
        /\ a = "offerer" /\ st.op # "send" /\ ~Takes(st)
        /\ test = "overflow" \/ (test = "post-close-send" /\ I(B) = 2 /\ K(B) = 4)
        /\ \/ UNCHANGED <<chan, wire>>
           \/ Accepted("offerer", Filler)
    BY <1>11, SendLoopGoes DEF Takes, a
  <2>2. test' = test /\ Rec(s)' = Rec(s) /\ Sent(Other(s))' = Sent(Other(s))
    BY <1>1, <1>t, <2>1, CountsKept
  <2>3. chan'[s].inbox = chan[s].inbox /\ chan'[s].over = chan[s].over /\ chan'[s].closed = chan[s].closed
    BY <1>1, <2>1, AcceptedFacts
  <2>4. wire'[s] = wire[s]
    <3>1. CASE test = "overflow"
      <4>1. s = "offerer" /\ Other("offerer") # s /\ "offerer" \in Sides
        BY <3>1 DEF Sides, Other
      <4> QED BY <2>1, <4>1, AcceptedFacts
    <3>2. CASE test = "post-close-send"
      <4>1. chan["offerer"].closed /\ "offerer" \in Sides
        BY <2>1, <3>2 DEF Good, SpecialInv, Sides
      <4> QED BY <2>1, <4>1, AcceptedFacts
    <3> QED BY <2>1, <3>1, <3>2
  <2> QED BY <1>2, <2>2, <2>3, <2>4, FlowSame
<1>12. CASE ReceiveCall(g, t, st)
  <2>1. wire' = wire /\ st.op = "receive" /\ test' = test
    <3>1. Goes(g, t) \/ Stops(g, t) \/ Stays
      BY <1>12, CallMoves DEF ACall
    <3> QED BY <1>12, <3>1 DEF ReceiveCall, Goes, Stops, Stays
  <2>2. \/ Goes(g, t) /\ UNCHANGED chan /\ ~Takes(st)
        \/ /\ Goes(g, t) /\ UNCHANGED chan /\ Takes(st)
           /\ chan[a].inbox = <<>> /\ chan[a].closed /\ Rec(a) + 1 <= Sent(Other(a))
        \/ Goes(g, t) /\ Takes(st) /\ chan[a].inbox # <<>> /\ chan' = [chan EXCEPT ![a].inbox = Tail(@)]
        \/ /\ Stays /\ test = "overflow" /\ a = "answerer"
           /\ chan[a].inbox # <<>> /\ chan' = [chan EXCEPT ![a].inbox = Tail(@)]
    BY <1>12, ReceiveGoes, SMTT(30) DEF a
  <2>3. CASE Goes(g, t) /\ UNCHANGED chan /\ ~Takes(st)
    BY <1>3, <2>1, <2>3
  <2>4. ASSUME Goes(g, t), Takes(st)
        PROVE  \A r \in Sides : Sent(r)' = Sent(r) /\ Rec(r)' = IF r = a THEN Rec(r) + 1 ELSE Rec(r)
    BY <1>t, <2>1, <2>4, Counted DEF SendsNow, TakesNow, a
  <2>5. CASE /\ Goes(g, t) /\ UNCHANGED chan /\ Takes(st)
             /\ chan[a].inbox = <<>> /\ chan[a].closed /\ Rec(a) + 1 <= Sent(Other(a))
    <3>1. CASE s = a
      BY <1>1, <1>2, <2>1, <2>4, <2>5, <3>1, FlowMissed
    <3>2. CASE s # a
      BY <1>1, <1>2, <2>1, <2>4, <2>5, <3>2, FlowSame
    <3> QED BY <3>1, <3>2
  <2>6. CASE Goes(g, t) /\ Takes(st) /\ chan[a].inbox # <<>> /\ chan' = [chan EXCEPT ![a].inbox = Tail(@)]
    <3>1. CASE s = a
      <4>1. chan'[s].inbox = Tail(chan[s].inbox) /\ chan'[s].over = chan[s].over /\ chan'[s].closed = chan[s].closed
        BY <1>1, <1>t, <2>6, <3>1 DEF Chans
      <4> QED BY <1>1, <1>2, <2>1, <2>4, <2>6, <3>1, <4>1, FlowTaken
    <3>2. CASE s # a
      <4>1. chan'[s] = chan[s]
        BY <1>1, <1>t, <2>6, <3>2
      <4> QED BY <1>1, <1>2, <2>1, <2>4, <2>6, <3>2, <4>1, FlowSame
    <3> QED BY <3>1, <3>2
  <2>7. CASE /\ Stays /\ test = "overflow" /\ a = "answerer"
             /\ chan[a].inbox # <<>> /\ chan' = [chan EXCEPT ![a].inbox = Tail(@)]
    <3>1. s # a
      BY <2>7
    <3>2. chan'[s] = chan[s]
      BY <1>1, <1>t, <2>7, <3>1
    <3>3. Sent(Other(s))' = Sent(Other(s)) /\ Rec(s)' = Rec(s)
      BY <1>1, <1>t, <2>7, CountsKept
    <3> QED BY <1>2, <2>1, <3>2, <3>3, FlowSame
  <2> QED BY <2>2, <2>3, <2>5, <2>6, <2>7
<1>13. CASE StreamCall(g, t, st)
  <2>1. wire' = wire /\ Goes(g, t) /\ test' = test
    BY <1>13, StreamGoes, SMTT(30) DEF StreamCall, Goes
  <2>2. \/ st.op = "claim" /\ chan' = [chan EXCEPT ![a].claimed = TRUE]
        \/ st.op = "claim-fails" /\ UNCHANGED chan
        \/ st.op = "read" /\ Takes(st) /\ chan[a].inbox # <<>> /\ chan' = [chan EXCEPT ![a].inbox = Tail(@)]
    <3>1. \/ st.op = "claim" /\ chan' = [chan EXCEPT ![st.at].claimed = TRUE]
          \/ st.op = "claim-fails" /\ UNCHANGED chan
          \/ st.op = "read" /\ Takes(st) /\ chan[st.at].inbox # <<>> /\ chan' = [chan EXCEPT ![st.at].inbox = Tail(@)]
      BY <1>13, StreamGoes, SMTT(30)
    <3> QED BY <3>1 DEF a
  <2>3. CASE st.op = "claim" /\ chan' = [chan EXCEPT ![a].claimed = TRUE]
    <3>1. Sent(Other(s))' = Sent(Other(s)) /\ Rec(s)' = Rec(s)
      BY <1>1, <1>t, <2>1, <2>3, CountsKept DEF Takes
    <3>2. chan'[s].inbox = chan[s].inbox /\ chan'[s].over = chan[s].over /\ chan'[s].closed = chan[s].closed
      BY <1>1, <1>t, <2>3 DEF Chans
    <3> QED BY <1>2, <2>1, <3>1, <3>2, FlowSame
  <2>4. CASE st.op = "claim-fails" /\ UNCHANGED chan
    BY <1>3, <2>1, <2>4 DEF Takes
  <2>5. CASE st.op = "read" /\ Takes(st) /\ chan[a].inbox # <<>> /\ chan' = [chan EXCEPT ![a].inbox = Tail(@)]
    <3>0. \A r \in Sides : Sent(r)' = Sent(r) /\ Rec(r)' = IF r = a THEN Rec(r) + 1 ELSE Rec(r)
      BY <1>t, <2>1, <2>5, Counted DEF SendsNow, TakesNow, a
    <3>1. CASE s = a
      <4>1. chan'[s].inbox = Tail(chan[s].inbox) /\ chan'[s].over = chan[s].over /\ chan'[s].closed = chan[s].closed
        BY <1>1, <1>t, <2>5, <3>1 DEF Chans
      <4> QED BY <1>1, <1>2, <2>1, <2>5, <3>0, <3>1, <4>1, FlowTaken
    <3>2. CASE s # a
      <4>1. chan'[s] = chan[s]
        BY <1>1, <1>t, <2>5, <3>2
      <4> QED BY <1>1, <1>2, <2>1, <3>0, <3>2, <4>1, FlowSame
    <3> QED BY <3>1, <3>2
  <2> QED BY <2>2, <2>3, <2>4, <2>5
<1>14. CASE Close(g, t, st)
  <2>1. wire' = wire /\ Goes(g, t) /\ st.op = "close"
    BY <1>14 DEF Close
  <2>2. PICK lag \in 0..Lag : chan' = [chan EXCEPT ![a].closed = TRUE, ![a].lag = lag]
    BY <1>14 DEF Close, a
  <2>3. chan'[s].inbox = chan[s].inbox /\ chan'[s].over = chan[s].over /\ (chan[s].closed => chan'[s].closed)
    BY <1>1, <1>t, <2>2 DEF Chans
  <2>4. Sent(Other(s))' = Sent(Other(s)) /\ Rec(s)' = Rec(s) /\ test' = test
    BY <1>1, <1>t, <2>1, CountsKept DEF Takes
  <2> QED BY <1>2, <2>1, <2>3, <2>4, FlowSame
<1> QED BY <1>4, <1>5, <1>6, <1>7, <1>8, <1>9, <1>10, <1>11, <1>12, <1>13, <1>14 DEF ACall

-----------------------------------------------------------------------------
(* The end of a stage, without a fault *)

\* Without a fault the end of a stage changes nothing but the place of its guest.
LEMMA StageKeeps ==
  ASSUME GuestAssumption, PosInv, Good, NEW g \in Guests, NextStage(g)
  PROVE  /\ test' = test /\ UNCHANGED <<loops, hostVars, mailVars>> /\ RunsInv'
         /\ pos' = pos \/ Moves(g)
<1>1. Len(Run(g)) = StageCount
  BY StageTable DEF PosInv
<1>2. ~pos[g].bad /\ \A h \in Guests : ~pos[h].bad /\ verdict[h] # "fail"
  BY DEF Good, RunsInv
<1>3. /\ test' = test /\ UNCHANGED <<loops, hostVars, mailVars>> /\ Guests' = Guests
      /\ \A t \in Threads : Finished(g, t)
      /\ \/ verdict' = [verdict EXCEPT ![g] = "pass"] /\ pos' = pos
         \/ /\ K(g) # StageCount /\ verdict' = verdict
            /\ pos' = [pos EXCEPT ![g] = [stage |-> @.stage + 1, ix |-> <<1, 1>>, bad |-> FALSE]]
  BY <1>1, <1>2, TestKept DEF NextStage, hostVars, K
<1>4. RunsInv'
  <2>1. pos \in [Guests -> [stage : Nat, ix : [Threads -> Nat], bad : BOOLEAN]] /\ verdict \in [Guests -> {"run", "pass", "fail"}]
    BY DEF PosInv
  <2>2. \A h \in Guests : ~pos'[h].bad
    <3>1. CASE pos' = pos
      BY <1>2, <3>1
    <3>2. CASE pos' = [pos EXCEPT ![g] = [stage |-> @.stage + 1, ix |-> <<1, 1>>, bad |-> FALSE]]
      BY <1>2, <2>1, <3>2
    <3> QED BY <1>3, <3>1, <3>2
  <2>3. \A h \in Guests : verdict'[h] # "fail"
    BY <1>2, <1>3, <2>1
  <2> QED BY <1>3, <2>2, <2>3 DEF RunsInv
<1> QED BY <1>3, <1>4 DEF Moves

\* So does the end of a stage.
LEMMA FlowStage ==
  ASSUME GuestAssumption, PosInv, Good, NEW g \in Guests, NextStage(g)
  PROVE  FlowInv'
<1>1. test' = test /\ UNCHANGED hostVars /\ (pos' = pos \/ Moves(g))
  BY StageKeeps
<1>2. ASSUME NEW s \in Sides, Flow(s)
      PROVE  Flow(s)'
  <2>1. Other(s) \in Sides
    BY DEF Other, Sides
  <2>2. Rec(s)' = Rec(s) /\ Sent(Other(s))' = Sent(Other(s))
    <3>1. CASE Moves(g)
      BY <2>1, <3>1, CountedStage DEF Moves
    <3>2. CASE pos' = pos
      BY <1>1, <3>2, TestKept DEF Sent, Rec, SentAsPeer, RecAsPeer, K, I, J
    <3> QED BY <1>1, <3>1, <3>2
  <2> QED BY <1>1, <1>2, <2>2, FlowSame DEF hostVars
<1> QED BY <1>1, <1>2 DEF FlowInv, Good

\* The end of a stage closes nothing.
LEMMA EndStage ==
  ASSUME GuestAssumption, PosInv, Good, NEW g \in Guests, NextStage(g)
  PROVE  EndInv'
<1>1. test' = test /\ peer' = peer /\ chan' = chan /\ (pos' = pos \/ Moves(g))
  BY StageKeeps DEF hostVars
<1>2. /\ Ended => Ended'
      /\ test \in TwoPeer => \A h \in Sides : K(h)' = 4 /\ I(h)' > 1 => K(h) = 4 /\ I(h) > 1
  <2>1. CASE Moves(g)
    BY <1>1, <2>1, EndedStage
  <2>2. CASE pos' = pos
    BY <1>1, <2>2 DEF Ended, K, I
  <2> QED BY <1>1, <2>1, <2>2
<1> QED BY <1>1, <1>2 DEF EndInv, Good, Lost, K, I

\* It claims nothing.
LEMMA ClaimStage ==
  ASSUME GuestAssumption, PosInv, Good, NEW g \in Guests, NextStage(g)
  PROVE  ClaimInv'
<1>1. test' = test /\ chan' = chan /\ (pos' = pos \/ Moves(g))
  BY StageKeeps DEF hostVars
<1>2. ASSUME NEW s \in Sides
      PROVE  Claims(s)' <=> Claims(s)
  <2>1. CASE Moves(g)
    BY <2>1, ClaimsStage DEF Moves
  <2>2. CASE pos' = pos
    BY <1>1, <2>2 DEF Claims, K, I, J
  <2> QED BY <1>1, <2>1, <2>2
<1> QED BY <1>1, <1>2 DEF ClaimInv, Good

\* It keeps what is particular to a test.
LEMMA SpecialStage ==
  ASSUME GuestAssumption, PosInv, Good, NEW g \in Guests, NextStage(g)
  PROVE  SpecialInv'
<1>1. test' = test /\ loops' = loops /\ peer' = peer /\ chan' = chan /\ wire' = wire /\ (pos' = pos \/ Moves(g))
  BY StageKeeps DEF hostVars
<1>2. SpecialInv
  BY DEF Good
<1>3. CASE pos' = pos
  BY <1>1, <1>2, <1>3 DEF SpecialInv, K, I
<1>4. CASE Moves(g) /\ test \in InProcess
  <2>1. g = B /\ K(B) \in Nat
    BY <1>4 DEF Guests, InProcess, TwoPeer, B, PosInv, K
  <2>2. K(B)' = K(B) + 1 /\ I(B)' = 1 /\ K(g) \in 1..StageCount /\ K(g) # StageCount
    BY <1>4, <2>1, StageMoved DEF Moves, PosInv, K
  <2>3. test # "timed-out"
    <3>1. test = "timed-out" => StageCount = 1
      BY DEF StageCount, TwoPeer
    <3> QED BY <2>1, <2>2, <3>1
  <2> QED BY <1>1, <1>2, <2>1, <2>2, <2>3 DEF SpecialInv
<1>5. CASE test \in TwoPeer
  BY <1>1, <1>5 DEF SpecialInv, TwoPeer
<1> QED BY <1>1, <1>3, <1>4, <1>5 DEF PosInv, GuestAssumption

\* It keeps what the sides have exchanged.
LEMMA MetStage ==
  ASSUME GuestAssumption, PosInv, Good, NEW g \in Guests, NextStage(g)
  PROVE  MetInv'
<1>1. test' = test /\ peer' = peer /\ UNCHANGED mailVars /\ (pos' = pos \/ Moves(g))
  BY StageKeeps DEF hostVars
<1> SUFFICES ASSUME test \in TwoPeer PROVE MetInv'
  BY <1>1 DEF MetInv
<1>2. /\ \A s \in Sides : Pub(s)' = Pub(s)
      /\ (K("answerer") = 1 /\ I("answerer") = 1)' <=> K("answerer") = 1 /\ I("answerer") = 1
  <2>1. CASE pos' = pos
    BY <2>1 DEF Pub, K, I
  <2>2. CASE Moves(g)
    <3>1. \A s \in Sides : Pub(s)' = Pub(s) /\ ((K(s) = 1)' => K(s) = 1 /\ I(s)' = I(s))
      BY <2>2, PubStage
    <3>2. /\ I(g) = Size(g, K(g), 1) + 1
          /\ \A h \in Guests : h # g => pos'[h] = pos[h]
      BY <2>2, StageMoved DEF Moves
    <3>3. g \in Sides /\ Guests = Sides /\ "answerer" \in Sides
      BY DEF Guests, Sides
    <3>4. K(g) = 1 => I(g) # 1
      <4>1. K(g) = 1 => Size(g, K(g), 1) = HandshakeSize(g)
        BY DEF Size, PeerSize
      <4> QED BY <3>2, <4>1 DEF HandshakeSize
    <3>5. g # "answerer" => K("answerer")' = K("answerer") /\ I("answerer")' = I("answerer")
      BY <3>2, <3>3 DEF K, I
    <3> QED BY <3>1, <3>3, <3>4, <3>5
  <2> QED BY <1>1, <2>1, <2>2
<1> QED BY <1>1, <1>2 DEF MetInv, Good, mailVars

\* Without a fault the end of a stage keeps the invariant.
LEMMA GoodStage ==
  ASSUME GuestAssumption, PosInv, Good, NEW g \in Guests, NextStage(g)
  PROVE  Good'
BY StageKeeps, FlowStage, EndStage, ClaimStage, SpecialStage, MetStage DEF Good

-----------------------------------------------------------------------------
(* The connection, without a fault *)

EnvStep(s) == Connect(s) \/ Open(s) \/ Deliver(s) \/ CloseArrives(s) \/ LagPasses(s)

\* What arrives without a flood fits the buffer.
LEMMA Fits ==
  ASSUME GuestAssumption, Always, NEW s \in Sides, Flow(s), ~chan[s].closed, wire[s] # <<>>
  PROVE  Len(chan[s].inbox) < Limit
<1>1. FlowTypes(s) /\ Other(s) \in Sides /\ Limit \in Nat
  BY FlowTyped, Values
<1>2. Sent(Other(s)) <= Limit
  BY <1>1, SentBound DEF Always
<1>3. Len(wire[s]) \in Nat /\ Len(wire[s]) > 0
  BY <1>1 DEF FlowTypes
<1>4. Rec(s) + Len(chan[s].inbox) + Len(wire[s]) = Sent(Other(s))
  BY DEF Flow
<1> DEFINE n == Len(chan[s].inbox)
           m == Len(wire[s])
<1>5. n \in Nat /\ m \in Nat /\ Rec(s) \in Nat /\ Sent(Other(s)) \in Nat
  BY <1>1 DEF FlowTypes
<1> HIDE DEF n, m
<1> QED BY <1>1, <1>2, <1>3, <1>4, <1>5, SMTT(30) DEF n, m

\* The records a step of the environment writes.
LEMMA EnvHost ==
  ASSUME GuestAssumption, Always, Good, NEW s \in Sides, EnvStep(s), NEW r \in Sides
  PROVE  /\ UNCHANGED <<test, pos, verdict, loops, published, frozen, received, replaced>>
         /\ chan'[r].claimed = chan[r].claimed /\ (chan[r].closed => chan'[r].closed)
         /\ chan[r].over => chan'[r].over
         /\ chan'[r].lag \in Nat /\ chan[r].lag \in Nat /\ chan'[r].lag <= chan[r].lag
         /\ peer'[r].remote = peer[r].remote /\ peer'[r].local = peer[r].local
         /\ r # s => peer'[r] = peer[r] /\ chan'[r] = chan[r] /\ wire'[r] = wire[r]
<1>t. chan \in [Sides -> Chans] /\ peer \in [Sides -> Peers] /\ wire \in [Sides -> Seq(Nat)] /\ Lag \in Nat
  BY Values DEF Always, HostInv
<1>0. UNCHANGED <<test, pos, verdict, loops, published, frozen, received, replaced>>
  BY DEF EnvStep, Connect, Open, Deliver, CloseArrives, LagPasses, guestVars, mailVars
<1>1. ASSUME NEW q, NEW d, chan' = chan \/ (chan' = [chan EXCEPT ![s] = d] /\ q = chan[s]
               /\ d.claimed = q.claimed /\ (q.closed => d.closed) /\ (q.over => d.over)
               /\ d.lag \in Nat /\ d.lag <= q.lag)
      PROVE  /\ chan'[r].claimed = chan[r].claimed /\ (chan[r].closed => chan'[r].closed)
             /\ chan[r].over => chan'[r].over
             /\ chan'[r].lag \in Nat /\ chan[r].lag \in Nat /\ chan'[r].lag <= chan[r].lag
             /\ r # s => chan'[r] = chan[r]
  <2>1. chan[r] \in Chans
    BY <1>t
  <2>2. chan[r].lag \in Nat
    BY <1>t, <2>1 DEF Chans
  <2>3. CASE chan' = chan
    BY <2>2, <2>3
  <2>4. CASE r = s /\ chan' # chan
    <3>1. chan'[r] = d /\ q = chan[r]
      BY <1>1, <1>t, <2>4
    <3> QED BY <1>1, <2>2, <2>4, <3>1
  <2>5. CASE r # s /\ chan' # chan
    <3>1. chan'[r] = chan[r]
      BY <1>1, <1>t, <2>5
    <3> QED BY <2>2, <3>1
  <2> QED BY <2>3, <2>4, <2>5
<1>2. ASSUME NEW x, peer' = [peer EXCEPT ![s].conn = x] \/ peer' = peer
      PROVE  /\ peer'[r].remote = peer[r].remote /\ peer'[r].local = peer[r].local
             /\ r # s => peer'[r] = peer[r]
  BY <1>2, <1>t DEF Peers
<1>3. CASE Connect(s)
  <2>1. chan' = chan /\ wire' = wire /\ peer' = [peer EXCEPT ![s].conn = "connected"]
    BY <1>3 DEF Connect
  <2> QED BY <1>0, <1>1, <1>2, <2>1
<1>4. CASE Open(s)
  <2> DEFINE d == [chan[s] EXCEPT !.open = TRUE]
  <2>1. chan' = [chan EXCEPT ![s] = d] /\ wire' = wire /\ peer' = peer
    BY <1>4 DEF Open
  <2>2. d.claimed = chan[s].claimed /\ (chan[s].closed => d.closed) /\ (chan[s].over => d.over) /\ d.lag = chan[s].lag
    BY <1>t DEF Chans
  <2>3. chan[s].lag \in Nat
    BY <1>t DEF Chans
  <2> HIDE DEF d
  <2>4. d.lag \in Nat /\ d.lag <= chan[s].lag
    BY <2>2, <2>3
  <2> QED BY <1>0, <1>1, <1>2, <2>1, <2>2, <2>4
<1>5. CASE Deliver(s)
  <2> DEFINE d == IF Len(chan[s].inbox) < Limit THEN [chan[s] EXCEPT !.inbox = Append(@, Head(wire[s]))]
                  ELSE [chan[s] EXCEPT !.over = TRUE, !.closed = TRUE]
  <2>1. chan' = [chan EXCEPT ![s] = d] /\ peer' = peer /\ \E w : wire' = [wire EXCEPT ![s] = w]
    BY <1>5 DEF Deliver
  <2>2. d.claimed = chan[s].claimed /\ (chan[s].closed => d.closed) /\ (chan[s].over => d.over) /\ d.lag = chan[s].lag
    BY <1>t DEF Chans
  <2>3. chan[s].lag \in Nat
    BY <1>t DEF Chans
  <2> HIDE DEF d
  <2>4. d.lag \in Nat /\ d.lag <= chan[s].lag
    BY <2>2, <2>3
  <2>5. r # s => wire'[r] = wire[r]
    BY <1>t, <2>1
  <2> QED BY <1>0, <1>1, <1>2, <2>1, <2>2, <2>4, <2>5
<1>6. CASE CloseArrives(s)
  <2> DEFINE d == [chan[s] EXCEPT !.closed = TRUE]
  <2>1. /\ chan' = [chan EXCEPT ![s] = d] /\ wire' = [wire EXCEPT ![s] = <<>>]
        /\ \E x : peer' = [peer EXCEPT ![s].conn = x]
    <3>1. /\ chan' = [chan EXCEPT ![s] = d] /\ wire' = [wire EXCEPT ![s] = <<>>]
          /\ peer' = [peer EXCEPT ![s].conn = IF Lost(Other(s)) THEN "failed" ELSE peer[s].conn]
      BY <1>6 DEF CloseArrives
    <3> QED BY <3>1
  <2>2. d.claimed = chan[s].claimed /\ (chan[s].closed => d.closed) /\ (chan[s].over => d.over) /\ d.lag = chan[s].lag
    BY <1>t DEF Chans
  <2>3. chan[s].lag \in Nat
    BY <1>t DEF Chans
  <2> HIDE DEF d
  <2>4. d.lag \in Nat /\ d.lag <= chan[s].lag
    BY <2>2, <2>3
  <2>5. r # s => wire'[r] = wire[r]
    BY <1>t, <2>1
  <2> QED BY <1>0, <1>1, <1>2, <2>1, <2>2, <2>4, <2>5
<1>7. CASE LagPasses(s)
  <2> DEFINE d == [chan[s] EXCEPT !.lag = @ - 1]
  <2>1. chan' = [chan EXCEPT ![s] = d] /\ wire' = wire /\ peer' = peer /\ chan[s].lag > 0
    BY <1>7 DEF LagPasses
  <2>2. /\ d.claimed = chan[s].claimed /\ (chan[s].closed => d.closed) /\ (chan[s].over => d.over)
        /\ d.lag = chan[s].lag - 1
    BY <1>t DEF Chans
  <2>3. chan[s].lag \in Nat
    BY <1>t DEF Chans
  <2> HIDE DEF d
  <2>4. d.lag \in Nat /\ d.lag <= chan[s].lag
    BY <2>1, <2>2, <2>3
  <2> QED BY <1>0, <1>1, <1>2, <2>1, <2>2, <2>4
<1> QED BY <1>3, <1>4, <1>5, <1>6, <1>7 DEF EnvStep

\* The connection keeps the messages of a side in order, and complete until it closes.
LEMMA FlowEnv ==
  ASSUME GuestAssumption, Always, Good, NEW s \in Sides, EnvStep(s)
  PROVE  FlowInv'
<1>t. chan \in [Sides -> Chans] /\ wire \in [Sides -> Seq(Nat)]
  BY DEF Always, HostInv
<1>1. test' = test /\ pos' = pos /\ \A r \in Sides : r # s => chan'[r] = chan[r] /\ wire'[r] = wire[r]
  BY EnvHost
<1>2. \A r : Sent(r)' = Sent(r) /\ Rec(r)' = Rec(r)
  BY <1>1, TestKept DEF Sent, Rec, SentAsPeer, RecAsPeer, K, I, J
<1>3. ASSUME NEW r \in Sides, Flow(r), r # s
      PROVE  Flow(r)'
  BY <1>1, <1>2, <1>3, FlowSame
<1>4. ASSUME Flow(s)
      PROVE  Flow(s)'
  <2>1. ASSUME chan'[s].inbox = chan[s].inbox, chan'[s].over = chan[s].over, chan[s].closed => chan'[s].closed,
               chan'[s].closed \/ wire'[s] = wire[s]
        PROVE  Flow(s)'
    BY <1>1, <1>2, <1>4, <2>1, FlowSame
  <2>2. CASE Connect(s)
    BY <2>1, <2>2 DEF Connect
  <2>3. CASE Open(s)
    <3>1. chan' = [chan EXCEPT ![s].open = TRUE] /\ wire' = wire
      BY <2>3 DEF Open
    <3>2. chan'[s].inbox = chan[s].inbox /\ chan'[s].over = chan[s].over /\ chan'[s].closed = chan[s].closed
      BY <1>t, <3>1 DEF Chans
    <3> QED BY <2>1, <3>1, <3>2
  <2>4. CASE Deliver(s)
    <3>1. ~chan[s].closed /\ wire[s] # <<>>
      BY <2>4 DEF Deliver
    <3>2. Len(chan[s].inbox) < Limit
      BY <1>4, <3>1, Fits
    <3>3. chan' = [chan EXCEPT ![s].inbox = Append(@, Head(wire[s]))] /\ wire' = [wire EXCEPT ![s] = Tail(@)]
      BY <2>4, <3>2 DEF Deliver
    <3>4. /\ chan'[s].inbox = Append(chan[s].inbox, Head(wire[s])) /\ chan'[s].over = chan[s].over
          /\ wire'[s] = Tail(wire[s])
      BY <1>t, <3>3 DEF Chans
    <3> QED BY <1>1, <1>2, <1>4, <3>1, <3>4, FlowTyped, FlowDelivered
  <2>5. CASE CloseArrives(s)
    <3>1. chan' = [chan EXCEPT ![s].closed = TRUE]
      BY <2>5 DEF CloseArrives
    <3>2. chan'[s].inbox = chan[s].inbox /\ chan'[s].over = chan[s].over /\ chan'[s].closed
      BY <1>t, <3>1 DEF Chans
    <3> QED BY <2>1, <3>2
  <2>6. CASE LagPasses(s)
    <3>1. chan' = [chan EXCEPT ![s].lag = @ - 1] /\ wire' = wire
      BY <2>6 DEF LagPasses
    <3>2. chan'[s].inbox = chan[s].inbox /\ chan'[s].over = chan[s].over /\ chan'[s].closed = chan[s].closed
      BY <1>t, <3>1 DEF Chans
    <3> QED BY <2>1, <3>1, <3>2
  <2> QED BY <2>2, <2>3, <2>4, <2>5, <2>6 DEF EnvStep
<1> QED BY <1>1, <1>3, <1>4 DEF FlowInv, Good

\* What may be closed stays so while no guest moves.
LEMMA EndedOver ==
  ASSUME test \in TwoPeer \union InProcess, test' = test, \A g : K(g)' = K(g) /\ I(g)' = I(g), chan["answerer"].over => chan'["answerer"].over, Ended
  PROVE  Ended'
<1>1. CASE test \in TwoPeer
  BY <1>1 DEF Ended, TwoPeer
<1>2. CASE test = "overflow"
  BY <1>2 DEF Ended, TwoPeer
<1>3. CASE test \in InProcess \ {"overflow"}
  BY <1>3 DEF Ended, TwoPeer, InProcess
<1> QED BY <1>1, <1>2, <1>3

\* A step of the environment closes a side only if another side is closed, or
\* if the flood overflows a buffer.
LEMMA EndEnv ==
  ASSUME GuestAssumption, Always, Good, NEW s \in Sides, EnvStep(s)
  PROVE  EndInv'
<1>t. chan \in [Sides -> Chans] /\ peer \in [Sides -> Peers] /\ "answerer" \in Sides /\ Other(s) \in Sides
  BY DEF Always, HostInv, Sides, Other
<1>1. /\ test' = test /\ pos' = pos
      /\ \A r \in Sides : /\ r # s => peer'[r] = peer[r] /\ chan'[r] = chan[r]
                          /\ chan[r].closed => chan'[r].closed
                          /\ chan[r].over => chan'[r].over
  BY EnvHost
<1>2. Ended => Ended'
  <2>1. /\ test' = test /\ \A g : K(g)' = K(g) /\ I(g)' = I(g)
        /\ chan["answerer"].over => chan'["answerer"].over
    BY <1>1, <1>t DEF K, I
  <2>2. test \in TwoPeer \union InProcess
    BY DEF Always, PosInv, GuestAssumption
  <2> QED BY <2>1, <2>2, EndedOver
<1>4. ASSUME chan'[s].closed \/ Lost(s)' => Ended'
      PROVE  EndInv'
  <2>1. ASSUME NEW r \in Sides, chan'[r].closed \/ Lost(r)'
        PROVE  Ended'
    <3>1. CASE r = s
      BY <1>4, <2>1, <3>1
    <3>2. CASE r # s
      <4>1. chan'[r].closed = chan[r].closed /\ Lost(r)' = Lost(r)
        BY <1>1, <3>2 DEF Lost
      <4> QED BY <1>2, <2>1, <4>1 DEF Good, EndInv
    <3> QED BY <3>1, <3>2
  <2>2. ASSUME test \in TwoPeer, NEW g \in Sides, K(g)' = 4 /\ I(g)' > 1
        PROVE  chan'[g].closed
    <3>1. K(g) = 4 /\ I(g) > 1
      BY <1>1, <2>2 DEF K, I
    <3> QED BY <1>1, <2>2, <3>1 DEF Good, EndInv
  <2> QED BY <1>1, <2>1, <2>2 DEF EndInv
<1>5. chan[s].closed \/ Lost(s) => Ended
  BY DEF Good, EndInv
<1>6. CASE Connect(s)
  <2>1. chan' = chan /\ peer' = [peer EXCEPT ![s].conn = "connected"]
    BY <1>6 DEF Connect
  <2>2. ~Lost(s)'
    BY <1>t, <2>1 DEF Lost, Peers
  <2> QED BY <1>2, <1>4, <1>5, <2>1, <2>2
<1>7. CASE Open(s)
  <2>1. chan' = [chan EXCEPT ![s].open = TRUE] /\ peer' = peer
    BY <1>7 DEF Open
  <2>2. chan'[s].closed = chan[s].closed /\ Lost(s)' = Lost(s)
    BY <1>t, <2>1 DEF Lost, Chans
  <2> QED BY <1>2, <1>4, <1>5, <2>2
<1>8. CASE Deliver(s)
  <2>1. ~chan[s].closed /\ wire[s] # <<>> /\ peer' = peer
    BY <1>8 DEF Deliver
  <2>2. CASE Len(chan[s].inbox) < Limit
    <3>1. chan' = [chan EXCEPT ![s].inbox = Append(@, Head(wire[s]))]
      BY <1>8, <2>2 DEF Deliver
    <3>2. chan'[s].closed = chan[s].closed /\ Lost(s)' = Lost(s)
      BY <1>t, <2>1, <3>1 DEF Lost, Chans
    <3> QED BY <1>2, <1>4, <1>5, <3>2
  <2>3. CASE ~(Len(chan[s].inbox) < Limit)
    <3>1. ~Flow(s)
      BY <2>1, <2>3, Fits
    <3>2. test = "overflow" /\ s = "answerer"
      BY <3>1 DEF Good, FlowInv
    <3>3. chan' = [chan EXCEPT ![s].over = TRUE, ![s].closed = TRUE]
      BY <1>8, <2>3 DEF Deliver
    <3>4. chan'[s].over
      BY <1>t, <3>3 DEF Chans
    <3>5. Ended'
      <4>1. test' = "overflow" /\ chan'["answerer"].over
        BY <1>1, <3>2, <3>4
      <4> QED BY <4>1 DEF Ended, TwoPeer
    <3> QED BY <1>4, <3>5
  <2> QED BY <2>2, <2>3
<1>9. CASE CloseArrives(s)
  <2>1. Ended
    BY <1>9, <1>t DEF CloseArrives, Good, EndInv
  <2> QED BY <1>2, <1>4, <2>1
<1>10. CASE LagPasses(s)
  <2>1. chan' = [chan EXCEPT ![s].lag = @ - 1] /\ peer' = peer
    BY <1>10 DEF LagPasses
  <2>2. chan'[s].closed = chan[s].closed /\ Lost(s)' = Lost(s)
    BY <1>t, <2>1 DEF Lost, Chans
  <2> QED BY <1>2, <1>4, <1>5, <2>2
<1> QED BY <1>6, <1>7, <1>8, <1>9, <1>10 DEF EnvStep

\* The connection claims nothing.
LEMMA ClaimEnv ==
  ASSUME GuestAssumption, Always, Good, NEW s \in Sides, EnvStep(s)
  PROVE  ClaimInv'
<1>1. test' = test /\ pos' = pos /\ \A r \in Sides : chan'[r].claimed = chan[r].claimed
  BY EnvHost
<1>2. \A r : Claims(r)' = Claims(r)
  BY <1>1 DEF Claims, K, I, J
<1> QED BY <1>1, <1>2 DEF ClaimInv, Good

\* It leaves the mailboxes and the descriptions alone.
LEMMA MetEnv ==
  ASSUME GuestAssumption, Always, Good, NEW s \in Sides, EnvStep(s)
  PROVE  MetInv'
<1>1. /\ UNCHANGED <<test, pos, published, frozen, received>>
      /\ \A r \in Sides : peer'[r].remote = peer[r].remote
  BY EnvHost
<1>2. \A r : Pub(r)' = Pub(r) /\ K(r)' = K(r) /\ I(r)' = I(r)
  BY <1>1 DEF Pub, K, I
<1>3. \A r \in Sides : Other(r) \in Sides
  BY DEF Other, Sides
<1> QED BY <1>1, <1>2, <1>3 DEF MetInv, Good

\* A buffer of one message takes another of it.
LEMMA AllAppended ==
  ASSUME NEW q \in Seq(Nat), NEW m \in Nat, \A i \in 1..Len(q) : q[i] = m
  PROVE  \A i \in 1..Len(Append(q, m)) : Append(q, m)[i] = m
<1>1. Len(q) \in Nat /\ Len(Append(q, m)) = Len(q) + 1
  OBVIOUS
<1>2. ASSUME NEW i \in 1..Len(Append(q, m)) PROVE Append(q, m)[i] = m
  <2>1. CASE i \in 1..Len(q)
    BY <2>1
  <2>2. CASE i = Len(q) + 1
    BY <2>2
  <2> QED BY <1>1, <2>1, <2>2
<1> QED BY <1>2

\* What the flood sends stays in the buffer and under way, and nothing else does.
LEMMA OverflowEnv ==
  ASSUME GuestAssumption, Always, Good, NEW s \in Sides, EnvStep(s), test = "overflow"
  PROVE  /\ K(B) < 4 => wire'["answerer"] = <<>> /\ ~chan'["answerer"].over
         /\ \A i \in 1..Len(wire'["answerer"]) : wire'["answerer"][i] = Filler
         /\ \A i \in 1..Len(chan'["answerer"].inbox) : chan'["answerer"].inbox[i] = Filler
<1> DEFINE a == "answerer"
<1>t. chan \in [Sides -> Chans] /\ wire \in [Sides -> Seq(Nat)] /\ a \in Sides /\ chan[a].inbox \in Seq(Nat) /\ wire[a] \in Seq(Nat)
  BY DEF Always, HostInv, Sides, Chans
<1>1. /\ K(B) < 4 => wire[a] = <<>> /\ ~chan[a].over
      /\ \A i \in 1..Len(wire[a]) : wire[a][i] = Filler
      /\ \A i \in 1..Len(chan[a].inbox) : chan[a].inbox[i] = Filler
  BY DEF Good, SpecialInv
<1>2. \A r \in Sides : r # s => chan'[r] = chan[r] /\ wire'[r] = wire[r]
  BY EnvHost
<1>3. CASE s # a
  BY <1>1, <1>2, <1>3, <1>t
<1>4. CASE s = a /\ Connect(s)
  BY <1>1, <1>4 DEF Connect
<1>5. CASE s = a /\ Open(s)
  <2>1. chan' = [chan EXCEPT ![a].open = TRUE] /\ wire' = wire
    BY <1>5 DEF Open
  <2>2. chan'[a].inbox = chan[a].inbox /\ chan'[a].over = chan[a].over
    BY <1>t, <2>1 DEF Chans
  <2> QED BY <1>1, <2>1, <2>2
<1>6. CASE s = a /\ Deliver(s)
  <2>1. wire[a] # <<>>
    BY <1>6 DEF Deliver
  <2>2. Head(wire[a]) = Filler /\ Len(wire[a]) \in Nat /\ Len(wire[a]) > 0
    BY <1>1, <1>t, <2>1
  <2>3. CASE Len(chan[a].inbox) < Limit
    <3>1. chan' = [chan EXCEPT ![a].inbox = Append(@, Head(wire[a]))] /\ wire' = [wire EXCEPT ![a] = Tail(@)]
      BY <1>6, <2>3 DEF Deliver
    <3>2. chan'[a].inbox = Append(chan[a].inbox, Filler) /\ wire'[a] = Tail(wire[a])
      BY <1>t, <2>2, <3>1 DEF Chans
    <3>3. \A i \in 1..Len(wire'[a]) : wire'[a][i] = Filler
      BY <1>1, <1>t, <2>1, <3>2
    <3>4. \A i \in 1..Len(chan'[a].inbox) : chan'[a].inbox[i] = Filler
      <4> DEFINE q == chan[a].inbox
      <4>1. q \in Seq(Nat) /\ Filler \in Nat /\ \A i \in 1..Len(q) : q[i] = Filler
        BY <1>1, <1>t, Values, SMTT(30)
      <4>2. chan'[a].inbox = Append(q, Filler)
        BY <3>2
      <4> HIDE DEF q
      <4>3. \A i \in 1..Len(Append(q, Filler)) : Append(q, Filler)[i] = Filler
        BY <4>1, AllAppended
      <4> QED BY <4>2, <4>3
    <3> QED BY <1>1, <2>1, <3>3, <3>4
  <2>4. CASE ~(Len(chan[a].inbox) < Limit)
    <3>1. chan' = [chan EXCEPT ![a].over = TRUE, ![a].closed = TRUE] /\ wire' = [wire EXCEPT ![a] = <<>>]
      BY <1>6, <2>4 DEF Deliver
    <3>2. chan'[a].inbox = chan[a].inbox /\ wire'[a] = <<>>
      BY <1>t, <3>1 DEF Chans
    <3> QED BY <1>1, <2>1, <3>2
  <2> QED BY <2>3, <2>4
<1>7. CASE s = a /\ CloseArrives(s)
  <2>1. chan' = [chan EXCEPT ![a].closed = TRUE] /\ wire' = [wire EXCEPT ![a] = <<>>]
    BY <1>7 DEF CloseArrives
  <2>2. chan'[a].inbox = chan[a].inbox /\ chan'[a].over = chan[a].over /\ wire'[a] = <<>>
    BY <1>t, <2>1 DEF Chans
  <2> QED BY <1>1, <2>2
<1>8. CASE s = a /\ LagPasses(s)
  <2>1. chan' = [chan EXCEPT ![a].lag = @ - 1] /\ wire' = wire
    BY <1>8 DEF LagPasses
  <2>2. chan'[a].inbox = chan[a].inbox /\ chan'[a].over = chan[a].over
    BY <1>t, <2>1 DEF Chans
  <2> QED BY <1>1, <2>1, <2>2
<1> QED BY <1>3, <1>4, <1>5, <1>6, <1>7, <1>8 DEF EnvStep

\* It keeps what is particular to a test.
LEMMA SpecialEnv ==
  ASSUME GuestAssumption, Always, Good, NEW s \in Sides, EnvStep(s)
  PROVE  SpecialInv'
<1>t. peer \in [Sides -> Peers] /\ "offerer" \in Sides /\ "answerer" \in Sides /\ Other(s) \in Sides
  BY DEF Always, HostInv, Sides, Other
<1>1. test' = test /\ loops' = loops /\ K(B)' = K(B) /\ I(B)' = I(B)
  BY <1>t, EnvHost DEF K, I
<1>2. /\ chan["offerer"].closed => chan'["offerer"].closed
      /\ chan'["offerer"].lag \in Nat /\ chan["offerer"].lag \in Nat /\ chan'["offerer"].lag <= chan["offerer"].lag
      /\ chan["answerer"].over => chan'["answerer"].over
      /\ peer'["answerer"].local = peer["answerer"].local
      /\ "offerer" # s => peer'["offerer"] = peer["offerer"]
  BY <1>t, EnvHost
<1>3. test = "post-close-send" /\ K(B) = 4 /\ I(B) = 2 => loops + chan'["offerer"].lag <= Lag /\ chan'["offerer"].closed
  <2>1. loops \in Nat /\ Lag \in Nat
    BY Values DEF Always, HostInv
  <2>2. test = "post-close-send" /\ K(B) = 4 /\ I(B) = 2 => loops + chan["offerer"].lag <= Lag /\ chan["offerer"].closed
    BY DEF Good, SpecialInv
  <2> QED BY <1>2, <2>1, <2>2
<1>4. test = "overflow" =>
        /\ K(B) < 4 => wire'["answerer"] = <<>> /\ ~chan'["answerer"].over
        /\ K(B) = 4 /\ I(B) = 3 => chan'["answerer"].over
        /\ \A i \in 1..Len(wire'["answerer"]) : wire'["answerer"][i] = Filler
        /\ \A i \in 1..Len(chan'["answerer"].inbox) : chan'["answerer"].inbox[i] = Filler
  BY <1>2, OverflowEnv DEF Good, SpecialInv
<1>5. test = "timed-out" => ~peer'["answerer"].local /\ (peer'["offerer"].conn = "new" \/ I(B) > 2)
  <2> SUFFICES ASSUME test = "timed-out" PROVE peer'["offerer"].conn = "new" \/ I(B) > 2
    BY <1>2 DEF Good, SpecialInv
  <2>1. ~peer["answerer"].local /\ (peer["offerer"].conn = "new" \/ I(B) > 2)
    BY DEF Good, SpecialInv
  <2>2. ~Connect(s)
    BY <1>t, <2>1 DEF Connect
  <2>3. CASE CloseArrives(s)
    <3>1. Ended
      BY <1>t, <2>3 DEF CloseArrives, Good, EndInv
    <3>2. Ended <=> I(B) > 2
      BY DEF Ended, TwoPeer
    <3> QED BY <3>1, <3>2
  <2>4. CASE Open(s) \/ Deliver(s) \/ LagPasses(s)
    BY <2>1, <2>4 DEF Open, Deliver, LagPasses
  <2> QED BY <2>2, <2>3, <2>4 DEF EnvStep
<1> QED BY <1>1, <1>3, <1>4, <1>5 DEF SpecialInv

\* Without a fault a step of the connection keeps the invariant.
LEMMA GoodEnv ==
  ASSUME GuestAssumption, Always, Good, NEW s \in Sides, EnvStep(s)
  PROVE  Good'
<1>1. test' = test /\ pos' = pos /\ verdict' = verdict
  BY EnvHost
<1>2. RunsInv'
  BY <1>1, TestKept DEF RunsInv, Good
<1> QED BY <1>2, FlowEnv, EndEnv, ClaimEnv, SpecialEnv, MetEnv DEF Good

-----------------------------------------------------------------------------
(* The calls: the other parts of the invariant *)

\* Without a fault no call stops a guest.
LEMMA CallGoes ==
  ASSUME GuestAssumption, Always, Good, NEW g, NEW t, AtCall(g, t), NEW st, st = Current(g, t), ACall(g, t, st)
  PROVE  Goes(g, t) \/ (Stays /\ st.op \notin {"close", "claim"})
<1>1. CASE Describe(g, t, st)
  BY <1>1 DEF Describe
<1>2. CASE PublishOrDone(g, t, st)
  BY <1>2 DEF PublishOrDone
<1>3. CASE RecvOffer(g, t, st)
  BY <1>3, RecvOfferGoes
<1>4. CASE ConsumeSignaling(g, t, st)
  BY <1>4, ConsumeGoes DEF ConsumeSignaling
<1>5. CASE WaitConnected(g, t, st) \/ FirstIncoming(g, t, st)
  BY <1>5, WaitGoes
<1>6. CASE SendCall(g, t, st)
  BY <1>6, SendGoes
<1>7. CASE SendLoop(g, t, st)
  BY <1>7, SendLoopGoes
<1>8. CASE ReceiveCall(g, t, st)
  BY <1>8, ReceiveGoes DEF ReceiveCall
<1>9. CASE StreamCall(g, t, st)
  BY <1>9, StreamGoes
<1>10. CASE Close(g, t, st)
  BY <1>10 DEF Close
<1> QED BY <1>1, <1>2, <1>3, <1>4, <1>5, <1>6, <1>7, <1>8, <1>9, <1>10 DEF ACall

Ends(st, r) == st.op = "close" /\ st.at = r
TakesAll(st, r) == st.op = "claim" /\ st.at = r

\* Taking a message changes nothing else of a channel.
LEMMA InboxFacts ==
  ASSUME chan \in [Sides -> Chans], NEW a \in Sides, chan' = chan \/ chan' = [chan EXCEPT ![a].inbox = Tail(@)],
         NEW s \in Sides
  PROVE  chan'[s].over = chan[s].over /\ chan'[s].closed = chan[s].closed /\ chan'[s].claimed = chan[s].claimed
<1> DEFINE d == [chan[a] EXCEPT !.inbox = Tail(@)]
<1>1. chan' = chan \/ chan' = [chan EXCEPT ![a] = d]
  OBVIOUS
<1>2. d.over = chan[a].over /\ d.closed = chan[a].closed /\ d.claimed = chan[a].claimed
  BY DEF Chans
<1> HIDE DEF d
<1> QED BY <1>1, <1>2

\* What a call can change of a side: only close ends it, only claim takes its stream.
LEMMA CallHost ==
  ASSUME GuestAssumption, Always, Good, NEW g, NEW t, AtCall(g, t), NEW st, st = Current(g, t), ACall(g, t, st),
         NEW r \in Sides
  PROVE  /\ chan'[r].over = chan[r].over
         /\ chan'[r].closed <=> chan[r].closed \/ Ends(st, r)
         /\ Lost(r)' <=> Lost(r) \/ Ends(st, r)
         /\ chan'[r].claimed <=> chan[r].claimed \/ TakesAll(st, r)
<1>t. /\ chan \in [Sides -> Chans] /\ peer \in [Sides -> Peers] /\ wire \in [Sides -> Seq(Nat)]
      /\ st.at \in Sides /\ chan[st.at] \in Chans /\ peer[st.at] \in Peers
  BY ConnectPlaces DEF Always, HostInv
<1> DEFINE Calm == st.op \notin {"close", "claim"}
<1>1. ASSUME Calm, chan' = chan, \E s \in Sides : \E p : peer' = [peer EXCEPT ![s] = p] /\ p.conn = peer[s].conn
      PROVE  /\ chan'[r].over = chan[r].over /\ (chan'[r].closed <=> chan[r].closed \/ Ends(st, r))
             /\ Lost(r)' <=> Lost(r) \/ Ends(st, r)
             /\ chan'[r].claimed <=> chan[r].claimed \/ TakesAll(st, r)
  <2>0. PICK s \in Sides : \E p : peer' = [peer EXCEPT ![s] = p] /\ p.conn = peer[s].conn
    BY <1>1
  <2>1. PICK p : peer' = [peer EXCEPT ![s] = p] /\ p.conn = peer[s].conn
    BY <2>0
  <2>2. peer'[r].conn = peer[r].conn
    BY <1>t, <2>1
  <2> QED BY <1>1, <2>2 DEF Ends, TakesAll, Lost
<1>2. ASSUME Calm, peer' = peer, \A s \in Sides : /\ chan'[s].over = chan[s].over /\ chan'[s].closed = chan[s].closed
                                                  /\ chan'[s].claimed = chan[s].claimed
      PROVE  /\ chan'[r].over = chan[r].over /\ (chan'[r].closed <=> chan[r].closed \/ Ends(st, r))
             /\ Lost(r)' <=> Lost(r) \/ Ends(st, r)
             /\ chan'[r].claimed <=> chan[r].claimed \/ TakesAll(st, r)
  BY <1>2 DEF Ends, TakesAll, Lost
<1>3. CASE Describe(g, t, st)
  <2>1. Calm /\ chan' = chan
    BY <1>3 DEF Describe
  <2>2. \E p : peer' = [peer EXCEPT ![st.at] = p] /\ p.conn = peer[st.at].conn
    <3>1. CASE peer' = peer
      <4>1. peer' = [peer EXCEPT ![st.at] = peer[st.at]]
        BY <1>t, <3>1
      <4> QED BY <4>1
    <3>2. CASE peer' = [peer EXCEPT ![st.at].local = TRUE]
      <4>1. [peer[st.at] EXCEPT !.local = TRUE].conn = peer[st.at].conn
        BY <1>t DEF Peers
      <4> QED BY <3>2, <4>1
    <3>3. CASE peer' = [peer EXCEPT ![st.at].remote = TRUE]
      <4>1. [peer[st.at] EXCEPT !.remote = TRUE].conn = peer[st.at].conn
        BY <1>t DEF Peers
      <4> QED BY <3>3, <4>1
    <3>4. CASE peer' = [peer EXCEPT ![st.at].cands = @ + 1]
      <4>1. [peer[st.at] EXCEPT !.cands = @ + 1].conn = peer[st.at].conn
        BY <1>t DEF Peers
      <4> QED BY <3>4, <4>1
    <3> QED BY <1>3, <3>1, <3>2, <3>3, <3>4 DEF Describe
  <2> HIDE DEF Calm
  <2> QED BY <1>1, <1>t, <2>1, <2>2
<1>4. CASE PublishOrDone(g, t, st)
  BY <1>2, <1>4 DEF PublishOrDone, hostVars
<1>5. CASE RecvOffer(g, t, st) \/ ConsumeSignaling(g, t, st)
  <2>1. Calm /\ chan' = chan
    BY <1>5 DEF RecvOffer, ConsumeSignaling
  <2>2. \/ peer' = peer \/ peer' = [peer EXCEPT ![st.at].remote = TRUE]
        \/ peer' = [peer EXCEPT ![st.at].cands = @ + 1]
    BY <1>5 DEF RecvOffer, ConsumeSignaling
  <2>3. \E p : peer' = [peer EXCEPT ![st.at] = p] /\ p.conn = peer[st.at].conn
    <3>1. CASE peer' = peer
      <4>1. peer' = [peer EXCEPT ![st.at] = peer[st.at]]
        BY <1>t, <3>1
      <4> QED BY <4>1
    <3>2. CASE peer' = [peer EXCEPT ![st.at].remote = TRUE]
      <4>1. [peer[st.at] EXCEPT !.remote = TRUE].conn = peer[st.at].conn
        BY <1>t DEF Peers
      <4> QED BY <3>2, <4>1
    <3>3. CASE peer' = [peer EXCEPT ![st.at].cands = @ + 1]
      <4>1. [peer[st.at] EXCEPT !.cands = @ + 1].conn = peer[st.at].conn
        BY <1>t DEF Peers
      <4> QED BY <3>3, <4>1
    <3> QED BY <2>2, <3>1, <3>2, <3>3
  <2> HIDE DEF Calm
  <2> QED BY <1>1, <1>t, <2>1, <2>3
<1>6. CASE WaitConnected(g, t, st) \/ FirstIncoming(g, t, st)
  BY <1>2, <1>6 DEF WaitConnected, FirstIncoming, hostVars
<1>7. CASE SendCall(g, t, st)
  <2>1. Calm /\ peer' = peer /\ (chan' = chan \/ Accepted(st.at, st.msg))
    BY <1>7 DEF SendCall
  <2> HIDE DEF Calm
  <2> QED BY <1>2, <1>t, <2>1, AcceptedFacts
<1>8. CASE SendLoop(g, t, st)
  <2>1. Calm /\ peer' = peer /\ (chan' = chan \/ Accepted(st.at, Filler))
    BY <1>8 DEF SendLoop
  <2> HIDE DEF Calm
  <2> QED BY <1>2, <1>t, <2>1, AcceptedFacts
<1>9. CASE ReceiveCall(g, t, st)
  <2>1. Calm /\ peer' = peer /\ (chan' = chan \/ chan' = [chan EXCEPT ![st.at].inbox = Tail(@)])
    BY <1>9 DEF ReceiveCall
  <2>2. \A s \in Sides : /\ chan'[s].over = chan[s].over /\ chan'[s].closed = chan[s].closed
                         /\ chan'[s].claimed = chan[s].claimed
    BY <1>t, <2>1, InboxFacts
  <2> QED BY <1>2, <2>1, <2>2
<1>10. CASE StreamCall(g, t, st)
  <2>1. /\ peer' = peer
        /\ \/ st.op = "claim" /\ chan' = [chan EXCEPT ![st.at].claimed = TRUE]
           \/ Calm /\ (chan' = chan \/ chan' = [chan EXCEPT ![st.at].inbox = Tail(@)])
    BY <1>10 DEF StreamCall
  <2>2. CASE st.op = "claim" /\ chan' = [chan EXCEPT ![st.at].claimed = TRUE]
    <3>1. /\ chan'[r].over = chan[r].over /\ chan'[r].closed = chan[r].closed
          /\ r = st.at => chan'[r].claimed
          /\ r # st.at => chan'[r].claimed = chan[r].claimed
      BY <1>t, <2>2 DEF Chans
    <3> QED BY <2>1, <2>2, <3>1 DEF Ends, TakesAll, Lost
  <2>3. CASE Calm /\ (chan' = chan \/ chan' = [chan EXCEPT ![st.at].inbox = Tail(@)])
    <3>1. \A s \in Sides : /\ chan'[s].over = chan[s].over /\ chan'[s].closed = chan[s].closed
                           /\ chan'[s].claimed = chan[s].claimed
      BY <1>t, <2>3, InboxFacts
    <3> QED BY <1>2, <2>1, <2>3, <3>1
  <2> QED BY <2>1, <2>2, <2>3
<1>11. CASE Close(g, t, st)
  <2>1. st.op = "close" /\ peer' = [peer EXCEPT ![st.at].conn = "closed"]
    BY <1>11 DEF Close, Closed
  <2>2. PICK lag \in 0..Lag : chan' = [chan EXCEPT ![st.at].closed = TRUE, ![st.at].lag = lag]
    BY <1>11 DEF Close
  <2>3. /\ chan'[r].over = chan[r].over /\ chan'[r].claimed = chan[r].claimed
        /\ r = st.at => chan'[r].closed
        /\ r # st.at => chan'[r].closed = chan[r].closed
    BY <1>t, <2>2 DEF Chans
  <2>4. /\ r = st.at => Lost(r)'
        /\ r # st.at => (Lost(r)' <=> Lost(r))
    BY <1>t, <2>1 DEF Lost, Peers
  <2> QED BY <2>1, <2>3, <2>4 DEF Ends, TakesAll
<1> QED BY <1>3, <1>4, <1>5, <1>6, <1>7, <1>8, <1>9, <1>10, <1>11 DEF ACall

\* Without a fault no call stops a guest, so that none fails.
LEMMA RunsCall ==
  ASSUME GuestAssumption, Always, Good, NEW g, NEW t, AtCall(g, t), NEW st, st = Current(g, t), ACall(g, t, st)
  PROVE  RunsInv'
<1>1. \A h \in Guests : ~pos[h].bad /\ verdict[h] # "fail"
  BY DEF Good, RunsInv
<1>2. PosInv /\ g \in Guests /\ t \in Threads
  BY DEF Always, AtCall
<1>3. CASE Goes(g, t)
  <2>1. test' = test /\ verdict' = verdict /\ \A h \in Guests : pos'[h].bad = pos[h].bad
    BY <1>2, <1>3, GoesFacts
  <2> QED BY <1>1, <2>1, TestKept DEF RunsInv
<1>4. CASE Stays
  BY <1>1, <1>4, TestKept DEF RunsInv, Stays
<1> QED BY <1>3, <1>4, CallGoes

\* A call closes a side only where the test may.
LEMMA EndCall ==
  ASSUME GuestAssumption, Always, Good, NEW g, NEW t, AtCall(g, t), NEW st, st = Current(g, t), ACall(g, t, st)
  PROVE  EndInv'
<1>0. PosInv /\ "answerer" \in Sides
  BY DEF Always, Sides
<1>1. chan["answerer"].over => chan'["answerer"].over
  BY <1>0, CallHost
<1>2. /\ test' = test /\ (Ended => Ended')
      /\ st.op = "close" => Ended'
      /\ test \in TwoPeer => \A h \in Sides : K(h)' = 4 /\ I(h)' > 1 =>
           \/ K(h) = 4 /\ I(h) > 1
           \/ h = g /\ st.op = "close" /\ st.at = g
  <2>1. CASE Goes(g, t)
    <3>1. test' = test
      BY <2>1 DEF Goes
    <3> QED BY <1>0, <1>1, <2>1, <3>1, EndedGo
  <2>2. CASE Stays /\ st.op \notin {"close", "claim"}
    <3>1. test' = test /\ \A h : K(h)' = K(h) /\ I(h)' = I(h)
      BY <2>2 DEF Stays, K, I
    <3>2. test \in TwoPeer \union InProcess
      BY <1>0 DEF PosInv, GuestAssumption
    <3> QED BY <1>1, <2>2, <3>1, <3>2, EndedOver
  <2> QED BY <2>1, <2>2, CallGoes
<1>3. ASSUME NEW r \in Sides, chan'[r].closed \/ Lost(r)'
      PROVE  Ended'
  <2>1. chan[r].closed \/ Lost(r) \/ Ends(st, r)
    BY <1>3, CallHost
  <2> QED BY <1>2, <2>1 DEF Good, EndInv, Ends
<1>4. ASSUME test \in TwoPeer, NEW h \in Sides, K(h)' = 4 /\ I(h)' > 1
      PROVE  chan'[h].closed
  <2>1. chan[h].closed \/ Ends(st, h)
    BY <1>2, <1>4 DEF Good, EndInv, Ends
  <2> QED BY <2>1, CallHost
<1> QED BY <1>2, <1>3, <1>4 DEF EndInv

\* Only claim takes the stream, where the test claims it.
LEMMA ClaimCall ==
  ASSUME GuestAssumption, Always, Good, NEW g, NEW t, AtCall(g, t), NEW st, st = Current(g, t), ACall(g, t, st)
  PROVE  ClaimInv'
<1>0. PosInv
  BY DEF Always
<1>1. ASSUME NEW s \in Sides
      PROVE  chan'[s].claimed <=> Claims(s)'
  <2>1. chan'[s].claimed <=> Claims(s) \/ TakesAll(st, s)
    BY CallHost DEF Good, ClaimInv
  <2>2. st.op = "claim" => st.at = "answerer"
    BY <1>0, CallPlaces
  <2>3. CASE Goes(g, t)
    <3>1. Claims(s)' <=> Claims(s) \/ (st.op = "claim" /\ s = "answerer")
      BY <1>0, <2>3, ClaimsGo
    <3> QED BY <2>1, <2>2, <3>1 DEF TakesAll
  <2>4. CASE Stays /\ st.op \notin {"close", "claim"}
    <3>1. Claims(s)' <=> Claims(s)
      BY <2>4 DEF Stays, Claims, K, I, J
    <3> QED BY <2>1, <2>4, <3>1 DEF TakesAll
  <2> QED BY <2>3, <2>4, CallGoes
<1> QED BY <1>1 DEF ClaimInv

\* One thread runs the fourth stage of these tests, and what it calls.
LEMMA FourthPlaces ==
  ASSUME GuestAssumption, PosInv, NEW g, NEW t, AtCall(g, t), NEW st, st = Current(g, t),
         test \in {"overflow", "post-close-send"}
  PROVE  /\ g = B /\ st.op # "send" /\ test \notin TwoPeer
         /\ K(B) = 4 => t = 1
         /\ K(B) = 4 /\ I(B) = 2 /\ test = "overflow" => st.op = "receive" /\ st.at = "offerer"
<1>1. AsBoth(g, t, st) /\ t \in {1, 2} /\ test \notin TwoPeer
  BY AtPlace DEF AsPeer, TwoPeer
<1>2. g = B /\ pos[B].ix[t] \in 1..InprocSize(K(B), t) /\ InprocCall(K(B), t, pos[B].ix[t], st)
  BY <1>1 DEF AsBoth
<1>3. st.op # "send"
  BY <1>1, CallPlaces
<1>4. ASSUME K(B) = 4
      PROVE  /\ t = 1
             /\ I(B) = 2 /\ test = "overflow" => st.op = "receive" /\ st.at = "offerer"
  <2>1. ClosesAt # 4
    BY <1>1 DEF ClosesAt
  <2>2. InprocSize(K(B), t) = FourthSize(t) /\ (InprocCall(K(B), t, pos[B].ix[t], st) <=> FourthCall(t, pos[B].ix[t], st))
    BY <1>4, <2>1 DEF InprocSize, InprocCall
  <2>3. t = 1
    BY <1>1, <1>2, <2>2 DEF FourthSize
  <2>4. ASSUME I(B) = 2, test = "overflow"
        PROVE  st.op = "receive" /\ st.at = "offerer"
    <3>1. FourthCall(t, 2, st)
      BY <1>2, <2>2, <2>3, <2>4 DEF I
    <3> QED BY <2>4, <3>1 DEF FourthCall, Receives, Is
  <2> QED BY <2>3, <2>4
<1> QED BY <1>1, <1>2, <1>3, <1>4

\* After the close of post-close-send every send that is accepted uses up the lag.
LEMMA PostCloseCall ==
  ASSUME GuestAssumption, Always, Good, NEW g, NEW t, AtCall(g, t), NEW st, st = Current(g, t), ACall(g, t, st),
         test = "post-close-send", (K(B) = 4 /\ I(B) = 2)'
  PROVE  loops' + chan'["offerer"].lag <= Lag /\ chan'["offerer"].closed
<1>t. /\ chan \in [Sides -> Chans] /\ "offerer" \in Sides /\ chan["offerer"] \in Chans /\ chan["offerer"].lag \in Nat
      /\ loops \in Nat /\ Lag \in Nat /\ PosInv
  BY Values DEF Always, HostInv, Sides, Chans
<1>1. g = B /\ B \in Guests /\ K(B)' = K(B) /\ K(B) = 4 /\ t = 1
  <2>1. g = B /\ B \in Guests
    BY <1>t, FourthPlaces DEF AtCall
  <2>2. K(B)' = K(B)
    BY <1>t, <2>1, Forward, CallMoves
  <2> QED BY <1>t, <2>1, <2>2, FourthPlaces
<1>2. CASE Goes(g, t)
  <2>1. I(B)' = I(B) + 1 /\ I(B) \in Nat
    BY <1>t, <1>1, <1>2, GoesFacts DEF I, Threads, PosInv
  <2>2. st.op = "close" /\ st.at = "offerer" /\ I(B) = 1
    <3>1. I(B) = 1
      BY <2>1
    <3>2. st.op = "close"
      BY <1>t, <1>1, <3>1, CallPlaces
    <3> QED BY <1>t, <1>1, <3>1, <3>2, CallPlaces DEF TwoPeer, ClosesAt
  <2>3. Close(g, t, st)
    BY <2>2 DEF ACall, Describe, PublishOrDone, RecvOffer, ConsumeSignaling, WaitConnected, FirstIncoming,
                SendCall, SendLoop, ReceiveCall, StreamCall
  <2>4. PICK lag \in 0..Lag : chan' = [chan EXCEPT !["offerer"].closed = TRUE, !["offerer"].lag = lag]
    BY <2>2, <2>3 DEF Close
  <2>5. chan'["offerer"].closed /\ chan'["offerer"].lag = lag
    BY <1>t, <2>4 DEF Chans
  <2>6. loops' = 0
    <3>1. loops' = loops
      BY <2>3 DEF Close
    <3> QED BY <1>1, <2>2, <3>1 DEF Always, LoopsInv
  <2> QED BY <1>t, <2>5, <2>6
<1>3. CASE Stays /\ st.op \notin {"close", "claim"}
  <2>1. I(B) = 2 /\ pos' = pos
    BY <1>3 DEF Stays, I
  <2>2. loops + chan["offerer"].lag <= Lag /\ chan["offerer"].closed
    BY <1>1, <2>1 DEF Good, SpecialInv
  <2>3. ~Goes(g, t)
    <3>1. Goes(g, t) => I(B)' = I(B) + 1 /\ I(B) \in Nat
      BY <1>t, <1>1, GoesFacts DEF I, Threads, PosInv
    <3> QED BY <2>1, <3>1
  <2>4. SendLoop(g, t, st)
    <3>1. ~RecvOffer(g, t, st) /\ ~ConsumeSignaling(g, t, st)
      BY <1>t, ConnectPlaces DEF RecvOffer, ConsumeSignaling, TwoPeer
    <3>2. ~WaitConnected(g, t, st) /\ ~FirstIncoming(g, t, st)
      BY <2>3, WaitGoes
    <3>3. ~SendCall(g, t, st) /\ ~StreamCall(g, t, st) /\ ~ReceiveCall(g, t, st)
      BY <2>3, SendGoes, StreamGoes, ReceiveGoes
    <3> QED BY <2>3, <3>1, <3>2, <3>3 DEF ACall, Describe, PublishOrDone, Close
  <2>5. ~Dead("offerer") /\ Accepted("offerer", Filler) /\ loops' = loops + 1
    BY <2>3, <2>4, SendLoopGoes
  <2>6. chan' = [chan EXCEPT !["offerer"].lag = @ - 1] /\ chan["offerer"].lag # 0
    BY <2>2, <2>5 DEF Accepted, Dead
  <2>7. chan'["offerer"].lag = chan["offerer"].lag - 1 /\ chan'["offerer"].closed = chan["offerer"].closed
    BY <1>t, <2>6 DEF Chans
  <2> QED BY <1>t, <2>2, <2>5, <2>6, <2>7
<1> QED BY <1>2, <1>3, CallGoes

\* In the overflow test only the flood's sends come to be under way.
LEMMA OverflowCall ==
  ASSUME GuestAssumption, Always, Good, NEW g, NEW t, AtCall(g, t), NEW st, st = Current(g, t), ACall(g, t, st),
         test = "overflow"
  PROVE  /\ K(B)' < 4 => wire'["answerer"] = <<>> /\ ~chan'["answerer"].over
         /\ (K(B) = 4 /\ I(B) = 3)' => chan'["answerer"].over
         /\ \A i \in 1..Len(wire'["answerer"]) : wire'["answerer"][i] = Filler
         /\ \A i \in 1..Len(chan'["answerer"].inbox) : chan'["answerer"].inbox[i] = Filler
<1> DEFINE a == "answerer"
<1>t. /\ chan \in [Sides -> Chans] /\ wire \in [Sides -> Seq(Nat)] /\ a \in Sides /\ "offerer" \in Sides /\ Other("offerer") = a
      /\ chan[a].inbox \in Seq(Nat) /\ wire[a] \in Seq(Nat) /\ PosInv /\ Filler \in Nat /\ st.at \in Sides
  <2>1. st.at \in Sides
    BY ConnectPlaces DEF Always
  <2>2. Filler \in Nat
    BY Values
  <2> QED BY <2>1, <2>2 DEF Always, HostInv, Sides, Chans, Other
<1>1. /\ K(B) < 4 => wire[a] = <<>> /\ ~chan[a].over
      /\ K(B) = 4 /\ I(B) = 3 => chan[a].over
      /\ \A i \in 1..Len(wire[a]) : wire[a][i] = Filler
      /\ \A i \in 1..Len(chan[a].inbox) : chan[a].inbox[i] = Filler
  BY DEF Good, SpecialInv
<1>2. g = B /\ B \in Guests /\ K(B)' = K(B) /\ st.op # "send" /\ test \notin TwoPeer
  <2>1. g = B /\ B \in Guests /\ st.op # "send" /\ test \notin TwoPeer
    BY <1>t, FourthPlaces DEF AtCall
  <2> QED BY <1>t, <2>1, Forward, CallMoves
<1>3. chan'[a].over = chan[a].over
  BY <1>t, CallHost
<1>4. wire'[a] = wire[a] \/ (K(B) = 4 /\ wire'[a] = Append(wire[a], Filler))
  <2>1. CASE SendLoop(g, t, st)
    <3>1. K(B) = 4 /\ (wire' = wire \/ Accepted("offerer", Filler))
      BY <2>1, SendLoopGoes
    <3>2. Accepted("offerer", Filler) =>
            wire'[Other("offerer")] = wire[Other("offerer")] \/ wire'[Other("offerer")] = Append(wire[Other("offerer")], Filler)
      BY <1>t, AcceptedFacts
    <3> QED BY <1>t, <3>1, <3>2
  <2>2. CASE ~SendLoop(g, t, st)
    <3>1. wire' = wire
      BY <1>2, <2>2 DEF ACall, Describe, PublishOrDone, RecvOffer, ConsumeSignaling, WaitConnected, FirstIncoming,
                SendCall, ReceiveCall, StreamCall, Close, hostVars
    <3> QED BY <3>1
  <2> QED BY <2>1, <2>2
<1>5. \A i \in 1..Len(wire'[a]) : wire'[a][i] = Filler
  <2> DEFINE w == wire[a]
  <2>1. w \in Seq(Nat) /\ \A i \in 1..Len(w) : w[i] = Filler
    BY <1>1, <1>t
  <2>2. wire'[a] = w \/ wire'[a] = Append(w, Filler)
    BY <1>4
  <2> HIDE DEF w
  <2>3. \A i \in 1..Len(Append(w, Filler)) : Append(w, Filler)[i] = Filler
    BY <1>t, <2>1, AllAppended
  <2> QED BY <2>1, <2>2, <2>3
<1>6. chan'[a].inbox = chan[a].inbox \/ (chan[a].inbox # <<>> /\ chan'[a].inbox = Tail(chan[a].inbox))
  <2>1. CASE SendLoop(g, t, st)
    <3>1. chan' = chan \/ Accepted("offerer", Filler)
      BY <2>1, SendLoopGoes
    <3> QED BY <1>t, <3>1, AcceptedFacts
  <2>2. CASE ReceiveCall(g, t, st) \/ StreamCall(g, t, st)
    <3>1. \/ chan' = chan \/ chan' = [chan EXCEPT ![st.at].claimed = TRUE]
          \/ chan[st.at].inbox # <<>> /\ chan' = [chan EXCEPT ![st.at].inbox = Tail(@)]
      BY <2>2 DEF ReceiveCall, StreamCall
    <3>2. CASE st.at = a
      <4>1. CASE chan' = [chan EXCEPT ![a].claimed = TRUE]
        BY <1>t, <4>1 DEF Chans
      <4>2. CASE chan[a].inbox # <<>> /\ chan' = [chan EXCEPT ![a].inbox = Tail(@)]
        BY <1>t, <4>2 DEF Chans
      <4> QED BY <3>1, <3>2, <4>1, <4>2
    <3>3. CASE st.at # a
      <4>1. chan'[a] = chan[a]
        BY <1>t, <3>1, <3>3
      <4> QED BY <4>1
    <3> QED BY <3>2, <3>3
  <2>3. CASE Close(g, t, st)
    <3>1. PICK lag \in 0..Lag : chan' = [chan EXCEPT ![st.at].closed = TRUE, ![st.at].lag = lag]
      BY <2>3 DEF Close
    <3> QED BY <1>t, <3>1 DEF Chans
  <2>4. CASE ~(SendLoop(g, t, st) \/ ReceiveCall(g, t, st) \/ StreamCall(g, t, st) \/ Close(g, t, st))
    <3>1. chan' = chan
      BY <1>2, <2>4 DEF ACall, Describe, PublishOrDone, RecvOffer, ConsumeSignaling, WaitConnected, FirstIncoming,
                SendCall, hostVars
    <3> QED BY <3>1
  <2> QED BY <2>1, <2>2, <2>3, <2>4
<1>7. \A i \in 1..Len(chan'[a].inbox) : chan'[a].inbox[i] = Filler
  <2> DEFINE q == chan[a].inbox
  <2>1. q \in Seq(Nat) /\ \A i \in 1..Len(q) : q[i] = Filler
    BY <1>1, <1>t
  <2>2. chan'[a].inbox = q \/ (q # <<>> /\ chan'[a].inbox = Tail(q))
    BY <1>6
  <2> HIDE DEF q
  <2>3. q # <<>> => \A i \in 1..Len(Tail(q)) : Tail(q)[i] = Filler
    BY <2>1
  <2> QED BY <2>1, <2>2, <2>3
<1>8. ASSUME (K(B) = 4 /\ I(B) = 3)'
      PROVE  chan[a].over
  <2>1. K(B) = 4 /\ t = 1
    BY <1>2, <1>8, <1>t, FourthPlaces
  <2>2. CASE Goes(g, t)
    <3>1. I(B)' = I(B) + 1 /\ I(B) \in Nat
      BY <1>t, <1>2, <2>1, <2>2, GoesFacts DEF I, Threads, PosInv
    <3>2. st.op = "receive" /\ st.at = "offerer" /\ I(B) = 2
      BY <1>t, <1>8, <2>1, <3>1, FourthPlaces
    <3>3. ReceiveCall(g, t, st)
      BY <3>2 DEF ACall, Describe, PublishOrDone, RecvOffer, ConsumeSignaling, WaitConnected, FirstIncoming,
                SendCall, SendLoop, StreamCall, Close
    <3>4. Flow("offerer")
      BY <1>t DEF Good, FlowInv
    <3>5. chan["offerer"].inbox = <<>> /\ ~chan["offerer"].over
      BY <1>t, <3>4, NothingSent DEF Flow
    <3>6. ~chan["offerer"].claimed
      <4>1. ~Claims("offerer")
        BY DEF Claims
      <4> QED BY <1>t, <4>1 DEF Good, ClaimInv
    <3>7. Dead("offerer")
      BY <3>2, <3>3, <3>5, <3>6 DEF ReceiveCall
    <3>8. Ended
      BY <1>t, <3>7 DEF Good, EndInv, Dead
    <3>9. Ended <=> chan[a].over \/ K(B) = 5
      BY <1>2 DEF Ended
    <3> QED BY <2>1, <3>8, <3>9
  <2>3. CASE Stays
    BY <1>1, <1>8, <2>3 DEF Stays, K, I
  <2> QED BY <2>2, <2>3, CallGoes
<1> QED BY <1>1, <1>2, <1>3, <1>4, <1>5, <1>7, <1>8

\* The peer that waits for a connection which cannot come stays new until it is closed.
LEMMA TimedOutCall ==
  ASSUME GuestAssumption, Always, Good, NEW g, NEW t, AtCall(g, t), NEW st, st = Current(g, t), ACall(g, t, st),
         test = "timed-out"
  PROVE  ~peer'["answerer"].local /\ (peer'["offerer"].conn = "new" \/ I(B)' > 2)
<1>t. peer \in [Sides -> Peers] /\ "offerer" \in Sides /\ "answerer" \in Sides /\ PosInv
  BY DEF Always, HostInv, Sides
<1>1. st.op \in {"offer", "times-out", "close"} /\ st.at = "offerer" /\ t = 1
  BY <1>t, CallPlaces
<1>2. ~peer["answerer"].local /\ (peer["offerer"].conn = "new" \/ I(B) > 2)
  BY DEF Good, SpecialInv
<1>3. g = B /\ B \in Guests
  BY DEF Guests, TwoPeer, AtCall, B
<1>4. I(B) \in Nat /\ I(B)' \in Nat /\ I(B)' >= I(B)
  BY <1>t, <1>3, Forward, CallMoves
<1>5. CASE Describe(g, t, st)
  <2>1. peer' = [peer EXCEPT !["offerer"].local = TRUE]
    BY <1>1, <1>5 DEF Describe
  <2> QED BY <1>2, <1>4, <1>t, <2>1 DEF Peers
<1>6. CASE WaitConnected(g, t, st)
  <2>1. peer' = peer
    BY <1>6 DEF WaitConnected, hostVars
  <2> QED BY <1>2, <1>4, <2>1
<1>7. CASE Close(g, t, st)
  <2>1. peer' = [peer EXCEPT !["offerer"].conn = "closed"] /\ Goes(g, t) /\ I(B) = 3
    BY <1>1, <1>7, <1>t, CallPlaces DEF Close, Closed, TwoPeer, Connected, InProcess
  <2>2. peer'["answerer"] = peer["answerer"]
    BY <1>t, <2>1
  <2> QED BY <1>2, <1>4, <2>1, <2>2
<1> QED BY <1>1, <1>5, <1>6, <1>7 DEF ACall, PublishOrDone, RecvOffer, ConsumeSignaling, FirstIncoming,
                SendCall, SendLoop, ReceiveCall, StreamCall

\* Every call keeps what is particular to a test.
LEMMA SpecialCall ==
  ASSUME GuestAssumption, Always, Good, NEW g, NEW t, AtCall(g, t), NEW st, st = Current(g, t), ACall(g, t, st)
  PROVE  SpecialInv'
<1>1. test' = test
  BY CallMoves DEF Goes, Stops, Stays
<1> QED BY <1>1, PostCloseCall, OverflowCall, TimedOutCall DEF SpecialInv

\* The answerer's first call receives the offer; no call of a two-peer test sets
\* the remote description by itself.
LEMMA PeerPlaces ==
  ASSUME GuestAssumption, PosInv, test \in TwoPeer, NEW g, NEW t, AtCall(g, t), NEW st, st = Current(g, t)
  PROVE  /\ g \in Sides /\ st.at = g /\ st.op # "set-remote"
         /\ g = "answerer" /\ K(g) = 1 /\ I(g) = 1 => st.op = "recv-offer"
         /\ K(g) = 1 => t = 1
<1>1. AsPeer(g, t, st) /\ t \in {1, 2}
  BY AtPlace DEF AsBoth
<1>2. g \in Sides /\ K(g) \in 1..4 /\ pos[g].ix[t] \in 1..PeerSize(g, K(g), t) /\ PeerCall(g, K(g), t, pos[g].ix[t], st)
  BY <1>1 DEF AsPeer
<1>3. K(g) = 1 => t = 1
  BY <1>1, <1>2 DEF PeerSize
<1>4. ASSUME g = "answerer", K(g) = 1, I(g) = 1
      PROVE  st.op = "recv-offer"
  <2>1. HandshakeCall(g, 1, st)
    BY <1>2, <1>3, <1>4 DEF PeerCall, I, BarrierCall
  <2> QED BY <1>4, <2>1 DEF HandshakeCall, Offset, Is
<1>5. st.op # "set-remote" /\ st.at = g
  BY <1>2 DEF PeerCall, HandshakeCall, ExchangeCall, BarrierCall, Is, Sends, Receives
<1> QED BY <1>2, <1>3, <1>4, <1>5

\* The answerer leaves its first place when it goes on, and only then.
LEMMA FirstPlace ==
  ASSUME GuestAssumption, PosInv, test \in TwoPeer, NEW g, NEW t, AtCall(g, t), Goes(g, t)
  PROVE  /\ K("answerer")' = K("answerer") /\ I("answerer") >= 1
         /\ g = "answerer" /\ K(g) = 1 => I("answerer")' = I("answerer") + 1 /\ I("answerer") \in Nat
         /\ g # "answerer" \/ K(g) # 1 => ((K("answerer") = 1 /\ I("answerer") = 1)' <=> K("answerer") = 1 /\ I("answerer") = 1)
<1>1. g \in Sides /\ "answerer" \in Guests /\ g \in Guests /\ t \in Threads
  BY DEF AtCall, Guests, Sides
<1>2. K("answerer")' = K("answerer") /\ I("answerer") \in Nat /\ I("answerer") >= 1
  BY <1>1, GoesFacts DEF K, I, PosInv, Threads
<1>3. g = "answerer" /\ K(g) = 1 => I("answerer")' = I("answerer") + 1
  BY <1>1, PeerPlaces, GoesFacts DEF I
<1>4. g # "answerer" => I("answerer")' = I("answerer")
  BY <1>1, GoesFacts DEF I
<1> QED BY <1>2, <1>3, <1>4

\* Calls that neither publish nor receive a description.
LEMMA MetSame ==
  ASSUME GuestAssumption, PosInv, MetInv, test \in TwoPeer, test' = test,
         NEW g, NEW t, AtCall(g, t), NEW st, st = Current(g, t),
         Goes(g, t) \/ Stays, st.op # "publish", Goes(g, t) => st.op # "recv-offer",
         UNCHANGED <<published, received>>, frozen' = frozen \/ (Goes(g, t) /\ st.op = "done" /\ frozen' = frozen \union {g}),
         \A s \in Sides : peer'[s].remote = peer[s].remote
  PROVE  MetInv'
<1>1. \A s \in Sides : Pub(s)' = Pub(s)
  <2>1. CASE Goes(g, t)
    BY <2>1, PubGo
  <2>2. CASE Stays
    BY <2>2 DEF Stays, Pub, K, I
  <2> QED BY <2>1, <2>2
<1>2. (K("answerer") = 1 /\ I("answerer") = 1)' <=> K("answerer") = 1 /\ I("answerer") = 1
  <2>1. CASE Goes(g, t)
    <3>1. g = "answerer" /\ K(g) = 1 => I(g) # 1
      BY <2>1, PeerPlaces
    <3> QED BY <2>1, <3>1, FirstPlace
  <2>2. CASE Stays
    BY <2>2 DEF Stays, K, I
  <2> QED BY <2>1, <2>2
<1>3. \A s \in Sides : s \in frozen' => Pub(s) = 3
  <2>1. Goes(g, t) /\ st.op = "done" => Pub(g) = 3
    <3>1. g \in Sides
      BY DEF AtCall, Guests
    <3> QED BY <3>1, PubGo
  <2> QED BY <2>1 DEF MetInv
<1>4. \A s \in Sides : Other(s) \in Sides
  BY DEF Other, Sides
<1> QED BY <1>1, <1>2, <1>3, <1>4 DEF MetInv

\* A publish keeps what the sides have exchanged.
LEMMA MetPublish ==
  ASSUME GuestAssumption, Always, Good, test \in TwoPeer, NEW g, NEW t, AtCall(g, t), NEW st, st = Current(g, t),
         PublishOrDone(g, t, st)
  PROVE  MetInv'
<1>0. PosInv /\ g \in Sides /\ st.at = g /\ Goes(g, t) /\ peer' = peer /\ test' = test
  BY PeerPlaces DEF Always, PublishOrDone, Goes, hostVars
<1>1. CASE st.op = "publish"
  <2>1. Mail!Publish(g, st.blob)
    BY <1>0, <1>1 DEF PublishOrDone
  <2>2. /\ published' = [published EXCEPT ![g] = Append(@, st.blob)] /\ UNCHANGED <<frozen, received>>
        /\ g \notin frozen
    BY <2>1 DEF Mail!Publish
  <2>3. published \in [Sides -> Seq(Nat)] /\ received \in [Sides -> Seq(Nat)]
    BY DEF Always, MailInv
  <2>4. \A s \in Sides : Pub(s)' = (IF s = g THEN Pub(s) + 1 ELSE Pub(s))
    BY <1>0, <1>1, PubGo
  <2>5. Pub(g) \in Nat /\ K(g) = 1
    BY <1>0, <1>1, PubFacts, PubGo
  <2>6. \A s \in Sides : Len(published'[s]) = Pub(s)'
    <3>1. Len(published[g]) = Pub(g)
      BY <1>0 DEF Good, MetInv
    <3>2. Len(published'[g]) = Len(published[g]) + 1
      BY <1>0, <2>2, <2>3
    <3>3. \A s \in Sides : s # g => published'[s] = published[s]
      BY <1>0, <2>2, <2>3
    <3> QED BY <1>0, <2>4, <3>1, <3>2, <3>3 DEF Good, MetInv
  <2>7. (K("answerer") = 1 /\ I("answerer") = 1)' <=> K("answerer") = 1 /\ I("answerer") = 1
    <3>1. g = "answerer" /\ K(g) = 1 => I(g) # 1
      BY <1>0, <1>1, PeerPlaces
    <3> QED BY <1>0, <3>1, FirstPlace
  <2>8. \A s \in Sides : s \in frozen' => Pub(s)' = 3
    BY <1>0, <2>2, <2>4 DEF Good, MetInv
  <2>9. \A s \in Sides : Other(s) \in Sides
    BY DEF Other, Sides
  <2> QED BY <1>0, <2>2, <2>6, <2>7, <2>8, <2>9 DEF Good, MetInv
<1>2. CASE st.op = "done"
  <2>1. Mail!Freeze(g)
    BY <1>0, <1>2 DEF PublishOrDone
  <2>2. frozen' = frozen \union {g} /\ UNCHANGED <<published, received>>
    BY <2>1 DEF Mail!Freeze
  <2> QED BY <1>0, <1>2, <2>2, MetSame DEF Good
<1> QED BY <1>1, <1>2 DEF PublishOrDone

\* A blob is received; the first is a description, which is applied.
LEMMA MetTaken ==
  ASSUME GuestAssumption, Always, Good, test \in TwoPeer, test' = test, NEW g, NEW t, AtCall(g, t), NEW st, st = Current(g, t),
         NEW b \in Nat, Mail!Receive(Other(g), b),
         \/ Goes(g, t) /\ st.op = "recv-offer"
         \/ Stays /\ st.op = "consume",
         \A s \in Sides : peer'[s].remote = (IF s = g /\ b = Sdp THEN TRUE ELSE peer[s].remote)
  PROVE  MetInv'
<1>0. PosInv /\ MetInv /\ g \in Sides /\ st.at = g /\ g \in Guests
  BY PeerPlaces DEF Always, Good, AtCall
<1>s. Other(g) \in Sides /\ Other(Other(g)) = g /\ \A s \in Sides : Other(s) \in Sides /\ (s # Other(g) => s = g /\ Other(s) # g)
  BY <1>0 DEF Other, Sides
<1>1. /\ b = Len(received[Other(g)]) + 1 /\ Len(received'[Other(g)]) = b
      /\ \A s \in Sides : s # Other(g) => received'[s] = received[s]
      /\ published' = published /\ frozen' = frozen
      /\ received \in [Sides -> Seq(Nat)]
  BY <1>s, MailReceived DEF Always, MailInv
<1>2. Len(received[Other(g)]) \in Nat /\ b \in Nat /\ b >= 1
  BY <1>1, <1>s
<1>3. \A s \in Sides : Pub(s)' = Pub(s)
  <2>1. CASE Goes(g, t)
    BY <1>0, <2>1, PubGo
  <2>2. CASE Stays
    BY <2>2 DEF Stays, Pub, K, I
  <2> QED BY <2>1, <2>2
<1>4. Len(received'["offerer"]) = 0 <=> (K("answerer") = 1 /\ I("answerer") = 1)'
  <2>0. Len(received["offerer"]) = 0 <=> K("answerer") = 1 /\ I("answerer") = 1
    BY <1>0 DEF MetInv, Sides
  <2>1. CASE g = "answerer"
    <3>1. Len(received'["offerer"]) # 0
      BY <1>1, <1>2, <2>1 DEF Other
    <3>2. ~(K("answerer") = 1 /\ I("answerer") = 1)'
      <4>1. CASE Goes(g, t) /\ st.op = "recv-offer"
        <5>1. K(g) = 1
          BY <1>0, <4>1, ConnectPlaces
        <5> QED BY <1>0, <2>1, <4>1, <5>1, FirstPlace
      <4>2. CASE Stays /\ st.op = "consume"
        <5>1. I(g) = Offset(g) + 4
          BY <1>0, <4>2, ConnectPlaces
        <5>2. I("answerer")' = 7
          BY <2>1, <4>2, <5>1 DEF Stays, I, Offset
        <5> QED BY <5>2
      <4> QED BY <4>1, <4>2
    <3> QED BY <3>1, <3>2
  <2>2. CASE g = "offerer"
    <3>1. received'["offerer"] = received["offerer"]
      BY <1>1, <2>2 DEF Other, Sides
    <3>2. Stays
      BY <1>0, <2>2, ConnectPlaces
    <3>3. (K("answerer") = 1 /\ I("answerer") = 1)' <=> K("answerer") = 1 /\ I("answerer") = 1
      BY <3>2 DEF Stays, K, I
    <3> QED BY <2>0, <3>1, <3>3
  <2> QED BY <1>0, <2>1, <2>2 DEF Sides
<1>5. ASSUME NEW s \in Sides
      PROVE  peer'[Other(s)].remote <=> Len(received'[s]) > 0
  <2>0. peer[Other(s)].remote <=> Len(received[s]) > 0
    BY <1>0 DEF MetInv
  <2>1. CASE s = Other(g)
    <3>1. peer'[g].remote <=> TRUE
      <4>1. CASE b = Sdp
        BY <1>0, <4>1
      <4>2. CASE b # Sdp
        <5>1. Len(received[s]) > 0
          BY <1>1, <1>2, <2>1, <4>2 DEF Sdp
        <5>2. peer[g].remote
          BY <1>s, <2>0, <2>1, <5>1
        <5> QED BY <1>0, <4>2, <5>2
      <4> QED BY <4>1, <4>2
    <3> QED BY <1>1, <1>2, <1>s, <2>1, <3>1
  <2>2. CASE s # Other(g)
    <3>1. peer'[Other(s)].remote = peer[Other(s)].remote /\ received'[s] = received[s]
      BY <1>1, <1>s, <2>2
    <3> QED BY <2>0, <3>1
  <2> QED BY <2>1, <2>2
<1> QED BY <1>0, <1>1, <1>3, <1>4, <1>5 DEF MetInv

\* Every call keeps what the sides have exchanged.
LEMMA MetCall ==
  ASSUME GuestAssumption, Always, Good, NEW g, NEW t, AtCall(g, t), NEW st, st = Current(g, t), ACall(g, t, st)
  PROVE  MetInv'
<1>0. test' = test
  BY CallMoves DEF Goes, Stops, Stays
<1> SUFFICES ASSUME test \in TwoPeer PROVE MetInv'
  BY <1>0 DEF MetInv
<1>1. PosInv /\ MetInv /\ g \in Sides /\ st.at = g /\ st.op # "set-remote" /\ peer \in [Sides -> Peers]
  BY PeerPlaces DEF Always, Good, HostInv
<1>2. Goes(g, t) \/ Stays
  BY CallGoes
<1>3. ASSUME st.op \notin {"publish", "done", "recv-offer"}, UNCHANGED <<published, received, frozen>>,
             \A s \in Sides : peer'[s].remote = peer[s].remote
      PROVE  MetInv'
  BY <1>0, <1>1, <1>2, <1>3, MetSame
<1>4. ASSUME st.op \in {"recv-offer", "consume"}, NEW b \in Nat, Mail!Receive(Other(g), b),
             (Goes(g, t) /\ st.op = "recv-offer") \/ (Stays /\ st.op = "consume"),
             NEW p, peer' = [peer EXCEPT ![g] = p], p.remote = (IF b = Sdp THEN TRUE ELSE peer[g].remote)
      PROVE  MetInv'
  <2>1. \A s \in Sides : peer'[s].remote = (IF s = g /\ b = Sdp THEN TRUE ELSE peer[s].remote)
    BY <1>1, <1>4
  <2> QED BY <1>0, <1>4, <2>1, MetTaken
<1>5. peer[g] \in Peers
  BY <1>1
<1>r. [peer[g] EXCEPT !.remote = TRUE].remote = TRUE /\ [peer[g] EXCEPT !.cands = @ + 1].remote = peer[g].remote
  BY <1>5 DEF Peers
<1>6. CASE Describe(g, t, st)
  <2>1. /\ st.op \notin {"publish", "done", "recv-offer"} /\ UNCHANGED <<published, received, frozen>>
        /\ \/ peer' = peer \/ peer' = [peer EXCEPT ![g].local = TRUE] \/ peer' = [peer EXCEPT ![g].cands = @ + 1]
    BY <1>1, <1>6 DEF Describe, mailVars
  <2>2. \A s \in Sides : peer'[s].remote = peer[s].remote
    BY <1>1, <2>1 DEF Peers
  <2> QED BY <1>3, <2>1, <2>2
<1>7. CASE PublishOrDone(g, t, st)
  BY <1>7, MetPublish
<1>8. CASE RecvOffer(g, t, st)
  <2>1. /\ st.op = "recv-offer" /\ Goes(g, t) /\ Mail!Receive(Other(g), Sdp)
        /\ peer' = [peer EXCEPT ![g].remote = TRUE]
    <3>1. Goes(g, t) /\ Mail!Receive(Other(st.at), Sdp) /\ peer' = [peer EXCEPT ![st.at].remote = TRUE]
      BY <1>8, RecvOfferGoes
    <3>2. st.op = "recv-offer"
      BY <1>8 DEF RecvOffer
    <3> QED BY <1>1, <3>1, <3>2
  <2>2. Sdp \in Nat
    BY DEF Sdp
  <2> QED BY <1>4, <1>r, <2>1, <2>2
<1>9. CASE ConsumeSignaling(g, t, st)
  <2>1. st.op = "consume"
    BY <1>9 DEF ConsumeSignaling
  <2>2. EndOfCandidates \in Nat /\ Sdp \in Nat /\ Candidate \in Nat /\ Candidate # Sdp /\ EndOfCandidates # Sdp
    BY DEF Sdp, Candidate, EndOfCandidates
  <2>3. CASE Mail!Receive(Other(g), EndOfCandidates) /\ Stays /\ UNCHANGED peer
    <3>1. peer' = [peer EXCEPT ![g] = peer[g]]
      BY <1>1, <2>3
    <3> QED BY <1>4, <2>1, <2>2, <2>3, <3>1
  <2>4. CASE Mail!Receive(Other(g), Sdp) /\ peer' = [peer EXCEPT ![g].remote = TRUE] /\ Stays
    BY <1>4, <1>r, <2>1, <2>2, <2>4
  <2>5. CASE Mail!Receive(Other(g), Candidate) /\ peer' = [peer EXCEPT ![g].cands = @ + 1] /\ Stays
    BY <1>4, <1>r, <2>1, <2>2, <2>5
  <2>6. CASE Mail!End(Other(g)) /\ Goes(g, t) /\ UNCHANGED peer
    <3>1. UNCHANGED <<published, received, frozen>>
      BY <2>6 DEF Mail!End
    <3> QED BY <1>3, <2>1, <2>6, <3>1
  <2> QED BY <1>9, <2>3, <2>4, <2>5, <2>6, ConsumeGoes
<1>10. CASE WaitConnected(g, t, st) \/ FirstIncoming(g, t, st)
  BY <1>3, <1>10 DEF WaitConnected, FirstIncoming, hostVars, mailVars
<1>11. CASE SendCall(g, t, st) \/ SendLoop(g, t, st)
  BY <1>3, <1>11 DEF SendCall, SendLoop, mailVars
<1>12. CASE ReceiveCall(g, t, st) \/ StreamCall(g, t, st)
  <2>1. st.op \in {"receive", "claim", "claim-fails", "read"} /\ peer' = peer /\ UNCHANGED <<published, received, frozen>>
    BY <1>12 DEF ReceiveCall, StreamCall, mailVars
  <2> QED BY <1>3, <2>1
<1>13. CASE Close(g, t, st)
  <2>1. st.op = "close" /\ peer' = [peer EXCEPT ![g].conn = "closed"] /\ UNCHANGED <<published, received, frozen>>
    BY <1>1, <1>13 DEF Close, Closed, mailVars
  <2>2. \A s \in Sides : peer'[s].remote = peer[s].remote
    BY <1>1, <2>1 DEF Peers
  <2> QED BY <1>3, <2>1, <2>2
<1> QED BY <1>6, <1>7, <1>8, <1>9, <1>10, <1>11, <1>12, <1>13 DEF ACall

-----------------------------------------------------------------------------
(* The invariant *)

\* Without a fault a call keeps the invariant.
LEMMA GoodCall ==
  ASSUME GuestAssumption, Always, Good, NEW g, NEW t, AtCall(g, t), NEW st, st = Current(g, t), ACall(g, t, st)
  PROVE  Good'
<1>1. test' = test
  BY CallMoves DEF Goes, Stops, Stays
<1>2. FlowInv'
  BY <1>1, FlowCall DEF FlowInv
<1> QED BY <1>2, RunsCall, EndCall, ClaimCall, SpecialCall, MetCall DEF Good

\* Every step keeps the invariant; a fault ends the promise of Good.
LEMMA IInvNext ==
  ASSUME GuestAssumption, IInv, Next
  PROVE  IInv'
<1>1. Always'
  BY AlwaysNext DEF IInv
<1>2. ASSUME ~fault'
      PROVE  Good'
  <2>1. ~Faults
    BY <1>2 DEF Faults, CallFails, ConnectionBreaks, MessageLost
  <2>2. CASE \E g \in Guests : NextStage(g)
    <3>1. PICK g \in Guests : NextStage(g)
      BY <2>2
    <3>2. fault' = fault
      BY <3>1 DEF NextStage
    <3> QED BY <1>2, <3>1, <3>2, GoodStage DEF IInv, Always
  <2>3. CASE \E g \in Guests, t \in Threads : AtCall(g, t) /\ ACall(g, t, Current(g, t))
    <3>1. PICK g \in Guests, t \in Threads : AtCall(g, t) /\ ACall(g, t, Current(g, t))
      BY <2>3
    <3>2. fault' = fault
      BY <3>1, CallMoves
    <3> QED BY <1>2, <3>1, <3>2, GoodCall DEF IInv
  <2>4. CASE Env
    <3>1. PICK s \in Sides : EnvStep(s)
      BY <2>4 DEF Env, EnvStep
    <3>2. fault' = fault
      BY <3>1 DEF EnvStep, Connect, Open, Deliver, CloseArrives, LagPasses
    <3> QED BY <1>2, <3>1, <3>2, GoodEnv DEF IInv
  <2> QED BY <2>1, <2>2, <2>3, <2>4, StepCases
<1> QED BY <1>1, <1>2 DEF IInv

\* A step that changes no variable keeps the invariant.
LEMMA IInvStutters ==
  ASSUME IInv, UNCHANGED vars
  PROVE  IInv'
<1>1. /\ UNCHANGED <<test, pos, verdict, loops, peer, chan, wire, fault>>
      /\ UNCHANGED <<published, frozen, received, ended, replaced>>
  BY DEF vars, guestVars, hostVars, mailVars
<1>2. /\ StageCount' = StageCount /\ Guests' = Guests /\ \A g, k, t : Size(g, k, t)' = Size(g, k, t)
      /\ \A g : K(g)' = K(g) /\ I(g)' = I(g) /\ J(g)' = J(g)
      /\ \A g : Pub(g)' = Pub(g)
  BY <1>1, TestKept DEF K, I, J, Pub
<1>3. Always'
  <2>1. PosInv'
    BY <1>1, <1>2 DEF IInv, Always, PosInv
  <2>2. HostInv'
    BY <1>1 DEF IInv, Always, HostInv
  <2>3. LoopsInv'
    BY <1>1, <1>2 DEF IInv, Always, LoopsInv
  <2>4. MailInv'
    BY <1>1, <1>2 DEF IInv, Always, MailInv
  <2> QED BY <2>1, <2>2, <2>3, <2>4 DEF Always
<1>4. ASSUME Good PROVE Good'
  <2>1. RunsInv'
    BY <1>1, <1>2, <1>4 DEF Good, RunsInv
  <2>2. EndInv'
    <3>1. Ended' <=> Ended
      BY <1>1, <1>2 DEF Ended
    <3> QED BY <1>1, <1>2, <1>4, <3>1 DEF Good, EndInv, Lost
  <2>3. FlowInv'
    <3>1. \A s : Sent(s)' = Sent(s) /\ Rec(s)' = Rec(s)
      BY <1>1, TestKept DEF Sent, Rec, SentAsPeer, RecAsPeer, K, I, J
    <3>2. ASSUME NEW s \in Sides, Flow(s) PROVE Flow(s)'
      BY <1>1, <3>1, <3>2, FlowSame
    <3> QED BY <1>1, <1>4, <3>2 DEF Good, FlowInv
  <2>4. ClaimInv'
    <3>1. \A s : Claims(s)' <=> Claims(s)
      BY <1>1, <1>2 DEF Claims
    <3> QED BY <1>1, <1>4, <3>1 DEF Good, ClaimInv
  <2>5. SpecialInv'
    BY <1>1, <1>2, <1>4 DEF Good, SpecialInv
  <2>6. MetInv'
    BY <1>1, <1>2, <1>4 DEF Good, MetInv
  <2> QED BY <2>1, <2>2, <2>3, <2>4, <2>5, <2>6 DEF Good
<1> QED BY <1>1, <1>3, <1>4 DEF IInv

\* The invariant holds at the start of every test.
LEMMA IInvInit ==
  ASSUME GuestAssumption, Init
  PROVE  IInv
<1>0. test \in TwoPeer \union InProcess /\ (test \in InProcess => test \notin TwoPeer /\ Guests = {B}) /\ (test \in TwoPeer => Guests = Sides)
  BY DEF Init, GuestAssumption, Guests, InProcess, TwoPeer, B
<1>1. /\ pos = [g \in Guests |-> [stage |-> 1, ix |-> <<1, 1>>, bad |-> FALSE]]
      /\ \A g \in Guests : pos[g].stage = 1 /\ pos[g].ix[1] = 1 /\ pos[g].ix[2] = 1 /\ pos[g].bad = FALSE
      /\ verdict = [g \in Guests |-> "run"] /\ loops = 0 /\ fault = FALSE /\ test \in Tests
  BY DEF Init
<1>2. /\ \A g \in Guests : K(g) = 1 /\ I(g) = 1 /\ J(g) = 1
      /\ test \in TwoPeer => \A s \in Sides : K(s) = 1 /\ I(s) = 1 /\ J(s) = 1
      /\ test \in InProcess => K(B) = 1 /\ I(B) = 1 /\ J(B) = 1
  BY <1>0, <1>1 DEF K, I, J
<1>3. /\ peer \in [Sides -> Peers] /\ chan \in [Sides -> Chans] /\ wire \in [Sides -> Seq(Nat)]
      /\ \A s \in Sides : /\ ~peer[s].local /\ ~peer[s].remote /\ peer[s].cands = 0 /\ peer[s].conn = "new"
                          /\ ~chan[s].closed /\ chan[s].inbox = <<>> /\ ~chan[s].over /\ ~chan[s].claimed
                          /\ wire[s] = <<>> /\ Len(chan[s].inbox) = 0 /\ Len(wire[s]) = 0
  <2>1. <<>> \in Seq(Nat) /\ 0 \in 0..Lag
    BY Values
  <2>2. [local |-> FALSE, remote |-> FALSE, cands |-> 0, conn |-> "new"] \in Peers
    BY DEF Peers, Conns
  <2>3. [open |-> FALSE, closed |-> FALSE, lag |-> 0, inbox |-> <<>>, over |-> FALSE, claimed |-> FALSE] \in Chans
    BY <2>1 DEF Chans
  <2> QED BY <2>1, <2>2, <2>3 DEF Init
<1>4. /\ published = [s \in Sides |-> <<>>] /\ received = [s \in Sides |-> <<>>] /\ frozen = {} /\ ~replaced
  BY DEF Init, Mail!Init
<1>5. \A s \in Sides : Other(s) \in Sides
  BY DEF Other, Sides
<1>6. test \in TwoPeer => \A s \in Sides : Pub(s) = 0
  BY <1>2 DEF Pub, Larger, Smaller, Offset
<1>7. PosInv
  <2>1. <<1, 1>> \in [Threads -> Nat]
    BY DEF Threads
  <2>2. pos \in [Guests -> [stage : Nat, ix : [Threads -> Nat], bad : BOOLEAN]]
    BY <1>1, <2>1
  <2>3. 1 \in 1..StageCount
    BY <1>0 DEF StageCount, ClosesAt, TwoPeer, InProcess
  <2>4. \A g \in Guests, t \in Threads : pos[g].stage = 1 /\ pos[g].ix[t] = 1
    BY <1>1 DEF Threads
  <2>5. \A g \in Guests, t \in Threads : pos[g].ix[t] \in 1..(Size(g, pos[g].stage, t) + 1)
    BY <2>3, <2>4, SizesNat
  <2>6. verdict \in [Guests -> {"run", "pass", "fail"}] /\ test \in Tests
    BY <1>1
  <2>7. \A g \in Guests : pos[g].stage \in 1..StageCount
    BY <1>1, <2>3
  <2> QED BY <2>2, <2>5, <2>6, <2>7 DEF PosInv
<1>8. HostInv
  <2>1. Limit \in Nat
    BY Values
  <2>2. \A s \in Sides : Len(chan[s].inbox) <= Limit
    BY <1>3, <2>1
  <2>3. fault \in BOOLEAN /\ loops \in Nat
    BY <1>1
  <2> QED BY <1>3, <2>2, <2>3, Zenon DEF HostInv
<1>9. LoopsInv
  BY <1>0, <1>1, <1>2, Values DEF LoopsInv
<1>10. MailInv
  <2>1. published \in [Sides -> Seq(Nat)] /\ received \in [Sides -> Seq(Nat)]
    <3>1. <<>> \in Seq(Nat)
      OBVIOUS
    <3> QED BY <1>4, <3>1
  <2>2. \A s \in Sides : /\ Len(published[s]) = 0 /\ Len(received[s]) = 0
                         /\ (\A i \in 1..Len(published[s]) : published[s][i] = i)
                         /\ (\A i \in 1..Len(received[s]) : received[s][i] = i)
    BY <1>4
  <2> QED BY <1>0, <1>3, <1>4, <1>5, <1>6, <2>1, <2>2 DEF MailInv
<1>11. RunsInv
  BY <1>1 DEF RunsInv
<1>12. EndInv
  BY <1>2, <1>3 DEF EndInv, Lost
<1>13. ASSUME NEW s \in Sides PROVE Flow(s)
  <2>1. Rec(s) = 0 /\ Sent(Other(s)) = 0
    <3>1. CASE test \in TwoPeer
      BY <1>2, <1>5, <3>1 DEF Rec, Sent, RecAsPeer, SentAsPeer
    <3>2. CASE test \notin TwoPeer
      BY <1>0, <1>2, <3>2 DEF Rec, Sent
    <3> QED BY <3>1, <3>2
  <2> QED BY <1>3, <2>1 DEF Flow
<1>14. ClaimInv
  BY <1>0, <1>2, <1>3 DEF ClaimInv, Claims, InProcess
<1>15. SpecialInv
  BY <1>0, <1>1, <1>2, <1>3 DEF SpecialInv, InProcess, TwoPeer, Sides
<1>16. MetInv
  BY <1>2, <1>3, <1>4, <1>5, <1>6 DEF MetInv, Sides
<1> QED BY <1>7, <1>8, <1>9, <1>10, <1>11, <1>12, <1>13, <1>14, <1>15, <1>16 DEF IInv, Always, Good, FlowInv

\* The invariant gives the types of the variables.
LEMMA IInvTypes ==
  ASSUME GuestAssumption, IInv
  PROVE  TypeOK
<1>1. PosInv /\ HostInv /\ LoopsInv /\ MailInv
  BY DEF IInv, Always
<1>2. \A g \in Guests : verdict[g] \in {"run", "pass", "fail"} /\ pos[g].stage \in 1..Len(Run(g))
  BY <1>1, StageTable DEF PosInv
<1>3. loops \in 0..(Limit + Tries + 2)
  <2>1. loops \in Nat /\ Limit \in Nat /\ Tries \in Nat
    BY <1>1, Values DEF HostInv
  <2> QED BY <1>1, <2>1 DEF LoopsInv
<1>4. ASSUME NEW s \in Sides
      PROVE  /\ peer[s].conn \in {"new", "connected", "closed", "failed"} /\ peer[s].cands \in 0..1
             /\ Len(chan[s].inbox) <= Limit /\ chan[s].lag \in 0..Lag
  <2>1. peer[s] \in Peers /\ chan[s] \in Chans /\ Len(chan[s].inbox) <= Limit
    BY <1>1 DEF HostInv
  <2>2. peer[s].cands \in 0..1
    <3>1. CASE test \in TwoPeer
      <4>1. Other(s) \in Sides /\ Other(Other(s)) = s
        BY DEF Other, Sides
      <4>2. peer[Other(Other(s))].cands \in 0..1
        BY <1>1, <3>1, <4>1, SMTT(30) DEF MailInv
      <4> QED BY <4>1, <4>2
    <3>2. CASE test \in InProcess
      BY <1>1, <3>2 DEF MailInv
    <3> QED BY <1>1, <3>1, <3>2 DEF PosInv, GuestAssumption
  <2> QED BY <2>1, <2>2 DEF Peers, Conns, Chans
<1> QED BY <1>1, <1>2, <1>3, <1>4 DEF TypeOK, PosInv, HostInv

\* A guest past the rendezvous has taken the sentinel, which the other sent.
LEMMA IInvRendezvous ==
  ASSUME GuestAssumption, IInv
  PROVE  Rendezvous
<1> SUFFICES ASSUME NEW g \in Guests \cap Sides, pos[g].stage = 4, ~fault
             PROVE  pos[Other(g)].stage >= 3
  BY DEF Rendezvous
<1>1. test \in TwoPeer /\ Always /\ Good /\ PosInv
  BY DEF Guests, Sides, IInv, Always
<1>2. g \in Sides /\ Other(g) \in Sides /\ Guests = Sides
  BY <1>1 DEF Sides, Other, Guests
<1> DEFINE h == Other(g)
<1>3. FlowTypes(g) /\ Flow(g)
  BY <1>1, <1>2, FlowTyped DEF Good, FlowInv, TwoPeer
<1>4. Rec(g) <= Sent(h)
  <2> DEFINE n == Len(chan[g].inbox)
  <2>1. Rec(g) \in Nat /\ n \in Nat /\ Sent(h) \in Nat /\ Rec(g) + n <= Sent(h)
    BY <1>3 DEF FlowTypes, Flow
  <2> HIDE DEF n, h
  <2> QED BY <2>1
<1>5. Rec(g) = Msgs + 1 /\ Msgs \in Nat
  BY <1>1, Values DEF Rec, RecAsPeer, K
<1>6. K(h) \in 1..4 /\ I(h) \in Nat
  BY <1>1, <1>2, PubFacts
<1>7. K(h) = 1 => Sent(h) = 0
  BY <1>1 DEF Sent, SentAsPeer
<1>8. K(h) = 2 => Sent(h) = Smaller(Msgs, I(h) - 1)
  BY <1>1 DEF Sent, SentAsPeer
<1> HIDE DEF h
<1>9. K(h) # 1 /\ K(h) # 2
  BY <1>4, <1>5, <1>6, <1>7, <1>8 DEF Smaller
<1> QED BY <1>6, <1>9 DEF K, h

\* The invariant holds in every state.
LEMMA IInvHolds == Spec => []IInv
<1>1. Init => IInv
  BY GuestAssumption, IInvInit
<1>2. IInv /\ [Next]_vars => IInv'
  BY GuestAssumption, IInvNext, IInvStutters
<1> QED BY <1>1, <1>2, PTL DEF Spec

\* Over a host that keeps its promises no test fails unless something outside the guests
\* failed, for any sizes of buffers, any number of messages and any lag of a close.
THEOREM ConformingHostPasses == Spec => []FailsOnlyOnFault
<1>1. ASSUME IInv PROVE FailsOnlyOnFault
  BY <1>1, GuestAssumption, IInvTypes DEF FailsOnlyOnFault, IInv, Good, RunsInv
<1> QED BY <1>1, IInvHolds, PTL

\* No guest closes before the other is done with its exchange (lib.rs:399-405): a guest
\* past the rendezvous has a peer that reached it.
THEOREM PeersMeet == Spec => []Rendezvous
<1>1. IInv => Rendezvous
  BY GuestAssumption, IInvRendezvous
<1> QED BY <1>1, IInvHolds, PTL
=============================================================================
