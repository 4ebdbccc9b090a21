-------------------- MODULE WasmtimePeerConnection_proofs --------------------
(***************************************************************************)
(* Proofs about WasmtimePeerConnection, for every set of channels, calls    *)
(* and waits and any number of candidates and remote channels.              *)
(*                                                                          *)
(* An offer covers the channels created before it for three reasons that    *)
(* IInv keeps: a channel once created stays so (BeforeOK), the count is the *)
(* number of creations under way (CountOK), and a creation that is over has *)
(* registered its channel or failed (RegisteredOK).  So a call that reads   *)
(* the count as zero finds every earlier channel registered or failed, and  *)
(* neither is ever taken back.                                              *)
(*                                                                          *)
(* A wait never sleeps through a transition because it is armed before it   *)
(* loads: between a flag it did not see set and its parking the handler has *)
(* still to notify, or has woken it (WaitInv).  A stream ends last because  *)
(* only a live core opens channels and gathers, a live core has the handler *)
(* (HandlerInv), and an opened channel has a task until it is pushed        *)
(* (StreamInv).                                                             *)
(***************************************************************************)
EXTENDS WasmtimePeerConnection, FiniteSetTheorems, TLAPS

ChanStates == {"none", "await", "end", "fail", "notify", "failnotify", "wire", "failed"}
CallRecord == [at : {"idle", "await", "armed", "parked", "core", "ok", "failed"}, woken : BOOLEAN,
               before : SUBSET Local]
WaitRecord == [at : {"idle", "await", "connected?", "failed?", "parked", "ok", "closed", "timed-out", "other"},
               woken : BOOLEAN]
CandRecord == [queued : Nat, read : Nat, ended : BOOLEAN]
StreamRecord == [taken : BOOLEAN, read : Nat, ended : BOOLEAN]

\* The types that TypeOK lists.
ScalarsOK ==
  /\ build \in {"build", "store", "send", "done"} /\ built \in {"pending", "ok", "err"}
  /\ slot \in BOOLEAN /\ closing \in BOOLEAN /\ connected \in BOOLEAN /\ failed \in BOOLEAN
  /\ handler \in BOOLEAN /\ attached \in BOOLEAN /\ gathering \in BOOLEAN
  /\ core \in {"none", "new", "connected", "failed", "closed"}
  /\ gone \in {"no", "closed", "dropped", "freed"}

\* The types of what the offers depend on.
RecordsOK == chan \in [Local -> ChanStates] /\ registered \in SUBSET Local /\ call \in [Calls -> CallRecord]

\* The channel creations under way.
Pending == {c \in Local : chan[c] \in {"await", "end", "fail"}}
CountOK == count = Cardinality(Pending)

\* A creation that got past the core registered its channel.
RegisteredOK == \A c \in Local : chan[c] \in {"end", "notify", "wire"} => c \in registered

\* An offer remembers channels that were created.
BeforeOK == \A k \in Calls : \A c \in call[k].before : chan[c] # "none"

Settled(c) == c \in registered \/ chan[c] \in {"failed", "failnotify"}
CoversOK == \A k \in Calls : call[k].at = "core" => \A c \in call[k].before : Settled(c)

\* The invariant of the offers.
OfferInv == RecordsOK /\ CountOK /\ RegisteredOK /\ BeforeOK /\ CoversOK

\* The invariant of the waits: one that is past the load of a flag, has not been
\* woken since, and did not see the flag set, will be woken by the handler.
Noticed(g) ==
  /\ g.at \in {"failed?", "parked"} /\ ~g.woken /\ connected => handler
  /\ g.at = "parked" /\ ~g.woken /\ failed => handler
WaitInv ==
  /\ wait \in [Waits -> WaitRecord]
  /\ \A w \in Waits : Noticed(wait[w])

\* There is no core before it is built, and the handler is there while the core
\* is live or still to be built.
HandlerInv ==
  /\ build = "build" => core = "none" /\ slot = FALSE /\ closing = FALSE
  /\ attached = FALSE => core \in {"none", "failed", "closed"} /\ build # "build"

\* The invariant of the streams: a channel is under way or has been pushed from
\* the moment it opened, and once a stream has ended nothing can be added to it.
StreamInv ==
  /\ rtask \in [Remote -> {"none", "label", "pushed"}]
  /\ opened \in Seq(Remote) /\ incoming \in Seq(Remote)
  /\ cands \in CandRecord /\ stream \in StreamRecord
  /\ \A i \in 1..Len(opened) : rtask[opened[i]] # "none"
  /\ \A c \in Remote : rtask[c] = "pushed" => \E i \in 1..Len(incoming) : incoming[i] = c
  /\ stream.ended => /\ ~attached /\ stream.read = Len(incoming)
                     /\ \A c \in Remote : rtask[c] # "label"
  /\ cands.ended => cands.read = cands.queued /\ (gathering => ~attached)

\* The inductive invariant.
IInv == ScalarsOK /\ OfferInv /\ WaitInv /\ HandlerInv /\ StreamInv

-----------------------------------------------------------------------------
(* The count *)

\* One more channel, or one less, under way.
LEMMA CountFacts ==
  ASSUME NEW S \in SUBSET Local, NEW c \in Local
  PROVE  /\ Cardinality(S) \in Nat
         /\ c \notin S => Cardinality(S \union {c}) = Cardinality(S) + 1
         /\ c \in S => Cardinality(S \ {c}) = Cardinality(S) - 1
         /\ Cardinality(S) = 0 => S = {}
<1>1. IsFiniteSet(S)
  BY LocalAssumption, FS_Subset
<1> QED
  BY <1>1, FS_CardinalityType, FS_AddElement, FS_RemoveElement, FS_EmptySet

\* A count of zero means that no creation is under way.
LEMMA NonePending ==
  ASSUME CountOK, count = 0, NEW c \in Local
  PROVE  chan[c] \notin {"await", "end", "fail"}
<1>1. Pending = {}
  BY CountFacts DEF CountOK, Pending
<1> QED
  BY <1>1 DEF Pending

-----------------------------------------------------------------------------
(* Which steps touch what *)

OfferStep ==
  \/ \E c \in Local : CreateDataChannel(c) \/ ChannelStep(c)
  \/ \E k \in Calls : Call(k) \/ CallStep(k)
WaitStepOrNotify ==
  \/ HandlerNotifies \/ \E w \in Waits : CallWait(w) \/ WaitStep(w) \/ TimesOut(w)
StreamStep ==
  \/ TakeIncoming \/ ReadChannel \/ Gather \/ GatheringComplete \/ ReadCandidate
  \/ \E c \in Remote : RemoteOpens(c) \/ Push(c)

\* The steps of the build task, of the teardown, and the core's news.
CoreStep == BuildStep \/ Close \/ DropResource \/ DropInner \/ CloseCore \/ Connects \/ Over \/ Detach

\* What each kind of step leaves alone.
LEMMA OfferFrame ==
  OfferStep => UNCHANGED <<buildVars, coreVars, stateVars, wait, streamVars>>
  BY DEF OfferStep, CreateDataChannel, ChannelStep, Register, End, EndNotify, Call, CallStep, NoCore, Arm,
         Check, CoreAnswers, buildVars, coreVars, stateVars, callVars, streamVars
LEMMA WaitFrame ==
  WaitStepOrNotify => UNCHANGED <<buildVars, coreVars, connected, failed, attached, chanVars, call, streamVars>>
  BY DEF WaitStepOrNotify, HandlerNotifies, CallWait, WaitStep, BuildFailed, ArmWait, LoadConnected, LoadFailed,
         TimesOut, buildVars, coreVars, stateVars, chanVars, streamVars
LEMMA StreamFrame ==
  StreamStep => UNCHANGED <<buildVars, coreVars, stateVars, chanVars, callVars>>
  BY DEF StreamStep, TakeIncoming, ReadChannel, Gather, GatheringComplete, ReadCandidate, RemoteOpens, Push,
         buildVars, coreVars, stateVars, chanVars, callVars
LEMMA CoreFrame ==
  CoreStep => UNCHANGED <<chanVars, callVars, streamVars>>
  BY DEF CoreStep, BuildStep, Build, Store, SendBuilt, Close, DropResource, DropInner, CloseCore, Connects, Over,
         Detach, chanVars, callVars, streamVars

\* Every step is of one of these kinds.
LEMMA Kinds ==
  [Next]_vars => OfferStep \/ WaitStepOrNotify \/ StreamStep \/ CoreStep \/ UNCHANGED vars
  BY DEF Next, OfferStep, WaitStepOrNotify, StreamStep, CoreStep

\* The core's news: what becomes of the flags.
LEMMA CoreNews ==
  ASSUME ScalarsOK, HandlerInv, CoreStep
  PROVE  /\ ScalarsOK' /\ HandlerInv'
         /\ UNCHANGED <<connected, failed, handler>> \/ handler' = TRUE
         /\ attached' = attached \/ attached' = FALSE
<1> USE DEF buildVars, coreVars, stateVars, Live
<1>1. gathering' = gathering
  BY CoreFrame DEF streamVars
<1>2. CASE Build
  <2>1. /\ build = "build" /\ UNCHANGED <<slot, closing, gone, connected, failed, handler>>
        /\ \/ core' = "new" /\ build' = "store" /\ UNCHANGED <<built, attached>>
           \/ build' = "done" /\ built' = "err" /\ attached' = FALSE /\ UNCHANGED core
    BY <1>2 DEF Build
  <2>2. attached' \in BOOLEAN
    BY <2>1, Zenon DEF ScalarsOK
  <2>3. attached # FALSE
    BY <2>1 DEF HandlerInv
  <2> QED
    BY <1>1, <2>1, <2>2, <2>3 DEF ScalarsOK, HandlerInv
<1>3. CASE Store \/ SendBuilt
  <2>1. /\ build' \in {"send", "done"} /\ built' \in {built, "ok"}
        /\ slot' = slot \/ slot' = TRUE
        /\ UNCHANGED <<core, closing, gone, connected, failed, handler, attached>>
    BY <1>3 DEF Store, SendBuilt
  <2>2. slot' \in BOOLEAN
    BY <2>1, Zenon DEF ScalarsOK
  <2>3. HandlerInv'
    BY <2>1 DEF HandlerInv
  <2>4. ScalarsOK'
    BY <1>1, <2>1, <2>2 DEF ScalarsOK
  <2> QED
    BY <2>1, <2>3, <2>4
<1>4. CASE Close \/ DropInner
  <2>1. /\ slot' = FALSE /\ closing' = (closing \/ slot) /\ gone' \in {"closed", "freed"}
        /\ UNCHANGED <<build, built, core, connected, failed, handler, attached>>
    BY <1>4 DEF Close, DropInner, TakeCore
  <2>2. closing' \in BOOLEAN /\ (closing = FALSE /\ slot = FALSE => closing' = FALSE)
    BY <2>1, Zenon DEF ScalarsOK
  <2> QED
    BY <1>1, <2>1, <2>2 DEF ScalarsOK, HandlerInv
<1>5. CASE DropResource \/ CloseCore
  <2>1. /\ gone' \in {gone, "dropped"}
        /\ closing' = closing \/ closing' = FALSE
        /\ core' = core \/ (closing = TRUE /\ core' = "closed")
        /\ UNCHANGED <<build, built, slot, connected, failed, handler, attached>>
    <3>1. CASE DropResource
      BY <3>1 DEF DropResource
    <3>2. CASE CloseCore
      BY <3>2, Zenon DEF CloseCore, ScalarsOK
    <3> QED
      BY <1>5, <3>1, <3>2
  <2>2. closing' \in BOOLEAN /\ (closing = FALSE => closing' = FALSE)
    BY <2>1, Zenon DEF ScalarsOK
  <2>3. build = "build" => core' = core
    BY <2>1 DEF HandlerInv
  <2>4. HandlerInv'
    BY <2>1, <2>2, <2>3 DEF HandlerInv
  <2>5. ScalarsOK'
    BY <1>1, <2>1, <2>2 DEF ScalarsOK
  <2> QED
    BY <2>1, <2>4, <2>5
<1>6. CASE Connects \/ Over
  <2>1. /\ handler' = TRUE /\ core \in {"new", "connected", "closed"} /\ core' \in {core, "connected", "failed"}
        /\ core' = "connected" => core \in {"new", "connected"}
        /\ connected' = connected \/ connected' = TRUE
        /\ failed' = failed \/ failed' = TRUE
        /\ UNCHANGED <<build, built, slot, closing, gone, attached>>
    BY <1>6 DEF Connects, Over
  <2>2. connected' \in BOOLEAN /\ failed' \in BOOLEAN
    BY <2>1, Zenon DEF ScalarsOK
  <2> QED
    BY <1>1, <2>1, <2>2 DEF ScalarsOK, HandlerInv
<1>7. CASE Detach
  <2>1. core \in {"failed", "closed"} /\ attached' = FALSE
        /\ UNCHANGED <<build, built, slot, core, closing, gone, connected, failed, handler>>
    BY <1>7 DEF Detach
  <2>2. build # "build"
    BY <2>1 DEF HandlerInv
  <2>3. HandlerInv'
    BY <2>1, <2>2 DEF HandlerInv
  <2>4. ScalarsOK'
    BY <1>1, <2>1 DEF ScalarsOK
  <2> QED
    BY <2>1, <2>3, <2>4
<1> QED
  BY <1>2, <1>3, <1>4, <1>5, <1>6, <1>7 DEF CoreStep, BuildStep

\* Every step keeps the flags and control states what they are.
LEMMA ScalarsStep == ScalarsOK /\ HandlerInv /\ [Next]_vars => ScalarsOK' /\ HandlerInv'
<1> USE DEF vars, buildVars, coreVars, stateVars
<1> SUFFICES ASSUME ScalarsOK, HandlerInv, [Next]_vars PROVE ScalarsOK' /\ HandlerInv'
  OBVIOUS
<1>1. CASE UNCHANGED vars \/ OfferStep
  <2>1. UNCHANGED <<build, built, slot, closing, connected, failed, handler, attached, gathering, core, gone>>
    BY <1>1, OfferFrame DEF streamVars
  <2> QED
    BY <2>1 DEF ScalarsOK, HandlerInv
<1>2. CASE WaitStepOrNotify
  <2>1. UNCHANGED <<build, built, slot, closing, connected, failed, attached, gathering, core, gone>>
    BY <1>2, WaitFrame DEF streamVars
  <2>2. handler' = handler \/ handler' = FALSE
    BY <1>2 DEF WaitStepOrNotify, HandlerNotifies, CallWait, WaitStep, BuildFailed, ArmWait, LoadConnected,
                LoadFailed, TimesOut
  <2>3. handler' \in BOOLEAN
    BY <2>2, Zenon DEF ScalarsOK
  <2> QED
    BY <2>1, <2>3 DEF ScalarsOK, HandlerInv
<1>3. CASE StreamStep
  <2>1. UNCHANGED <<build, built, slot, closing, connected, failed, handler, attached, core, gone>>
    BY <1>3, StreamFrame
  <2>2. gathering' = gathering \/ gathering' = FALSE
    BY <1>3 DEF StreamStep, TakeIncoming, ReadChannel, Gather, GatheringComplete, ReadCandidate, RemoteOpens, Push
  <2>3. gathering' \in BOOLEAN
    BY <2>2, Zenon DEF ScalarsOK
  <2> QED
    BY <2>1, <2>3 DEF ScalarsOK, HandlerInv
<1>4. CASE CoreStep
  BY <1>4, CoreNews
<1> QED
  BY <1>1, <1>2, <1>3, <1>4, Kinds

-----------------------------------------------------------------------------
(* Offers *)

\* A channel moves on from state `from`.
LEMMA ChannelMoves ==
  ASSUME OfferInv, NEW c \in Local, NEW s \in ChanStates, chan' = [chan EXCEPT ![c] = s], call' = call,
         registered \subseteq registered', registered' \in SUBSET Local,
         s # "none",
         s \in {"end", "notify", "wire"} => c \in registered',
         chan[c] \in {"failed", "failnotify"} => s \in {"failed", "failnotify"}
  PROVE  RecordsOK' /\ RegisteredOK' /\ BeforeOK' /\ CoversOK'
<1>1. chan'[c] = s /\ \A d \in Local \ {c} : chan'[d] = chan[d]
  BY DEF OfferInv, RecordsOK
<1>2. RecordsOK'
  BY DEF OfferInv, RecordsOK
<1>3. RegisteredOK'
  BY <1>1 DEF OfferInv, RegisteredOK
<1>4. \A k \in Calls : \A d \in call[k].before : d \in Local
  BY DEF OfferInv, RecordsOK, CallRecord
<1>5. BeforeOK'
  BY <1>1, <1>4 DEF OfferInv, BeforeOK
<1>6. CoversOK'
  BY <1>1, <1>4 DEF OfferInv, CoversOK, Settled
<1> QED
  BY <1>2, <1>3, <1>5, <1>6

\* A call moves on, to k's new record g.
LEMMA CallMoves ==
  ASSUME OfferInv, NEW k \in Calls, NEW g \in CallRecord, call' = [call EXCEPT ![k] = g],
         UNCHANGED <<chan, registered, count>>,
         \A c \in g.before : chan[c] # "none",
         g.at = "core" => \A c \in g.before : Settled(c)
  PROVE  OfferInv'
<1>1. call'[k] = g /\ \A j \in Calls \ {k} : call'[j] = call[j]
  BY DEF OfferInv, RecordsOK
<1>2. RecordsOK'
  BY DEF OfferInv, RecordsOK
<1>3. CountOK' /\ RegisteredOK'
  BY DEF OfferInv, CountOK, RegisteredOK, Pending
<1>4. BeforeOK'
  BY <1>1 DEF OfferInv, BeforeOK
<1>5. CoversOK'
  BY <1>1 DEF OfferInv, CoversOK, Settled
<1> QED
  BY <1>2, <1>3, <1>4, <1>5 DEF OfferInv

\* A channel is created, registered, counted out, or its end announced.
LEMMA ChannelStepOK ==
  ASSUME OfferInv, NEW c \in Local, CreateDataChannel(c) \/ ChannelStep(c)
  PROVE  OfferInv'
<1> USE DEF vars, buildVars, coreVars, stateVars, chanVars, callVars, streamVars
<1>1. chan \in [Local -> ChanStates] /\ registered \in SUBSET Local
  BY DEF OfferInv, RecordsOK
<1>2. CASE CreateDataChannel(c)
  <2>1. chan[c] = "none" /\ count' = count + 1 /\ chan' = [chan EXCEPT ![c] = "await"] /\ UNCHANGED <<registered, call>>
    BY <1>2 DEF CreateDataChannel
  <2>2. RecordsOK' /\ RegisteredOK' /\ BeforeOK' /\ CoversOK'
    BY <1>1, <2>1, ChannelMoves DEF ChanStates
  <2>3. Pending' = Pending \union {c} /\ c \notin Pending
    BY <1>1, <2>1 DEF Pending
  <2>4. CountOK'
    BY <2>1, <2>3, CountFacts DEF OfferInv, CountOK, Pending
  <2> QED
    BY <2>2, <2>4 DEF OfferInv
<1>3. CASE Register(c)
  <2>1. /\ chan[c] = "await" /\ UNCHANGED <<count, call>>
        /\ \/ registered' = registered \union {c} /\ chan' = [chan EXCEPT ![c] = "end"]
           \/ chan' = [chan EXCEPT ![c] = "fail"] /\ UNCHANGED registered
    BY <1>3 DEF Register
  <2>2. RecordsOK' /\ RegisteredOK' /\ BeforeOK' /\ CoversOK'
    BY <1>1, <2>1, ChannelMoves DEF ChanStates
  <2>3. Pending' = Pending
    BY <1>1, <2>1 DEF Pending
  <2> QED
    BY <2>1, <2>2, <2>3 DEF OfferInv, CountOK
<1>4. CASE End(c)
  <2>1. /\ chan[c] \in {"end", "fail"} /\ count' = count - 1 /\ UNCHANGED <<registered, call>>
        /\ chan' = [chan EXCEPT ![c] = IF chan[c] = "end" THEN "notify" ELSE "failnotify"]
    BY <1>4 DEF End
  <2>2. chan[c] = "end" => c \in registered
    BY DEF OfferInv, RegisteredOK
  <2>3. RecordsOK' /\ RegisteredOK' /\ BeforeOK' /\ CoversOK'
    BY <1>1, <2>1, <2>2, ChannelMoves DEF ChanStates
  <2>4. Pending' = Pending \ {c} /\ c \in Pending
    BY <1>1, <2>1 DEF Pending
  <2>5. CountOK'
    BY <2>1, <2>4, CountFacts DEF OfferInv, CountOK, Pending
  <2> QED
    BY <2>3, <2>5 DEF OfferInv
<1>5. CASE EndNotify(c)
  <2>1. /\ chan[c] \in {"notify", "failnotify"} /\ UNCHANGED <<registered, count>>
        /\ chan' = [chan EXCEPT ![c] = IF chan[c] = "notify" THEN "wire" ELSE "failed"]
        /\ call' = [k \in Calls |-> IF call[k].at \in {"armed", "parked"}
                                      THEN [call[k] EXCEPT !.woken = TRUE] ELSE call[k]]
    BY <1>5 DEF EndNotify
  <2>2. \A k \in Calls : call[k] \in CallRecord
    BY DEF OfferInv, RecordsOK
  <2>3. \A k \in Calls : /\ call'[k] \in CallRecord
                         /\ call'[k].at = call[k].at /\ call'[k].before = call[k].before
    BY <2>1, <2>2 DEF CallRecord
  <2>4. call' \in [Calls -> CallRecord]
    BY <2>1, <2>3
  <2>5. chan'[c] = (IF chan[c] = "notify" THEN "wire" ELSE "failed") /\ \A d \in Local \ {c} : chan'[d] = chan[d]
    BY <1>1, <2>1
  <2>6. RecordsOK'
    BY <1>1, <2>1, <2>4, <2>5 DEF RecordsOK, ChanStates
  <2>7. RegisteredOK'
    BY <2>1, <2>5 DEF OfferInv, RegisteredOK
  <2>8. \A k \in Calls : \A d \in call[k].before : d \in Local
    BY <2>2 DEF CallRecord
  <2>9. BeforeOK'
    BY <2>3, <2>5, <2>8 DEF OfferInv, BeforeOK
  <2>10. CoversOK'
    BY <2>1, <2>3, <2>5, <2>8 DEF OfferInv, CoversOK, Settled
  <2>11. Pending' = Pending
    BY <1>1, <2>1 DEF Pending
  <2> QED
    BY <2>1, <2>6, <2>7, <2>9, <2>10, <2>11 DEF OfferInv, CountOK
<1> QED
  BY <1>2, <1>3, <1>4, <1>5 DEF ChannelStep

\* A call begins, fails, arms, checks the count or is answered.
LEMMA CallStepOK ==
  ASSUME OfferInv, NEW k \in Calls, Call(k) \/ CallStep(k)
  PROVE  OfferInv'
<1> USE DEF vars, buildVars, coreVars, stateVars, chanVars, callVars, streamVars
<1>1. call \in [Calls -> CallRecord] /\ call[k] \in CallRecord /\ chan \in [Local -> ChanStates]
  BY DEF OfferInv, RecordsOK
<1>2. UNCHANGED <<chan, registered, count>>
  BY DEF Call, CallStep, NoCore, Arm, Check, CoreAnswers
<1>3. \A c \in call[k].before : chan[c] # "none" /\ c \in Local
  BY <1>1 DEF OfferInv, BeforeOK, CallRecord
<1>4. CASE Call(k)
  <2> DEFINE g == [NoCall EXCEPT !.at = "await", !.before = Created]
  <2>1. call' = [call EXCEPT ![k] = g]
    BY <1>4 DEF Call
  <2>2. g \in CallRecord /\ g.at = "await" /\ g.before = Created
    BY DEF NoCall, CallRecord, Created
  <2>3. \A c \in g.before : chan[c] # "none"
    BY <2>2 DEF Created
  <2> HIDE DEF g
  <2> QED
    BY <1>2, <2>1, <2>2, <2>3, CallMoves
<1>5. CASE NoCore(k) \/ CoreAnswers(k)
  <2>1. PICK r \in {"ok", "failed"} : call' = [call EXCEPT ![k] = [NoCall EXCEPT !.at = r]]
    BY <1>5 DEF NoCore, CoreAnswers
  <2> DEFINE g == [NoCall EXCEPT !.at = r]
  <2>2. g \in CallRecord /\ g.at = r /\ g.before = {}
    BY DEF NoCall, CallRecord
  <2> HIDE DEF g
  <2> QED
    BY <1>2, <2>1, <2>2, CallMoves DEF g
<1>6. CASE Arm(k)
  <2> DEFINE g == [call[k] EXCEPT !.at = "armed", !.woken = FALSE]
  <2>1. call' = [call EXCEPT ![k] = g]
    BY <1>1, <1>6 DEF Arm
  <2>2. g \in CallRecord /\ g.at = "armed" /\ g.before = call[k].before
    BY <1>1 DEF CallRecord
  <2> HIDE DEF g
  <2> QED
    BY <1>2, <1>3, <2>1, <2>2, CallMoves
<1>7. CASE Check(k)
  <2> DEFINE g == [call[k] EXCEPT !.at = IF count = 0 THEN "core" ELSE "parked",
                                  !.woken = call[k].woken /\ count # 0]
  <2>1. call' = [call EXCEPT ![k] = g]
    BY <1>1, <1>7 DEF Check
  <2>2. g \in CallRecord /\ g.before = call[k].before /\ (g.at = "core" => count = 0)
    BY <1>1 DEF CallRecord
  <2> HIDE DEF g
  <2>3. ASSUME count = 0, NEW c \in call[k].before PROVE Settled(c)
    <3>1. c \in Local /\ chan[c] \in ChanStates /\ chan[c] # "none"
      BY <1>1, <1>3
    <3>2. chan[c] \notin {"await", "end", "fail"}
      BY <2>3, <3>1, NonePending DEF OfferInv
    <3> QED
      BY <3>1, <3>2 DEF ChanStates, Settled, OfferInv, RegisteredOK
  <2> QED
    BY <1>2, <1>3, <2>1, <2>2, <2>3, CallMoves
<1> QED
  BY <1>4, <1>5, <1>6, <1>7 DEF CallStep

\* Nothing else touches the offers.
LEMMA OfferNewsOK ==
  ASSUME OfferInv, UNCHANGED chanVars, call' = call
  PROVE  OfferInv'
  BY DEF OfferInv, RecordsOK, CountOK, Pending, RegisteredOK, BeforeOK, CoversOK, Settled, chanVars

-----------------------------------------------------------------------------
(* Waits *)

\* A wait moves on, to w's new record g.
LEMMA WaitMoves ==
  ASSUME WaitInv, NEW w \in Waits, NEW g \in WaitRecord, wait' = [wait EXCEPT ![w] = g],
         UNCHANGED <<connected, failed, handler>>, Noticed(g)
  PROVE  WaitInv'
<1>1. wait' \in [Waits -> WaitRecord] /\ wait'[w] = g /\ \A v \in Waits \ {w} : wait'[v] = wait[v]
  BY DEF WaitInv
<1>2. \A v \in Waits : Noticed(wait[v])
  BY DEF WaitInv
<1> QED
  BY <1>1, <1>2 DEF WaitInv, Noticed

\* The steps of a wait between its arming and its parking.
LEMMA WaitStepOK ==
  ASSUME WaitInv, ScalarsOK, WaitStepOrNotify
  PROVE  WaitInv'
<1> USE DEF stateVars
<1>1. \A w \in Waits : wait[w] \in WaitRecord /\ Noticed(wait[w])
  BY DEF WaitInv
<1>2. UNCHANGED <<connected, failed>>
  BY WaitFrame
<1>3. CASE HandlerNotifies
  <2>1. wait' = [w \in Waits |-> IF wait[w].at \in {"connected?", "failed?", "parked"}
                                   THEN [wait[w] EXCEPT !.woken = TRUE] ELSE wait[w]]
    BY <1>3 DEF HandlerNotifies
  <2>2. ASSUME NEW w \in Waits PROVE wait'[w] \in WaitRecord /\ Noticed(wait[w])'
    <3>1. CASE wait[w].at \in {"connected?", "failed?", "parked"}
      <4> DEFINE g == [wait[w] EXCEPT !.woken = TRUE]
      <4>1. g \in WaitRecord /\ g.woken
        BY <1>1 DEF WaitRecord
      <4>2. wait'[w] = g
        BY <2>1, <3>1
      <4> HIDE DEF g
      <4> QED
        BY <4>1, <4>2 DEF Noticed
    <3>2. CASE wait[w].at \notin {"connected?", "failed?", "parked"}
      <4>1. wait'[w] = wait[w]
        BY <2>1, <3>2
      <4> QED
        BY <1>1, <3>2, <4>1 DEF Noticed
    <3> QED
      BY <3>1, <3>2
  <2>3. wait' \in [Waits -> WaitRecord]
    BY <2>1, <2>2
  <2> QED
    BY <2>2, <2>3 DEF WaitInv
<1>4. ASSUME NEW w \in Waits, CallWait(w) PROVE WaitInv'
  <2> DEFINE g == [NoWait EXCEPT !.at = "await"]
  <2>1. wait' = [wait EXCEPT ![w] = g] /\ handler' = handler
    BY <1>4 DEF CallWait
  <2>2. g \in WaitRecord /\ g.at = "await"
    BY DEF NoWait, WaitRecord
  <2> HIDE DEF g
  <2>3. Noticed(g)
    BY <2>2 DEF Noticed
  <2> QED
    BY <1>2, <2>1, <2>2, <2>3, WaitMoves
<1>5. ASSUME NEW w \in Waits, BuildFailed(w) \/ LoadFailed(w) \/ TimesOut(w) PROVE WaitInv'
  <2>1. PICK s \in {"other", "closed", "parked", "timed-out"} :
          /\ wait' = [wait EXCEPT ![w] = [wait[w] EXCEPT !.at = s]]
          /\ handler' = handler
          /\ s = "parked" => wait[w].at = "failed?" /\ ~failed
    <3>1. CASE BuildFailed(w)
      BY <3>1 DEF BuildFailed
    <3>2. CASE LoadFailed(w)
      BY <3>2 DEF LoadFailed
    <3>3. CASE TimesOut(w)
      BY <3>3 DEF TimesOut
    <3> QED
      BY <1>5, <3>1, <3>2, <3>3
  <2> DEFINE g == [wait[w] EXCEPT !.at = s]
  <2>2. g \in WaitRecord /\ g.at = s /\ g.woken = wait[w].woken
    BY <1>1 DEF WaitRecord
  <2> HIDE DEF g
  <2>3. Noticed(wait[w])
    BY <1>1
  <2>4. Noticed(g)
    BY <2>1, <2>2, <2>3 DEF Noticed
  <2> QED
    BY <1>2, <2>1, <2>2, <2>4, WaitMoves DEF g
<1>6. ASSUME NEW w \in Waits, ArmWait(w) PROVE WaitInv'
  <2> DEFINE g == [wait[w] EXCEPT !.at = "connected?", !.woken = FALSE]
  <2>1. wait' = [wait EXCEPT ![w] = g] /\ handler' = handler
    BY <1>6 DEF ArmWait, WaitInv
  <2>2. g \in WaitRecord /\ g.at = "connected?"
    BY <1>1 DEF WaitRecord
  <2> HIDE DEF g
  <2>3. Noticed(g)
    BY <2>2 DEF Noticed
  <2> QED
    BY <1>2, <2>1, <2>2, <2>3, WaitMoves
<1>7. ASSUME NEW w \in Waits, LoadConnected(w) PROVE WaitInv'
  <2> DEFINE g == [wait[w] EXCEPT !.at = IF connected THEN "ok" ELSE "failed?",
                                  !.woken = wait[w].woken /\ ~connected]
  <2>1. wait' = [wait EXCEPT ![w] = g] /\ handler' = handler
    BY <1>7 DEF LoadConnected, WaitInv
  <2>2. g \in WaitRecord /\ g.at = IF connected THEN "ok" ELSE "failed?"
    BY <1>1 DEF WaitRecord
  <2> HIDE DEF g
  <2>3. Noticed(g)
    BY <2>2 DEF Noticed
  <2> QED
    BY <1>2, <2>1, <2>2, <2>3, WaitMoves
<1> QED
  BY <1>3, <1>4, <1>5, <1>6, <1>7 DEF WaitStepOrNotify, WaitStep

\* The core's news finds every wait as it was, and the handler still to notify.
LEMMA WaitNewsOK ==
  ASSUME WaitInv, wait' = wait, UNCHANGED <<connected, failed, handler>> \/ handler' = TRUE
  PROVE  WaitInv'
  BY DEF WaitInv, Noticed

-----------------------------------------------------------------------------
(* Streams *)

\* A channel appended.
LEMMA OneMore ==
  ASSUME NEW S, NEW q \in Seq(S), NEW c \in S, NEW p, p = Append(q, c)
  PROVE  /\ p \in Seq(S) /\ Len(q) \in Nat /\ Len(p) = Len(q) + 1
         /\ \A i \in 1..Len(q) : i \in 1..Len(p) /\ p[i] = q[i]
         /\ Len(p) \in 1..Len(p) /\ p[Len(p)] = c
         /\ \A i \in 1..Len(p) : i \in 1..Len(q) \/ i = Len(p)
  OBVIOUS

\* A channel opens, is pushed, or read; a stream ends.
LEMMA ChannelStreamOK ==
  ASSUME StreamInv, HandlerInv, ScalarsOK, attached' = attached, core' = core,
         TakeIncoming \/ ReadChannel \/ (\E c \in Remote : RemoteOpens(c) \/ Push(c))
  PROVE  StreamInv'
<1>1. stream \in StreamRecord /\ rtask \in [Remote -> {"none", "label", "pushed"}]
      /\ opened \in Seq(Remote) /\ incoming \in Seq(Remote)
  BY DEF StreamInv
<1>2. CASE TakeIncoming
  <2> DEFINE g == [stream EXCEPT !.taken = TRUE]
  <2>1. stream' = g /\ UNCHANGED <<opened, rtask, incoming, cands, gathering>>
    BY <1>2 DEF TakeIncoming
  <2>2. g \in StreamRecord /\ g.ended = stream.ended /\ g.read = stream.read
    BY <1>1 DEF StreamRecord
  <2> HIDE DEF g
  <2> QED
    BY <2>1, <2>2 DEF StreamInv
<1>3. CASE ReadChannel
  <2>1. /\ ~stream.ended /\ UNCHANGED <<opened, rtask, incoming, cands, gathering>>
        /\ \/ stream' = [stream EXCEPT !.read = stream.read + 1]
           \/ /\ stream.read = Len(incoming) /\ SendersGone
              /\ stream' = [stream EXCEPT !.ended = TRUE]
    BY <1>3 DEF ReadChannel
  <2>2. CASE stream' = [stream EXCEPT !.read = stream.read + 1]
    <3> DEFINE g == [stream EXCEPT !.read = stream.read + 1]
    <3>1. g \in StreamRecord /\ g.ended = stream.ended
      BY <1>1 DEF StreamRecord
    <3>2. stream' = g
      BY <2>2
    <3> HIDE DEF g
    <3> QED
      BY <2>1, <3>1, <3>2 DEF StreamInv
  <2>3. CASE stream.read = Len(incoming) /\ SendersGone /\ stream' = [stream EXCEPT !.ended = TRUE]
    <3> DEFINE g == [stream EXCEPT !.ended = TRUE]
    <3>1. g \in StreamRecord /\ g.read = stream.read
      BY <1>1 DEF StreamRecord
    <3>2. stream' = g
      BY <2>3
    <3> HIDE DEF g
    <3> QED
      BY <2>1, <2>3, <3>1, <3>2 DEF StreamInv, SendersGone
  <2> QED
    BY <2>1, <2>2, <2>3
<1>4. ASSUME NEW c \in Remote, RemoteOpens(c) PROVE StreamInv'
  <2>1. /\ core = "connected" /\ rtask' = [rtask EXCEPT ![c] = "label"] /\ opened' = Append(opened, c)
        /\ rtask[c] = "none" /\ UNCHANGED <<incoming, stream, cands, gathering>>
    BY <1>4 DEF RemoteOpens
  <2>2. attached # FALSE
    BY <2>1 DEF HandlerInv
  <2>3. rtask' \in [Remote -> {"none", "label", "pushed"}] /\ rtask'[c] = "label"
        /\ \A d \in Remote \ {c} : rtask'[d] = rtask[d]
    BY <1>1, <2>1
  <2>4. /\ opened' \in Seq(Remote)
        /\ \A i \in 1..Len(opened') : opened'[i] = c \/ (i \in 1..Len(opened) /\ opened'[i] = opened[i])
    BY <1>1, <2>1, OneMore
  <2>5. \A i \in 1..Len(opened) : opened[i] \in Remote
    BY <1>1
  <2>6. \A i \in 1..Len(opened') : rtask'[opened'[i]] # "none"
    BY <2>3, <2>4, <2>5 DEF StreamInv
  <2>7. ~stream.ended
    BY <2>2 DEF StreamInv, ScalarsOK
  <2> QED
    BY <2>1, <2>3, <2>4, <2>6, <2>7 DEF StreamInv
<1>5. ASSUME NEW c \in Remote, Push(c) PROVE StreamInv'
  <2>1. /\ rtask[c] = "label" /\ rtask' = [rtask EXCEPT ![c] = "pushed"] /\ incoming' = Append(incoming, c)
        /\ UNCHANGED <<opened, stream, cands, gathering>>
    BY <1>5 DEF Push
  <2>2. ~stream.ended
    BY <2>1 DEF StreamInv
  <2>3. rtask' \in [Remote -> {"none", "label", "pushed"}] /\ rtask'[c] = "pushed"
        /\ \A d \in Remote \ {c} : rtask'[d] = rtask[d]
    BY <1>1, <2>1
  <2>4. /\ incoming' \in Seq(Remote) /\ \E i \in 1..Len(incoming') : incoming'[i] = c
        /\ \A i \in 1..Len(incoming) : i \in 1..Len(incoming') /\ incoming'[i] = incoming[i]
    BY <1>1, <2>1, OneMore
  <2>5. \A d \in Remote : rtask'[d] = "pushed" => \E i \in 1..Len(incoming') : incoming'[i] = d
    BY <2>3, <2>4 DEF StreamInv
  <2>6. \A i \in 1..Len(opened) : opened[i] \in Remote
    BY <1>1
  <2>7. \A i \in 1..Len(opened) : rtask'[opened[i]] # "none"
    BY <2>1, <2>3, <2>6 DEF StreamInv
  <2> QED
    BY <2>1, <2>2, <2>3, <2>4, <2>5, <2>7 DEF StreamInv
<1> QED
  BY <1>2, <1>3, <1>4, <1>5

\* A candidate is gathered only by a live core, while the handler is there.
LEMMA CandidateStreamOK ==
  ASSUME StreamInv, HandlerInv, ScalarsOK, attached' = attached, Gather \/ GatheringComplete \/ ReadCandidate
  PROVE  StreamInv'
<1>1. cands \in CandRecord
  BY DEF StreamInv
<1>2. UNCHANGED <<opened, rtask, incoming, stream>>
  BY DEF Gather, GatheringComplete, ReadCandidate
<1>3. CASE Gather
  <2> DEFINE g == [cands EXCEPT !.queued = cands.queued + 1]
  <2>1. cands' = g /\ core \in {"new", "connected"} /\ gathering /\ gathering' = gathering
    BY <1>3 DEF Gather, Live
  <2>2. attached # FALSE
    BY <2>1 DEF HandlerInv
  <2>3. ~cands.ended
    BY <2>1, <2>2 DEF StreamInv, ScalarsOK
  <2>4. g \in CandRecord /\ g.ended = cands.ended
    BY <1>1 DEF CandRecord
  <2> HIDE DEF g
  <2> QED
    BY <1>2, <2>1, <2>3, <2>4 DEF StreamInv
<1>4. CASE GatheringComplete
  <2>1. gathering' = FALSE /\ UNCHANGED cands
    BY <1>4 DEF GatheringComplete
  <2> QED
    BY <1>2, <2>1 DEF StreamInv
<1>5. CASE ReadCandidate
  <2>1. /\ ~cands.ended /\ gathering' = gathering
        /\ \/ cands' = [cands EXCEPT !.read = cands.read + 1]
           \/ /\ cands.read = cands.queued /\ (gathering => ~attached)
              /\ cands' = [cands EXCEPT !.ended = TRUE]
    BY <1>5 DEF ReadCandidate
  <2>2. CASE cands' = [cands EXCEPT !.read = cands.read + 1]
    <3> DEFINE g == [cands EXCEPT !.read = cands.read + 1]
    <3>1. g \in CandRecord /\ g.ended = cands.ended
      BY <1>1 DEF CandRecord
    <3>2. cands' = g
      BY <2>2
    <3> HIDE DEF g
    <3> QED
      BY <1>2, <2>1, <3>1, <3>2 DEF StreamInv
  <2>3. CASE cands.read = cands.queued /\ (gathering => ~attached) /\ cands' = [cands EXCEPT !.ended = TRUE]
    <3> DEFINE g == [cands EXCEPT !.ended = TRUE]
    <3>1. g \in CandRecord /\ g.read = cands.read /\ g.queued = cands.queued
      BY <1>1 DEF CandRecord
    <3>2. cands' = g
      BY <2>3
    <3> HIDE DEF g
    <3> QED
      BY <1>2, <2>1, <2>3, <3>1, <3>2 DEF StreamInv
  <2> QED
    BY <2>1, <2>2, <2>3
<1> QED
  BY <1>3, <1>4, <1>5

\* Nothing else touches the streams, but for the handler, which never comes back.
LEMMA StreamNewsOK ==
  ASSUME StreamInv, UNCHANGED streamVars, attached' = attached \/ attached' = FALSE
  PROVE  StreamInv'
  BY DEF StreamInv, streamVars

-----------------------------------------------------------------------------
(* Theorems *)

\* The connection starts with nothing created, asked for or received.
LEMMA InitOK == Init => IInv
<1> SUFFICES ASSUME Init PROVE IInv
  OBVIOUS
<1>1. ScalarsOK
  BY DEF Init, ScalarsOK
<1>2. OfferInv
  <2>1. NoCall \in CallRecord /\ NoCall.before = {} /\ NoCall.at = "idle"
    BY DEF NoCall, CallRecord
  <2>2. RecordsOK /\ RegisteredOK /\ BeforeOK /\ CoversOK
    BY <2>1 DEF Init, RecordsOK, RegisteredOK, BeforeOK, CoversOK, ChanStates
  <2>3. Pending = {}
    BY DEF Init, Pending
  <2>4. CountOK
    BY <2>3, FS_EmptySet DEF Init, CountOK
  <2> QED
    BY <2>2, <2>4 DEF OfferInv
<1>3. WaitInv
  <2>1. NoWait \in WaitRecord /\ NoWait.at = "idle"
    BY DEF NoWait, WaitRecord
  <2> QED
    BY <2>1 DEF Init, WaitInv, Noticed
<1>4. HandlerInv
  BY DEF Init, HandlerInv
<1>5. StreamInv
  <2>1. /\ rtask \in [Remote -> {"none", "label", "pushed"}] /\ \A c \in Remote : rtask[c] = "none"
        /\ opened = <<>> /\ opened \in Seq(Remote) /\ incoming \in Seq(Remote)
    BY DEF Init
  <2>2. cands \in CandRecord /\ ~cands.ended /\ stream \in StreamRecord /\ ~stream.ended
    BY DEF Init, CandRecord, StreamRecord
  <2>3. 1..Len(opened) = {}
    BY <2>1
  <2> QED
    BY <2>1, <2>2, <2>3 DEF StreamInv
<1> QED
  BY <1>1, <1>2, <1>3, <1>4, <1>5 DEF IInv

\* Every step preserves the invariant.
LEMMA StepOK == IInv /\ [Next]_vars => IInv'
<1> SUFFICES ASSUME IInv, [Next]_vars PROVE IInv'
  OBVIOUS
<1> USE DEF IInv
<1>1. ScalarsOK' /\ HandlerInv'
  BY ScalarsStep
<1>2. CASE OfferStep
  <2>1. OfferInv'
    BY <1>2, ChannelStepOK, CallStepOK DEF OfferStep
  <2>2. UNCHANGED <<connected, failed, handler, attached, wait>> /\ UNCHANGED streamVars
    BY <1>2, OfferFrame DEF stateVars
  <2> QED
    BY <1>1, <2>1, <2>2, WaitNewsOK, StreamNewsOK
<1>3. CASE WaitStepOrNotify
  <2>1. UNCHANGED <<attached, call>> /\ UNCHANGED chanVars /\ UNCHANGED streamVars
    BY <1>3, WaitFrame
  <2>2. OfferInv'
    BY <2>1, OfferNewsOK
  <2> QED
    BY <1>1, <1>3, <2>1, <2>2, WaitStepOK, StreamNewsOK
<1>4. CASE StreamStep
  <2>1. UNCHANGED <<attached, core, call, wait, connected, failed, handler>> /\ UNCHANGED chanVars
    BY <1>4, StreamFrame DEF stateVars, coreVars, callVars
  <2>2. OfferInv' /\ WaitInv'
    BY <2>1, OfferNewsOK, WaitNewsOK
  <2>3. StreamInv'
    BY <1>4, <2>1, ChannelStreamOK, CandidateStreamOK DEF StreamStep
  <2> QED
    BY <1>1, <2>2, <2>3
<1>5. CASE CoreStep
  <2>1. UNCHANGED <<call, wait>> /\ UNCHANGED chanVars /\ UNCHANGED streamVars
    BY <1>5, CoreFrame DEF callVars
  <2>2. (UNCHANGED <<connected, failed, handler>> \/ handler' = TRUE) /\ (attached' = attached \/ attached' = FALSE)
    BY <1>5, CoreNews
  <2>3. OfferInv' /\ WaitInv' /\ StreamInv'
    BY <2>1, <2>2, OfferNewsOK, WaitNewsOK, StreamNewsOK
  <2> QED
    BY <1>1, <2>3
<1>6. CASE UNCHANGED vars
  <2>1. UNCHANGED <<attached, call, wait, connected, failed, handler>> /\ UNCHANGED chanVars /\ UNCHANGED streamVars
    BY <1>6 DEF vars, stateVars, callVars
  <2> QED
    BY <1>1, <2>1, OfferNewsOK, WaitNewsOK, StreamNewsOK
<1> QED
  BY <1>2, <1>3, <1>4, <1>5, <1>6, Kinds

\* The inductive invariant holds in every reachable state.
THEOREM IInvHolds == Spec => []IInv
  BY InitOK, StepOK, PTL DEF Spec

\* The count of pending operations is exact, and when the core is asked for an
\* offer it knows every channel created before, unless it refused the channel
\* (peer_connection.rs:95-98, 120-145).
THEOREM OfferCoversHolds == Spec => []OfferCovers
<1>1. IInv => OfferCovers
  <2> SUFFICES ASSUME IInv PROVE OfferCovers
    OBVIOUS
  <2>1. TypeOK
    BY DEF IInv, ScalarsOK, OfferInv, RecordsOK, CountOK, Pending, TypeOK
  <2>2. \A k \in Calls : call[k].at = "core" =>
          \A c \in call[k].before : c \in registered \/ chan[c] \in {"failed", "failnotify"}
    BY DEF IInv, OfferInv, CoversOK, Settled
  <2> QED
    BY <2>1, <2>2 DEF OfferCovers
<1> QED
  BY <1>1, IInvHolds, PTL

\* However its loads, its arming and its parking fall among the callbacks, a
\* wait-connected never sleeps through a transition (peer_connection.rs:380-394,
\* 448-467).
THEOREM NoMissedTransitionHolds == Spec => []NoMissedTransition
<1>1. IInv => NoMissedTransition
  BY DEF IInv, WaitInv, Noticed, NoMissedTransition
<1> QED
  BY <1>1, IInvHolds, PTL

\* The end of a stream is its last event: every channel the peer has opened has
\* been given to the guest before, whatever tasks were under way when the core let
\* go of the handler, and none opens afterwards; so with the candidates
\* (wit/webrtc.wit:269-281, peer_connection.rs:434-447).
THEOREM StreamsEndLastHolds == Spec => []StreamsEndLast
<1>1. IInv => StreamsEndLast
  <2> SUFFICES ASSUME IInv PROVE StreamsEndLast
    OBVIOUS
  <2>1. StreamInv
    BY DEF IInv
  <2>2. ASSUME stream.ended, NEW c \in ToSet(opened) PROVE \E i \in 1..stream.read : incoming[i] = c
    <3>1. PICK i \in 1..Len(opened) : opened[i] = c
      BY <2>1, <2>2 DEF ToSet, StreamInv
    <3>2. c \in Remote /\ rtask[c] \in {"none", "label", "pushed"}
      BY <2>1, <3>1 DEF StreamInv
    <3>3. rtask[c] = "pushed"
      BY <2>1, <2>2, <3>1, <3>2 DEF StreamInv
    <3> QED
      BY <2>1, <2>2, <3>2, <3>3 DEF StreamInv
  <2>3. cands.ended => cands.read = cands.queued
    BY <2>1 DEF StreamInv
  <2> QED
    BY <2>2, <2>3 DEF StreamsEndLast
<1> QED
  BY <1>1, IInvHolds, PTL
=============================================================================
