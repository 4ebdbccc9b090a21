----------------------- MODULE WasmtimePeerConnection -----------------------
(***************************************************************************)
(* A `peer-connection` resource of wasmtime-impl (peer_connection.rs and    *)
(* the second half of host.rs).  The webrtc connection (the core) is built  *)
(* by a spawned task; the guest may already create channels, ask for an     *)
(* offer, wait for the connection, close it or drop it.  Channels are       *)
(* created by spawned tasks too, counted by PendingOps so that an offer     *)
(* covers them.  The core calls the handler, one callback at a time.        *)
(*                                                                          *)
(* All of these run on tokio threads: a step is one access to shared state. *)
(* What happens on a channel once its task handed it over for wiring is     *)
(* WasmtimeChannel.  The core is an environment: it may connect, fail, open *)
(* channels and gather candidates at any time it is live, and once it is    *)
(* not, may let go of the handler, or keep it: which of the two the wrapper *)
(* does is not in src/, so nothing here waits for it.                       *)
(***************************************************************************)
EXTENDS Naturals, FiniteSets, Sequences, SequencesExt

CONSTANTS Local,     \* channels the guest may create
          Remote,    \* channels the remote peer may open
          Calls,     \* create-offer and create-answer calls
          Waits,     \* wait-connected calls
          MaxBegun   \* bound: channels, waits and candidates begun, all together

\* A channel's id is a u16.
ASSUME LocalAssumption == IsFiniteSet(Local)

VARIABLES
  build,              \* the build task: "build", "store", "send", "done"
  built, slot,        \* the shared future's value; whether the slot holds the core
  core,               \* state of the core: "none" until it is built
  closing,            \* a spawned task is to close the core
  connected, failed,  \* ConnState
  handler, attached,  \* the handler has still to notify; the core has it
  gone,               \* "no", "closed", "dropped" (the resource), "freed" (Inner)
  chan, registered,   \* the tasks of create-data-channel; what the core knows
  count,              \* PendingOps.count
  call, wait,         \* guest calls
  opened, rtask,      \* remote-opened channels in the order they opened; their tasks
  incoming, stream,   \* those pushed; the guest's stream of them [taken, read, ended]
  cands, gathering    \* candidates [queued, read, ended]; cand_tx is alive

buildVars == <<build, built, slot>>
coreVars == <<core, closing, gone>>
stateVars == <<connected, failed, handler, attached>>
chanVars == <<chan, registered, count>>
callVars == <<call, wait>>
streamVars == <<opened, rtask, incoming, stream, cands, gathering>>
vars == <<buildVars, coreVars, stateVars, chanVars, callVars, streamVars>>

Live == core \in {"new", "connected"}
Created == {c \in Local : chan[c] # "none"}
Begun == Cardinality(Created) + Len(opened) + cands.queued
         + Cardinality({w \in Waits : wait[w].at # "idle"})
NoCall == [at |-> "idle", woken |-> FALSE, before |-> {}]
NoWait == [at |-> "idle", woken |-> FALSE]

\* There is a tokio runtime; without one every call fails at once.
Init ==
  /\ build = "build" /\ built = "pending" /\ slot = FALSE
  /\ core = "none" /\ closing = FALSE /\ gone = "no"
  /\ connected = FALSE /\ failed = FALSE /\ handler = FALSE /\ attached = TRUE
  /\ chan = [c \in Local |-> "none"] /\ registered = {} /\ count = 0
  /\ call = [k \in Calls |-> NoCall] /\ wait = [w \in Waits |-> NoWait]
  /\ opened = <<>> /\ rtask = [c \in Remote |-> "none"] /\ incoming = <<>>
  /\ stream = [taken |-> FALSE, read |-> 0, ended |-> FALSE]
  /\ cands = [queued |-> 0, read |-> 0, ended |-> FALSE] /\ gathering = TRUE

-----------------------------------------------------------------------------
(* The build task *)

\* A build that fails drops the handler it was given.
Build ==
  /\ build = "build"
  /\ \/ core' = "new" /\ build' = "store" /\ UNCHANGED <<built, attached>>
     \/ build' = "done" /\ built' = "err" /\ attached' = FALSE /\ UNCHANGED core
  /\ UNCHANGED <<slot, closing, gone, connected, failed, handler, chanVars, callVars, streamVars>>

Store ==
  /\ build = "store"
  /\ slot' = TRUE /\ build' = "send"
  /\ UNCHANGED <<built, coreVars, stateVars, chanVars, callVars, streamVars>>

SendBuilt ==
  /\ build = "send"
  /\ built' = "ok" /\ build' = "done"
  /\ UNCHANGED <<slot, coreVars, stateVars, chanVars, callVars, streamVars>>

-----------------------------------------------------------------------------
(* create-data-channel and the tasks it spawns *)

\* Nothing tests whether the connection is over.
CreateDataChannel(c) ==
  /\ gone \in {"no", "closed"} /\ chan[c] = "none" /\ Begun < MaxBegun
  /\ count' = count + 1
  /\ chan' = [chan EXCEPT ![c] = "await"]
  /\ UNCHANGED <<registered, buildVars, coreVars, stateVars, callVars, streamVars>>

\* built.await, then pc.create_data_channel(..).await
Register(c) ==
  /\ chan[c] = "await" /\ built # "pending"
  /\ \/ built = "ok" /\ registered' = registered \union {c} /\ chan' = [chan EXCEPT ![c] = "end"]
     \/ chan' = [chan EXCEPT ![c] = "fail"] /\ UNCHANGED registered
  /\ UNCHANGED <<count, buildVars, coreVars, stateVars, callVars, streamVars>>

\* PendingOps::end, its two steps.
End(c) ==
  /\ chan[c] \in {"end", "fail"}
  /\ count' = count - 1
  /\ chan' = [chan EXCEPT ![c] = IF @ = "end" THEN "notify" ELSE "failnotify"]
  /\ UNCHANGED <<registered, buildVars, coreVars, stateVars, callVars, streamVars>>

\* Mutant of EndNotify: the waiters are not woken.
EndQuietly(c) ==
  /\ chan[c] \in {"notify", "failnotify"}
  /\ chan' = [chan EXCEPT ![c] = IF @ = "notify" THEN "wire" ELSE "failed"]
  /\ UNCHANGED <<call, wait, registered, count, buildVars, coreVars, stateVars, streamVars>>
EndNotify(c) ==
  /\ chan[c] \in {"notify", "failnotify"}
  /\ chan' = [chan EXCEPT ![c] = IF @ = "notify" THEN "wire" ELSE "failed"]
  /\ call' = [k \in Calls |-> IF call[k].at \in {"armed", "parked"} THEN [call[k] EXCEPT !.woken = TRUE] ELSE call[k]]
  /\ UNCHANGED <<wait, registered, count, buildVars, coreVars, stateVars, streamVars>>

-----------------------------------------------------------------------------
(* create-offer and create-answer wait until no channel creation is pending; *)
(* the other signaling calls await the core and then only ask it            *)

Call(k) ==
  /\ gone \in {"no", "closed"} /\ call[k].at = "idle"
  /\ call' = [call EXCEPT ![k] = [NoCall EXCEPT !.at = "await", !.before = Created]]
  /\ UNCHANGED <<wait, buildVars, coreVars, stateVars, chanVars, streamVars>>

NoCore(k) ==
  /\ call[k].at = "await" /\ built = "err"
  /\ call' = [call EXCEPT ![k] = [NoCall EXCEPT !.at = "failed"]]
  /\ UNCHANGED <<wait, buildVars, coreVars, stateVars, chanVars, streamVars>>

\* PendingOps::settled: arm the notification, then load the count.
Arm(k) ==
  /\ \/ call[k].at = "await" /\ built = "ok"
     \/ call[k].at = "parked" /\ call[k].woken
  /\ call' = [call EXCEPT ![k].at = "armed", ![k].woken = FALSE]
  /\ UNCHANGED <<wait, buildVars, coreVars, stateVars, chanVars, streamVars>>

\* Mutant of Check: the offer does not wait for the pending creations.
CheckNothing(k) ==
  /\ call[k].at = "armed"
  /\ call' = [call EXCEPT ![k].at = "core", ![k].woken = FALSE]
  /\ UNCHANGED <<wait, buildVars, coreVars, stateVars, chanVars, streamVars>>
Check(k) ==
  /\ call[k].at = "armed"
  /\ call' = [call EXCEPT ![k].at = IF count = 0 THEN "core" ELSE "parked",
                         ![k].woken = @ /\ count # 0]
  /\ UNCHANGED <<wait, buildVars, coreVars, stateVars, chanVars, streamVars>>

\* The core answers, with an error or not; an offer covers what is registered.
CoreAnswers(k) ==
  /\ call[k].at = "core"
  /\ \E r \in {"ok", "failed"} : call' = [call EXCEPT ![k] = [NoCall EXCEPT !.at = r]]
  /\ UNCHANGED <<wait, buildVars, coreVars, stateVars, chanVars, streamVars>>

-----------------------------------------------------------------------------
(* wait-connected *)

CallWait(w) ==
  /\ gone \in {"no", "closed"} /\ wait[w].at = "idle" /\ Begun < MaxBegun
  /\ wait' = [wait EXCEPT ![w] = [NoWait EXCEPT !.at = "await"]]
  /\ UNCHANGED <<call, buildVars, coreVars, stateVars, chanVars, streamVars>>

BuildFailed(w) ==
  /\ wait[w].at = "await" /\ built = "err"
  /\ wait' = [wait EXCEPT ![w].at = "other"]
  /\ UNCHANGED <<call, buildVars, coreVars, stateVars, chanVars, streamVars>>

\* The loop: arm, load `connected`, load `failed`, wait.
ArmWait(w) ==
  /\ \/ wait[w].at = "await" /\ built = "ok"
     \/ wait[w].at = "parked" /\ wait[w].woken
  /\ wait' = [wait EXCEPT ![w].at = "connected?", ![w].woken = FALSE]
  /\ UNCHANGED <<call, buildVars, coreVars, stateVars, chanVars, streamVars>>

LoadConnected(w) ==
  /\ wait[w].at = "connected?"
  /\ wait' = [wait EXCEPT ![w].at = IF connected THEN "ok" ELSE "failed?", ![w].woken = @ /\ ~connected]
  /\ UNCHANGED <<call, buildVars, coreVars, stateVars, chanVars, streamVars>>

\* `connected` is not loaded again: it may have been stored in between.
LoadFailed(w) ==
  /\ wait[w].at = "failed?"
  /\ wait' = [wait EXCEPT ![w].at = IF failed THEN "closed" ELSE "parked"]
  /\ UNCHANGED <<call, buildVars, coreVars, stateVars, chanVars, streamVars>>

\* CONNECT_TIMEOUT passed since the core was there.
TimesOut(w) ==
  /\ wait[w].at = "parked"
  /\ wait' = [wait EXCEPT ![w].at = "timed-out"]
  /\ UNCHANGED <<call, buildVars, coreVars, stateVars, chanVars, streamVars>>

-----------------------------------------------------------------------------
(* close, drop and the core's own life *)

\* Mutant of TakeCore: the slot is emptied, the core is not closed.
TakeAndForget == slot' = FALSE /\ UNCHANGED closing
\* close_peer_connections on whatever the slot holds.
TakeCore == slot' = FALSE /\ closing' = (closing \/ slot)

\* A later close finds a core that was stored after an earlier one.
Close ==
  /\ gone \in {"no", "closed"}
  /\ gone' = "closed"
  /\ TakeCore
  /\ UNCHANGED <<build, built, core, stateVars, chanVars, callVars, streamVars>>

DropResource ==
  /\ gone \in {"no", "closed"}
  /\ gone' = "dropped"
  /\ UNCHANGED <<buildVars, core, closing, stateVars, chanVars, callVars, streamVars>>

\* Inner::drop, once no call holds a clone of it.
DropInner ==
  /\ gone = "dropped"
  /\ \A k \in Calls : call[k].at \in {"idle", "ok", "failed"}
  /\ \A w \in Waits : wait[w].at \in {"idle", "ok", "closed", "timed-out", "other"}
  /\ gone' = "freed"
  /\ TakeCore
  /\ UNCHANGED <<build, built, core, stateVars, chanVars, callVars, streamVars>>

CloseCore ==
  /\ closing
  /\ closing' = FALSE
  /\ core' = "closed"
  /\ UNCHANGED <<gone, buildVars, stateVars, chanVars, callVars, streamVars>>

\* The core calls the handler, while it has it, one callback after the other.
HandlerIdle == attached /\ ~handler

\* The core negotiates: there is an offer or an answer to start it with.
Negotiating == \E k \in Calls : call[k].at = "ok"

Connects ==
  /\ core = "new" /\ HandlerIdle /\ Negotiating
  /\ core' = "connected" /\ connected' = TRUE /\ handler' = TRUE
  /\ UNCHANGED <<closing, gone, failed, attached, buildVars, chanVars, callVars, streamVars>>

\* The failed or closed state is reported; a local close need not be.
Over ==
  /\ HandlerIdle /\ ~failed
  /\ \/ Live /\ core' = "failed"
     \/ core = "closed" /\ UNCHANGED core
  /\ failed' = TRUE /\ handler' = TRUE
  /\ UNCHANGED <<closing, gone, connected, attached, buildVars, chanVars, callVars, streamVars>>

\* A core that is over may let go of the handler, and of its senders.
Detach ==
  /\ core \in {"failed", "closed"} /\ HandlerIdle
  /\ attached' = FALSE
  /\ UNCHANGED <<connected, failed, handler, buildVars, coreVars, chanVars, callVars, streamVars>>

\* Mutant of HandlerNotifies: a wait is not armed before it checks.
NotifyParked ==
  /\ handler
  /\ handler' = FALSE
  /\ wait' = [w \in Waits |-> IF wait[w].at = "parked" THEN [wait[w] EXCEPT !.woken = TRUE] ELSE wait[w]]
  /\ UNCHANGED <<connected, failed, attached, call, buildVars, coreVars, chanVars, streamVars>>
HandlerNotifies ==
  /\ handler
  /\ handler' = FALSE
  /\ wait' = [w \in Waits |-> IF wait[w].at \in {"connected?", "failed?", "parked"}
                                THEN [wait[w] EXCEPT !.woken = TRUE] ELSE wait[w]]
  /\ UNCHANGED <<connected, failed, attached, call, buildVars, coreVars, chanVars, streamVars>>

-----------------------------------------------------------------------------
(* The streams *)

\* on_data_channel: a task is spawned, with a sender of its own.
RemoteOpens(c) ==
  /\ core = "connected" /\ rtask[c] = "none" /\ Begun < MaxBegun
  /\ opened' = Append(opened, c)
  /\ rtask' = [rtask EXCEPT ![c] = "label"]
  /\ UNCHANGED <<incoming, stream, cands, gathering, buildVars, coreVars, stateVars, chanVars, callVars>>

\* The task knows the label now, wires the channel, pushes it and ends: a
\* channel that opened earlier may still wait for its own.
Push(c) ==
  /\ rtask[c] = "label"
  /\ incoming' = Append(incoming, c)
  /\ rtask' = [rtask EXCEPT ![c] = "pushed"]
  /\ UNCHANGED <<opened, stream, cands, gathering, buildVars, coreVars, stateVars, chanVars, callVars>>

\* incoming-data-channels: the first call takes the receiver; the stream of a
\* later call ends at once and changes nothing.
TakeIncoming ==
  /\ gone \in {"no", "closed"} /\ ~stream.taken
  /\ stream' = [stream EXCEPT !.taken = TRUE]
  /\ UNCHANGED <<opened, rtask, incoming, cands, gathering, buildVars, coreVars, stateVars, chanVars, callVars>>

\* Mutant of SendersGone: the tasks have no sender of their own.
HandlerGone == ~attached
SendersGone == ~attached /\ \A c \in Remote : rtask[c] # "label"

\* IncomingChannelStream: the next channel, or the end when no sender is left.
ReadChannel ==
  /\ stream.taken /\ ~stream.ended
  /\ \/ /\ stream.read < Len(incoming)
        /\ stream' = [stream EXCEPT !.read = @ + 1]
     \/ /\ stream.read = Len(incoming) /\ SendersGone
        /\ stream' = [stream EXCEPT !.ended = TRUE]
  /\ UNCHANGED <<opened, rtask, incoming, cands, gathering, buildVars, coreVars, stateVars, chanVars, callVars>>

\* on_ice_candidate: dropped once gathering is complete.
Gather ==
  /\ Live /\ Negotiating /\ Begun < MaxBegun
  /\ gathering
  /\ cands' = [cands EXCEPT !.queued = @ + 1]
  /\ UNCHANGED <<opened, rtask, incoming, stream, gathering, buildVars, coreVars, stateVars, chanVars, callVars>>

GatheringComplete ==
  /\ Live /\ Negotiating /\ gathering
  /\ gathering' = FALSE
  /\ UNCHANGED <<opened, rtask, incoming, stream, cands, buildVars, coreVars, stateVars, chanVars, callVars>>

\* LocalCandidateStream: the next candidate, or the end when the sender is
\* gone, by the completion or with the handler.
ReadCandidate ==
  /\ ~cands.ended
  /\ \/ /\ cands.read < cands.queued
        /\ cands' = [cands EXCEPT !.read = @ + 1]
     \/ /\ cands.read = cands.queued /\ (gathering => ~attached)
        /\ cands' = [cands EXCEPT !.ended = TRUE]
  /\ UNCHANGED <<opened, rtask, incoming, stream, gathering, buildVars, coreVars, stateVars, chanVars, callVars>>

-----------------------------------------------------------------------------
BuildStep == Build \/ Store \/ SendBuilt
ChannelStep(c) == Register(c) \/ End(c) \/ EndNotify(c)
CallStep(k) == NoCore(k) \/ Arm(k) \/ Check(k) \/ CoreAnswers(k)
WaitStep(w) == BuildFailed(w) \/ ArmWait(w) \/ LoadConnected(w) \/ LoadFailed(w)

Next ==
  \/ BuildStep \/ Close \/ DropResource \/ DropInner \/ CloseCore
  \/ Connects \/ Over \/ Detach \/ HandlerNotifies
  \/ TakeIncoming \/ ReadChannel \/ Gather \/ GatheringComplete \/ ReadCandidate
  \/ \E c \in Local : CreateDataChannel(c) \/ ChannelStep(c)
  \/ \E k \in Calls : Call(k) \/ CallStep(k)
  \/ \E w \in Waits : CallWait(w) \/ WaitStep(w) \/ TimesOut(w)
  \/ \E c \in Remote : RemoteOpens(c) \/ Push(c)

Spec == Init /\ [][Next]_vars

\* Spawned tasks and pending calls run, the core answers, the clock advances.
\* No task runs for ever, so one fairness condition serves them all.
FairSpec ==
  /\ Spec
  /\ WF_vars(\/ BuildStep \/ CloseCore \/ DropInner \/ HandlerNotifies
             \/ \E c \in Local : ChannelStep(c)
             \/ \E k \in Calls : CallStep(k)
             \/ \E w \in Waits : WaitStep(w) \/ TimesOut(w))

-----------------------------------------------------------------------------
(* Properties *)

\* The types of the variables; the count is that of the channels under way.
TypeOK ==
  /\ build \in {"build", "store", "send", "done"} /\ built \in {"pending", "ok", "err"}
  /\ {slot, closing, connected, failed, handler, attached, gathering} \subseteq BOOLEAN
  /\ core \in {"none", "new", "connected", "failed", "closed"}
  /\ gone \in {"no", "closed", "dropped", "freed"}
  /\ registered \subseteq Local
  /\ count = Cardinality({c \in Local : chan[c] \in {"await", "end", "fail"}})

\* peer_connection.rs:95-98: when the core is asked for an offer it knows every
\* channel created before the offer was asked for, unless it refused the channel,
\* and the count that says so is exact.
OfferCovers ==
  /\ TypeOK
  /\ \A k \in Calls : call[k].at = "core" =>
       \A c \in call[k].before : c \in registered \/ chan[c] \in {"failed", "failnotify"}

\* peer_connection.rs:380-394: a wait-connected that is parked on a connection
\* that has connected or failed has been woken, or is about to be: no transition
\* falls between its two loads, its arming and its parking.
NoMissedTransition ==
  \A w \in Waits : wait[w].at = "parked" /\ ~wait[w].woken /\ (connected \/ failed) => handler

\* wit:269-281: the end of a stream is its last event.  When the guest is told
\* that no more channels come, it has been given every channel the peer opened,
\* also one whose task was still under way when the core let go of the handler,
\* and none opens afterwards; so with the candidates.
StreamsEndLast ==
  /\ stream.ended => \A c \in ToSet(opened) : \E i \in 1..stream.read : incoming[i] = c
  /\ cands.ended => cands.read = cands.queued

\* peer_connection.rs:120-145: however channel creations and the waiting offer
\* interleave, the offer is produced.
OffersReturn == \A k \in Calls : (call[k].at = "await") ~> (call[k].at \in {"ok", "failed"})

\* peer_connection.rs:100-103: a core that is in the slot when the connection is
\* dropped is closed, whatever calls are still pending; so is one stored between
\* a close, which found the slot empty, and the drop.
TearsDown == (slot /\ gone = "dropped") ~> ~Live

\* data_channel.rs:451-453: dropping a connection never leaks the core's tasks.
\* Violated: a core stored after the drop is closed by nobody.
NoLeak == (gone = "freed") ~> (core = "none" \/ ~Live)
=============================================================================
