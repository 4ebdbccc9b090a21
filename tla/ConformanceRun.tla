--------------------------- MODULE ConformanceRun ---------------------------
(***************************************************************************)
(* The conformance suite as its operator runs it: one executor at a time   *)
(* (the loopback adapter, the netns lab or the Shadow lab), each of which  *)
(* prepares what it needs, runs the selected tests at most Jobs at once,   *)
(* writes one result document and cleans up; and the runner, which reads   *)
(* all the documents and says ok or not.  What outlives an executor is the *)
(* state of the machine: the lab's namespaces, links, TURN server and      *)
(* firewall policy, the result documents, Shadow's data directory.  An     *)
(* executor may be killed at any point and any command may fail: MaxFaults *)
(* bounds the two together, MaxRuns the number of executors.               *)
(*                                                                         *)
(* A peer is abstracted to how it ends (ConformanceGuest.tla is its        *)
(* inside); processes a killed executor leaves behind live on in           *)
(* namespaces nothing refers to again and are not followed.                *)
(***************************************************************************)
EXTENDS Naturals, FiniteSets, SequencesExt

CONSTANTS
  Corpus,        \* TESTS: the ids in registry order
  InProcess,     \* the ids plan_for runs as a single instance
  Executors,     \* the [kind, env] that can be run
  Only,          \* the --only selections, {} being none given
  Jobs,          \* --jobs
  Outcomes,      \* test -> how its peers may end: "pass", "fail", "skip", "err"
  Unsupported, ExpectedFail,  \* the manifest: sets of [test, envs]
  MaxRuns, MaxFaults

VARIABLES
  lab,      \* what the machine holds of the netns lab
  run,      \* the executor: its phase, kind, env, set of tests, commands to run,
            \* and those that failed unnoticed
  att,      \* test -> its attempt
  procs,    \* the child processes of the attempts, <<test, who>>
  files,    \* the result documents, by file stem
  data,     \* Shadow's data directory
  runner,   \* the runner: its phase, its signaling server, its verdict
  seen,     \* history: env -> what the last executor to report saw
  runs, faults

vars == <<lab, run, att, procs, files, data, runner, seen, runs, faults>>

Tests == ToSet(Corpus)
Envs == {x.env : x \in Executors}
Roles(kind, t) ==
  IF kind = "loopback" /\ t \in InProcess THEN {"offerer"}
  ELSE {"offerer", "answerer"}
AllRoles == {"offerer", "answerer"}

\* The loopback adapter has one environment, which no lab has.
ASSUME RunAssumption ==
  /\ Corpus \in Seq(STRING) /\ Jobs \in Nat
  /\ Outcomes \in [Tests -> SUBSET {"pass", "fail", "skip", "err"}]
  /\ Executors \subseteq [kind : {"loopback", "netns", "shadow"}, env : STRING]
  /\ \A x, y \in Executors :
       x.kind = "loopback" => (y.kind = "loopback" <=> y.env = x.env)
  /\ \A x \in Executors : x.kind # "loopback" => x.env # "target"

-----------------------------------------------------------------------------
(* The lab *)

Endpoints == <<"off", "ans", "sig">>
Namespaces == ToSet(Endpoints) \cup {"rtr"}
Ends == ToSet(Endpoints) \X {"ep", "gw"}
Home(end) == IF end[2] = "gw" THEN "rtr" ELSE end[1]

NeedsCoturn(env) == env # "lan"

NoLab == [ns |-> {}, root |-> {}, placed |-> {}, turn |-> {}, policy |-> "none"]

\* The commands, in the order the code gives them.
NetnsDown == [k \in 1..4 |-> <<"del", <<"off", "ans", "sig", "rtr">>[k]>>]

Link(e) == << <<"pair", e>>, <<"move", e, "ep">>, <<"move", e, "gw">>,
              <<"configure", e>> >>

\* Mutant: the stale lab is not torn down first.
NetnsUpBare ==
  << <<"add", "rtr">>, <<"add", "off">>, <<"add", "ans">>, <<"add", "sig">>,
     <<"forward">> >>
  \o Link("off") \o Link("ans") \o Link("sig")

NetnsUp ==
  NetnsDown
  \o << <<"add", "rtr">>, <<"add", "off">>, <<"add", "ans">>, <<"add", "sig">>,
        <<"forward">> >>
  \o Link("off") \o Link("ans") \o Link("sig")

CoturnDown == << <<"turnstop">> >>
\* Mutant: a TURN server that is running is not stopped.
CoturnUpBare == << <<"turn">> >>
CoturnUp == CoturnDown \o << <<"turn">> >>

NftablesClear == << <<"nftclear">> >>
NftablesApply(env) ==
  NftablesClear \o (IF env = "lan" THEN <<>> ELSE << <<"nft", env>> >>)

ScenarioUp(env) ==
  NetnsUp \o (IF NeedsCoturn(env) THEN CoturnUp ELSE <<>>) \o NftablesApply(env)
ScenarioDown == NftablesClear \o CoturnDown \o NetnsDown

\* run() checks the exit status, run_ignore() does not.
Checked(c) == c[1] \notin {"del", "turnstop", "nftclear"}

\* Whether a command whose failure is ignored finds something to do.
Finds(c) ==
  CASE c[1] = "del"      -> c[2] \in lab.ns
    [] c[1] = "turnstop" -> lab.turn # {}
    [] c[1] = "nftclear" -> lab.policy # "none"
    [] OTHER -> FALSE

\* Whether the machine lets a checked command succeed.
Can(c) ==
  CASE c[1] = "add"  -> c[2] \notin lab.ns
    [] c[1] = "pair" -> lab.root \cap ({c[2]} \X {"ep", "gw"}) = {}
    [] c[1] = "move" -> /\ <<c[2], c[3]>> \in lab.root
                        /\ Home(<<c[2], c[3]>>) \in lab.ns
    [] c[1] = "configure" -> {c[2]} \X {"ep", "gw"} \subseteq lab.placed
    [] c[1] = "turn" -> "sig" \in lab.ns /\ "lab" \notin lab.turn
    [] c[1] \in {"forward", "nft"} -> "rtr" \in lab.ns
    [] OTHER -> TRUE

\* Deleting a namespace takes the links with an end in it; a TURN server in
\* it lives on in the nameless rest of it.
Deleted(n) ==
  LET gone == {e \in ToSet(Endpoints) :
                 \E end \in lab.placed : end[1] = e /\ Home(end) = n}
  IN [ns     |-> lab.ns \ {n},
      root   |-> {end \in lab.root : end[1] \notin gone},
      placed |-> {end \in lab.placed : end[1] \notin gone},
      turn   |-> IF n = "sig" /\ lab.turn # {} THEN {"orphan"} ELSE lab.turn,
      policy |-> IF n = "rtr" THEN "none" ELSE lab.policy]

After(c) ==
  CASE c[1] = "del"  -> Deleted(c[2])
    [] c[1] = "add"  -> [lab EXCEPT !.ns = @ \cup {c[2]}]
    [] c[1] = "pair" -> [lab EXCEPT !.root = @ \cup ({c[2]} \X {"ep", "gw"})]
    [] c[1] = "move" -> [lab EXCEPT !.root = @ \ {<<c[2], c[3]>>},
                                    !.placed = @ \cup {<<c[2], c[3]>>}]
    [] c[1] = "turnstop" -> [lab EXCEPT !.turn = {}]
    [] c[1] = "turn"     -> [lab EXCEPT !.turn = @ \cup {"lab"}]
    [] c[1] = "nftclear" -> [lab EXCEPT !.policy = "none"]
    [] c[1] = "nft"      -> [lab EXCEPT !.policy = c[2]]
    [] OTHER -> lab

-----------------------------------------------------------------------------
(* An executor's life *)

NotTried == [phase |-> "idle", out |-> [r \in AllRoles |-> "none"], status |-> "none"]
Untried == [t \in Tests |-> NotTried]
NoRun == [phase |-> "idle", kind |-> "none", env |-> "none", tests |-> {},
          prog |-> <<>>, ignored |-> {}]
NoData == [there |-> FALSE, fresh |-> FALSE,
           out |-> [t \in Tests |-> [r \in AllRoles |-> "none"]]]
NoReport == [there |-> FALSE, torn |-> FALSE, env |-> "none",
             res |-> [t \in Tests |-> "none"]]

\* loopback runs TESTS, the labs TWO_PEER_TESTS; --only filters either.
Selected(kind, only) ==
  {t \in Tests : /\ kind = "loopback" \/ t \notin InProcess
                 /\ only = {} \/ t \in only}

\* The name of the result document: <target>.json or <target>-<env>.json.
\* Mutant: every environment of a target in one file.
StemOfTarget(x) == "target"
Stem(x) == IF x.kind = "loopback" THEN "target" ELSE x.env
Stems == {Stem(x) : x \in Executors}

Init ==
  /\ lab = NoLab /\ run = NoRun /\ att = Untried /\ procs = {}
  /\ files = [s \in Stems |-> NoReport]
  /\ data = NoData
  /\ runner = [phase |-> "off", child |-> "none", verdict |-> "none"]
  /\ seen = [e \in Envs |-> [t \in Tests |-> "none"]]
  /\ runs = 0 /\ faults = 0

\* main: the Shadow lab refuses an empty selection.
StartRun(x, only) ==
  /\ run.phase = "idle" /\ runner.phase = "off" /\ runs < MaxRuns
  /\ x.kind = "shadow" => Selected(x.kind, only) # {}
  /\ runs' = runs + 1
  /\ run' = [kind |-> x.kind, env |-> x.env, tests |-> Selected(x.kind, only),
             phase |-> CASE x.kind = "netns" -> "up"
                         [] x.kind = "shadow" -> "clear"
                         [] x.kind = "loopback" -> "corpus",
             prog |-> IF x.kind = "netns" THEN ScenarioUp(x.env) ELSE <<>>,
             ignored |-> {}]
  /\ data' = [data EXCEPT !.fresh = FALSE]
  /\ runner' = [runner EXCEPT !.verdict = "none"]
  /\ UNCHANGED <<lab, att, procs, files, seen, faults>>

\* On to the next command; the ones in failed have been ignored.
Advance(failed) ==
  IF Tail(run.prog) # <<>>
  THEN run' = [run EXCEPT !.prog = Tail(@), !.ignored = @ \cup failed]
  ELSE run' = IF run.phase = "down" THEN NoRun
              ELSE [run EXCEPT !.phase = "corpus", !.prog = <<>>,
                               !.ignored = @ \cup failed]

\* One command of scenario_up or scenario_down.
Command ==
  /\ run.phase \in {"up", "down"}
  /\ LET c == Head(run.prog)
     IN (Checked(c) => Can(c)) /\ lab' = After(c)
  /\ Advance({})
  /\ UNCHANGED <<att, procs, files, data, runner, seen, runs, faults>>

\* A command that has something to remove fails, and nobody looks.
IgnoredFails ==
  /\ run.phase \in {"up", "down"} /\ faults < MaxFaults
  /\ LET c == Head(run.prog)
     IN ~Checked(c) /\ Finds(c) /\ Advance({c})
  /\ faults' = faults + 1
  /\ UNCHANGED <<lab, att, procs, files, data, runner, seen, runs>>

\* The guard that tears the lab down is made only after scenario_up: a
\* command of it that fails ends the executor and leaves the lab as it is.
CommandFails ==
  /\ run.phase = "up" /\ Checked(Head(run.prog))
  /\ \/ ~Can(Head(run.prog)) /\ UNCHANGED faults
     \/ /\ Can(Head(run.prog)) /\ faults < MaxFaults
        /\ faults' = faults + 1
  /\ run' = NoRun
  /\ UNCHANGED <<lab, att, procs, files, data, runner, seen, runs>>

-----------------------------------------------------------------------------
(* The corpus: run_corpus over run_test *)

InFlight(t) == att[t].phase \in {"bind", "run"}
\* buffered(jobs): the tests start in the order of the registry, and a
\* finished result holds its place until those before it have been taken.
Earlier(t) ==
  {u \in run.tests : \E j, k \in DOMAIN Corpus :
                       j < k /\ Corpus[j] = u /\ Corpus[k] = t}
Taken == {t \in run.tests : \A u \in Earlier(t) \cup {t} : att[u].phase = "done"}
Started == {t \in run.tests : att[t].phase # "idle"}

Running(t) == [r \in AllRoles |-> IF r \in Roles(run.kind, t) THEN "running" ELSE "none"]
Peers(t) == {<<t, r>> : r \in Roles(run.kind, t)}
Children(t) == {t} \X (AllRoles \cup {"server"})

\* The attempt begins.  In the lab it starts a signaling server of its own
\* and lets it bind; a server that cannot be spawned fails the test.
StartTest(t) ==
  /\ run.phase = "corpus" /\ t \in run.tests \ Started /\ Earlier(t) \subseteq Started
  /\ Cardinality(Started \ Taken) < Jobs
  /\ IF run.kind = "loopback"
     THEN /\ att' = [att EXCEPT ![t].phase = "run", ![t].out = Running(t)]
          /\ UNCHANGED procs
     ELSE \/ /\ att' = [att EXCEPT ![t].phase = "bind"]
             /\ procs' = procs \cup {<<t, "server">>}
          \/ /\ att' = [att EXCEPT ![t].phase = "done", ![t].status = "fail"]
             /\ UNCHANGED procs
  /\ UNCHANGED <<lab, run, files, data, runner, seen, runs, faults>>

SpawnPeers(t) ==
  /\ run.phase = "corpus" /\ att[t].phase = "bind"
  /\ att' = [att EXCEPT ![t].phase = "run", ![t].out = Running(t)]
  /\ procs' = procs \cup Peers(t)
  /\ UNCHANGED <<lab, run, files, data, runner, seen, runs, faults>>

\* fold_two, after the `?` on each outcome has made an adapter error a fail.
Folded(outs) ==
  IF outs \cap {"fail", "err"} # {} THEN "fail"
  ELSE IF "skip" \in outs THEN "skip" ELSE "pass"

\* A peer ends: with a result line, or ("err") without one, with a nonzero
\* exit, or never spawned.  join waits for both; the last one ends the
\* attempt and its server's guard is dropped.
PeerEnds(t, r, o) ==
  /\ run.phase = "corpus" /\ att[t].phase = "run" /\ att[t].out[r] = "running"
  /\ LET out == [att[t].out EXCEPT ![r] = o]
         outs == {out[q] : q \in Roles(run.kind, t)}
     IN IF "running" \in outs
        THEN /\ att' = [att EXCEPT ![t].out = out]
             /\ procs' = procs \ {<<t, r>>}
        ELSE /\ att' = [att EXCEPT ![t] = [phase |-> "done", out |-> out,
                                           status |-> Folded(outs)]]
             /\ procs' = procs \ Children(t)
  /\ UNCHANGED <<lab, run, files, data, runner, seen, runs, faults>>

\* Mutants of Timeout: the children are not killed; there is no hang guard.
TimeoutLeaks(t) ==
  /\ run.phase = "corpus" /\ InFlight(t)
  /\ att' = [att EXCEPT ![t].phase = "done", ![t].status = "fail"]
  /\ UNCHANGED <<lab, run, procs, files, data, runner, seen, runs, faults>>
TimeoutNever(t) == FALSE /\ t \in Tests /\ UNCHANGED vars

\* The hang guard: the attempt is dropped, which kills its children.
Timeout(t) ==
  /\ run.phase = "corpus" /\ InFlight(t)
  /\ att' = [att EXCEPT ![t] = [NotTried EXCEPT !.phase = "done", !.status = "fail"]]
  /\ procs' = procs \ Children(t)
  /\ UNCHANGED <<lab, run, files, data, runner, seen, runs, faults>>

CorpusEnds ==
  /\ run.phase = "corpus" /\ Taken = run.tests
  /\ run' = [run EXCEPT !.phase = "report"]
  /\ UNCHANGED <<lab, att, procs, files, data, runner, seen, runs, faults>>

-----------------------------------------------------------------------------
(* The Shadow lab *)

\* Mutant: the old data directory is left to shadow.
ClearDataNot ==
  /\ run.phase = "clear"
  /\ run' = [run EXCEPT !.phase = "simulate"]
  /\ UNCHANGED <<lab, att, procs, files, data, runner, seen, runs, faults>>

\* The old data directory is removed first; failing that ends the executor.
ClearData ==
  /\ run.phase = "clear"
  /\ \/ /\ data' = NoData /\ run' = [run EXCEPT !.phase = "simulate"]
        /\ UNCHANGED faults
     \/ /\ data.there /\ faults < MaxFaults
        /\ faults' = faults + 1 /\ run' = NoRun /\ UNCHANGED data
  /\ UNCHANGED <<lab, att, procs, files, runner, seen, runs>>

\* One simulation of every selected test.  A peer whose host printed no
\* result by the stop time counts as "err".  shadow refuses a directory that
\* exists and may fail in any other way: its exit status is only a warning.
Simulate ==
  /\ run.phase = "simulate"
  /\ \/ /\ ~data.there
        /\ \E out \in [run.tests -> [AllRoles -> UNION {Outcomes[t] : t \in Tests}]] :
             /\ \A t \in run.tests, r \in AllRoles : out[t][r] \in Outcomes[t]
             /\ data' = [there |-> TRUE, fresh |-> TRUE,
                         out |-> [t \in Tests |-> IF t \in run.tests THEN out[t]
                                                  ELSE NoData.out[t]]]
     \/ UNCHANGED data
  /\ run' = [run EXCEPT !.phase = "report"]
  /\ UNCHANGED <<lab, att, procs, files, runner, seen, runs, faults>>

\* collect_result: a peer without a result is a failure of the test.
Collected(t) ==
  IF data.there /\ \A r \in AllRoles : data.out[t][r] # "none"
  THEN Folded({data.out[t][r] : r \in AllRoles})
  ELSE "fail"

-----------------------------------------------------------------------------
(* The result document *)

Result(t) ==
  CASE t \notin run.tests -> "none"
    [] t \in run.tests /\ run.kind = "shadow" -> Collected(t)
    [] OTHER -> att[t].status

\* write_report done or failed, the executor returns; the lab is torn down.
Return ==
  /\ run' = IF run.kind = "netns"
            THEN [run EXCEPT !.phase = "down", !.prog = ScenarioDown, !.ignored = {}]
            ELSE NoRun
  /\ att' = Untried

\* fs::write empties the file before it fills it.
OpenReport ==
  /\ run.phase = "report"
  /\ \/ /\ files' = [files EXCEPT ![Stem(run)] = [NoReport EXCEPT !.there = TRUE, !.torn = TRUE]]
        /\ run' = [run EXCEPT !.phase = "write"]
        /\ UNCHANGED <<att, faults>>
     \/ /\ faults < MaxFaults /\ faults' = faults + 1
        /\ Return /\ UNCHANGED files
  /\ UNCHANGED <<lab, procs, data, runner, seen, runs>>

WriteReport ==
  /\ run.phase = "write"
  /\ Return
  /\ \/ /\ files' = [files EXCEPT ![Stem(run)] =
             [there |-> TRUE, torn |-> FALSE, env |-> run.env,
              res |-> [t \in Tests |-> Result(t)]]]
        /\ seen' = [seen EXCEPT ![run.env] = [t \in Tests |-> Result(t)]]
        /\ UNCHANGED faults
     \/ /\ faults < MaxFaults /\ faults' = faults + 1
        /\ UNCHANGED <<files, seen>>
  /\ UNCHANGED <<lab, procs, data, runner, runs>>

\* SIGKILL or SIGINT: no destructor runs.  (For the executors without a lab
\* an error that main returns before its report is no different.)
Kill ==
  /\ run.phase # "idle" /\ faults < MaxFaults
  /\ faults' = faults + 1
  /\ run' = NoRun /\ att' = Untried /\ procs' = {}
  /\ UNCHANGED <<lab, files, data, runner, seen, runs>>

-----------------------------------------------------------------------------
(* The runner *)

ScopeApplies(x, env) == x.envs = {} \/ env \in x.envs
Applies(entries, t, env) == \E x \in entries : x.test = t /\ ScopeApplies(x, env)

ClassifyOne(env, t, raw) ==
  IF Applies(Unsupported, t, env) THEN "skip-unsupported"
  ELSE CASE raw = "none" -> "missing"
         [] raw = "skip" -> "skip-unsupported"
         [] raw = "pass" -> IF Applies(ExpectedFail, t, env)
                            THEN "unexpected-pass" ELSE "pass"
         [] raw = "fail" -> IF Applies(ExpectedFail, t, env)
                            THEN "expected-fail" ELSE "fail"

IsFailure(status) == status \in {"fail", "unexpected-pass"}

Reports == {s \in Stems : files[s].there}
HasFailures ==
  \E s \in Reports, t \in Tests :
    IsFailure(ClassifyOne(files[s].env, t, files[s].res[t]))

\* With --signaling-bin the runner starts a server first.
RunnerStarts ==
  /\ run.phase = "idle" /\ runner.phase = "off"
  /\ runner' \in {[runner EXCEPT !.phase = "load"],
                  [runner EXCEPT !.phase = "url", !.child = "alive"]}
  /\ UNCHANGED <<lab, run, att, procs, files, data, seen, runs, faults>>

\* The child is wrapped, and so killed on drop, only once its first line has
\* been read: a child that says something else is left running.
ReadBaseUrl ==
  /\ runner.phase = "url"
  /\ runner' \in {[runner EXCEPT !.phase = "health"],
                  [phase |-> "off", child |-> "leaked", verdict |-> "error"]}
  /\ UNCHANGED <<lab, run, att, procs, files, data, seen, runs, faults>>

AwaitHealthy ==
  /\ runner.phase = "health"
  /\ runner' \in {[runner EXCEPT !.phase = "load"],
                  [phase |-> "off", child |-> "none", verdict |-> "error"]}
  /\ UNCHANGED <<lab, run, att, procs, files, data, seen, runs, faults>>

\* load_reports, classify, the shutdown of the server, the writing of the
\* matrix, which may fail, and the exit status.
Judge ==
  /\ runner.phase = "load"
  /\ \E v \in {"error", IF \E s \in Reports : files[s].torn THEN "error"
                        ELSE IF HasFailures THEN "failing" ELSE "ok"} :
       runner' = [phase |-> "off", verdict |-> v,
                  child |-> IF runner.child = "alive" THEN "none" ELSE runner.child]
  /\ UNCHANGED <<lab, run, att, procs, files, data, seen, runs, faults>>

-----------------------------------------------------------------------------
\* What the program and its timers do by themselves.  The read of the
\* server's first line is not here: it has no timeout.
System ==
  \/ Command \/ (CommandFails /\ UNCHANGED faults)
  \/ CorpusEnds \/ ClearData \/ Simulate
  \/ (\E t \in Tests : StartTest(t) \/ SpawnPeers(t) \/ Timeout(t))
  \/ OpenReport \/ WriteReport
  \/ AwaitHealthy \/ Judge

Next ==
  \/ \E x \in Executors, only \in Only : StartRun(x, only)
  \/ Command \/ IgnoredFails \/ CommandFails
  \/ CorpusEnds \/ ClearData \/ Simulate
  \/ \E t \in Tests : StartTest(t) \/ SpawnPeers(t) \/ Timeout(t)
  \/ \E t \in Tests, r \in AllRoles : \E o \in Outcomes[t] : PeerEnds(t, r, o)
  \/ OpenReport \/ WriteReport \/ Kill
  \/ RunnerStarts \/ ReadBaseUrl \/ AwaitHealthy \/ Judge

Spec == Init /\ [][Next]_vars /\ WF_vars(System)

-----------------------------------------------------------------------------
(* Correctness *)

\* The shape of the state: a link's end is in the root namespace or in its
\* home, never both, and its home exists; a test that is done has a status.
TypeOK ==
  /\ lab \in [ns : SUBSET Namespaces, root : SUBSET Ends, placed : SUBSET Ends,
              turn : SUBSET {"lab", "orphan"}, policy : Envs \cup {"none"}]
  /\ lab.root \cap lab.placed = {}
  /\ \A end \in lab.placed : Home(end) \in lab.ns
  /\ run.phase \in {"idle", "up", "down", "clear", "simulate", "corpus", "report", "write"}
  /\ run.phase \in {"up", "down"} <=> run.prog # <<>>
  /\ \A t \in Tests :
       /\ att[t].phase \in {"idle", "bind", "run", "done"}
       /\ att[t].phase = "done" <=> att[t].status \in {"pass", "fail", "skip"}
  /\ procs \subseteq Tests \X (AllRoles \cup {"server"})
  /\ runner \in [phase : {"off", "url", "health", "load"},
                 child : {"none", "alive", "leaked"},
                 verdict : {"none", "ok", "failing", "error"}]

\* lab.rs says that a half-provisioned lab never wedges a run.  That is so of
\* namespaces, the TURN server, the policy and finished links, wherever an
\* earlier executor was cut, and whatever its teardown failed to remove.  What
\* a new one can trip over is a link an executor that was cut had created and
\* not yet moved out of the root namespace, which netns_down does not look
\* for, and a namespace its own netns_down has just failed to delete.
OnlyAnUnmovedLinkWedges ==
  run.phase = "up" /\ Checked(Head(run.prog)) /\ ~Can(Head(run.prog))
    => \/ \E e \in ToSet(Endpoints) :
            /\ Head(run.prog) = <<"pair", e>>
            /\ {e} \X {"ep", "gw"} \subseteq lab.root
            /\ faults > 0
       \/ \E n \in Namespaces :
            Head(run.prog) = <<"add", n>> /\ <<"del", n>> \in run.ignored

\* All namespaces and links, the scenario's policy, and its TURN server, if it
\* wants one: alone, unless stopping an older one has just failed.
LabOf(env) ==
  /\ lab.ns = Namespaces /\ lab.root = {} /\ lab.placed = Ends
  /\ lab.policy = IF env = "lan" THEN "none" ELSE env
  /\ "lab" \in lab.turn <=> NeedsCoturn(env)
  /\ NeedsCoturn(env) /\ "orphan" \in lab.turn => <<"turnstop">> \in run.ignored

\* What a teardown leaves is what a command of it that failed was to remove.
LeftBehind ==
  run.phase = "down" /\ run'.phase = "idle" /\ faults' = faults
    => /\ lab'.ns \subseteq {n \in Namespaces : <<"del", n>> \in run.ignored}
       /\ lab'.root = {}
       /\ lab'.turn # {} => <<"turnstop">> \in run.ignored
       /\ lab'.policy # "none" => <<"nftclear">> \in run.ignored

\* While the tests of a scenario run, and until their report is written, the
\* lab is that scenario's and nothing of an earlier one.  An executor that was
\* not killed, once it has had a lab, leaves nothing behind but what commands
\* of its own teardown failed to remove, whatever became of its tests and
\* report, and of the executors before it.  (The teardown's very last command
\* failing is the executor killed before it.)
LabMatchesScenario ==
  /\ [](run.kind = "netns" /\ run.phase \in {"corpus", "report", "write"} => LabOf(run.env))
  /\ [][LeftBehind]_vars

\* A child process belongs to an attempt under way, and a peer's to a peer
\* that has not ended: no timeout, failure of the other peer or end of the
\* corpus leaves one behind.  Attempts under way are at most Jobs.  The
\* runner's server ends with it, but for one whose first line it could not
\* read.  (With the shape of the state, which the attempts' rules rest on.)
NoProcessOutlives ==
  /\ TypeOK
  /\ \A p \in procs :
       /\ InFlight(p[1])
       /\ p[2] # "server" => att[p[1]].out[p[2]] = "running"
  /\ run.phase = "idle" => procs = {}
  /\ Cardinality({t \in Tests : InFlight(t)}) <= Jobs
  /\ runner.phase = "off" => runner.child # "alive"

\* What the peers of a test have said in the run that reports it.
Said(t) ==
  LET out == IF run.kind = "shadow" THEN data.out[t] ELSE att[t].out
  IN {out[r] : r \in Roles(run.kind, t)}

\* A report says "pass" of a test only if, in the very run that writes it,
\* every peer of the test ended by itself and said pass; and "skip" only if
\* none failed, erred or was still running.  A timeout, an error, a stale or
\* missing Shadow result is always a failure.
EarnedStep ==
  run.phase = "write" /\ files' # files
    => \A t \in run.tests :
         LET s == files'[Stem(run)].res[t]
         IN /\ s # "fail" => /\ Said(t) \cap {"fail", "err", "running", "none"} = {}
                             /\ run.kind = "shadow" => data.fresh
            /\ s = "pass" => Said(t) = {"pass"}

\* No report ever written says more for a test than its peers said.
PassIsEarned == [][EarnedStep]_vars

\* The manifest's expectations, environment by environment.
Surprising(env, t, s) ==
  /\ \A x \in Unsupported : x.test = t => x.envs # {} /\ env \notin x.envs
  /\ LET known == \E x \in ExpectedFail : x.test = t /\ (x.envs = {} \/ env \in x.envs)
     IN (s = "fail" /\ ~known) \/ (s = "pass" /\ known)

\* The runner says ok exactly when no environment's last reported run saw an
\* unexpected failure or an unexpected pass: no environment's results hide
\* another's, no older ones hide newer ones.
VerdictSound ==
  LET bad == \E env \in Envs, t \in Tests : Surprising(env, t, seen[env][t])
  IN /\ runner.verdict = "ok" => ~bad
     /\ runner.verdict = "failing" => bad

\* An executor ends even if no peer ever does, and so does the runner once its
\* server, if it has one, has said where it listens.  (The commands that are
\* run return: none of them has a timeout.)
RunsEnd ==
  /\ run.phase # "idle" ~> run.phase = "idle"
  /\ runner.phase \in {"health", "load"} ~> runner.phase = "off"
=============================================================================
