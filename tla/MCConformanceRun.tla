-------------------------- MODULE MCConformanceRun --------------------------
(* A small instance of ConformanceRun: two two-peer tests and an in-process
   one, all three executors, a manifest with scoped and unscoped entries. *)
EXTENDS ConformanceRun

MCCorpus == <<"a", "b", "p">>
MCExecutors ==
  {[kind |-> "loopback", env |-> "loopback"], [kind |-> "netns", env |-> "lan"],
   [kind |-> "netns", env |-> "turn-relay"], [kind |-> "shadow", env |-> "shadow"]}
MCOnly == {{}, {"p"}}
MCOutcomes ==
  [t \in {"a", "b", "p"} |-> CASE t = "a" -> {"pass", "fail"}
                              [] t = "b" -> {"skip"}
                              [] t = "p" -> {"pass", "err"}]
MCUnsupported == {[test |-> "b", envs |-> {"shadow"}]}
MCExpectedFail == {[test |-> "a", envs |-> {"turn-relay"}], [test |-> "p", envs |-> {}]}
=============================================================================
