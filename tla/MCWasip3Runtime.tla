--------------------------- MODULE MCWasip3Runtime ---------------------------
(* Small instances of Wasip3Runtime. *)
EXTENDS Wasip3Runtime, TLC

\* Cumulative sizes: three unit messages, or a large message between two small
\* ones, so that with Limit = 2 the large one overflows exactly when the first
\* is still buffered and the last would have fitted again.
UnitWorkload == [n \in 0..MaxMsgs |-> n]
LargeSecond == [n \in 0..MaxMsgs |-> CASE n = 0 -> 0 [] n = 1 -> 1 [] n = 2 -> 3 [] OTHER -> n + 1]
MCWorkloads == {UnitWorkload, LargeSecond}

TaskSymmetry == Permutations(Tasks)
=============================================================================
