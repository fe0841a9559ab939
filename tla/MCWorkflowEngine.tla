-------------------------- MODULE MCWorkflowEngine --------------------------
(* The workflow engine for TLC: the workflows that a run goes through.     *)
EXTENDS WorkflowEngine, TLC

Step(type, action, monitored) ==
    [type |-> type, action |-> action, monitored |-> monitored]

Sequential == Step("sequential", "approve", FALSE)
Parallel == Step("parallel", "approve", FALSE)
Review == Step("sequential", "review", FALSE)
ParallelReview == Step("parallel", "review", FALSE)
Monitored == Step("sequential", "approve", TRUE)

UpTo(n, kinds) == UNION {[1..k -> kinds] : k \in 0..n}

UpToTwo == UpTo(2, {Sequential, Parallel, Review, ParallelReview})
UpToThree == UpToTwo
                \cup [1..3 -> {Sequential, Parallel, Review}]
                \cup {<<Monitored>>}

TwoInParallel == {<<Parallel, Parallel>>}
OneByOne == {<<Sequential, Sequential>>}
=============================================================================
