------------------------------ MODULE MCTools -------------------------------
(* Instances of Tools for TLC.                                             *)
EXTENDS Tools

Job(t, c) == [tool |-> t, core |-> c]

\* Every tool on one core, next to a process that boots the same core and
\* one that runs a payload on the other; and both cores booted twice.
MCPlans ==
    {f \in [Procs -> Jobs] :
        \/ f["p"].core = 2 /\ f["q"] = Job("boot", 2) /\ f["r"] = Job("run", 3)
        \/ f["p"] = Job("run", 2) /\ f["q"] = Job("boot", 3) /\ f["r"] = Job("console", 3)}
\* Two processes that boot two cores.
MCBootPlans == {[p |-> Job("boot", 2), q |-> Job("boot", 3), r |-> Job("status", 3)]}
=============================================================================
