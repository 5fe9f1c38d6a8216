--------------------------- MODULE MCRcBenchmark ----------------------------
EXTENDS RcBenchmark
(***************************************************************************)
(* Two scenarios of two repeats.  The first may extend its staircase once; *)
(* the second starts at its ceiling.  A run is good, too slow for the SLO, *)
(* slower but within it, with failed streams, or with too few samples.     *)
(***************************************************************************)
Range1(lo, hi) == <<[lo |-> lo, hi |-> hi]>>

MCScenarios == <<[steps |-> <<1, 2>>, ceiling |-> 3], [steps |-> <<1, 2>>, ceiling |-> 2]>>

MCSLO == [p99_ttfd |-> 900, error_rate |-> 50]

MCPolicy == [min_repeats |-> 2, max_capacity_cv |-> 20, min_capacity_gain |-> 1000,
             min_cpu_saving |-> 1000, min_rss_saving |-> 6000,
             max_ttfd_regression |-> 500, max_delivery_regression |-> 500]

MCCpusets == [gateway |-> Range1(0, 1), backend |-> Range1(2, 2), loadgen |-> Range1(3, 3)]

Machine(identity, last) ==
  [identity |-> identity, online_cpus |-> Range1(0, last), cgroup_version |-> 2,
   cpu_governors |-> {"performance"}]

(* As planned, after an upgrade, and with a CPU taken away. *)
MCFirstMachine == Machine(1, 3)
MCMachines == {MCFirstMachine, Machine(2, 3), Machine(1, 2)}

Row(ts, container, cpu) ==
  [timestamp |-> ts, container |-> container, cpu |-> cpu, rss |-> 2]

Run(containers, used, ttfd, error) ==
  [wall   |-> 1,
   stream |-> [error |-> error, ttfd |-> ttfd, delivery |-> <<1, 2>>],
   stats  |-> [i \in 1..(2 * Len(containers)) |->
                 Row(((i - 1) \div Len(containers)) + 1, containers[((i - 1) % Len(containers)) + 1],
                     IF i > Len(containers) THEN used ELSE 0)]]

Native(used, ttfd) == Run(<<"native-nginx">>, used, ttfd, FALSE)
Legacy(used, ttfd) == Run(<<"legacy-nginx", "envoy">>, used, ttfd, FALSE)
Short(run) == [run EXCEPT !.stats = <<Head(run.stats)>>]

Good == [native |-> Native(8, 4), legacy |-> Legacy(4, 4)]
Slow == [native |-> Native(8, 20), legacy |-> Legacy(4, 20)]
Late == Native(4, 6)
Lean == Native(4, 4)
Cut  == Run(<<"legacy-nginx", "envoy">>, 4, 4, TRUE)

Pairs(arch) == {<<Good[arch], Good[arch]>>, <<Good[arch], Slow[arch]>>}

(* In the second scenario native is worth it by its CPU time alone, unless *)
(* it is late; in the first, by its capacity alone.                        *)
MCMeasured ==
  <<[native |-> Pairs("native") \union {<<Short(Good.native), Good.native>>},
     legacy |-> Pairs("legacy")],
    [native |-> {<<Lean, Lean>>, <<Lean, Slow.native>>, <<Late, Late>>},
     legacy |-> Pairs("legacy") \union {<<Good.legacy, Cut>>}]>>
=============================================================================
