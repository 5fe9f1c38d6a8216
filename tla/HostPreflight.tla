---------------------------- MODULE HostPreflight ----------------------------
(***************************************************************************)
(* perf/host_info.py: what a benchmark records of the machine it runs on.  *)
(* A CPU set is a sequence of ranges.  A machine is the record of what the *)
(* readers of /proc, /sys and docker return; "identity" stands for the     *)
(* fields that are only ever compared (kernel, machine, cpu_model,         *)
(* memory_bytes, docker_version).                                          *)
(***************************************************************************)
EXTENDS Integers, Sequences

Roles == {"gateway", "backend", "loadgen"}

Parses(cpuset) ==
  \A i \in DOMAIN cpuset : cpuset[i].lo >= 0 /\ cpuset[i].hi >= cpuset[i].lo

(* The empty text is the empty set of CPUs, and so is one that is invalid  *)
(* (its issue is raised beside it).                                        *)
ParseCpuset(cpuset) ==
  IF Parses(cpuset)
  THEN UNION {cpuset[i].lo..cpuset[i].hi : i \in DOMAIN cpuset}
  ELSE {}

When(condition, level, code) ==
  IF condition THEN {[level |-> level, code |-> code]} ELSE {}

ValidatePreflight(info, strict) ==
  LET named  == info.cpusets
      parse  == \A r \in Roles : Parses(named[r])
      cpus   == [r \in Roles |-> IF parse THEN ParseCpuset(named[r]) ELSE {}]
      online == ParseCpuset(info.online_cpus)
      severe == IF strict THEN "error" ELSE "warning"
  IN UNION {
       When(strict /\ \E r \in Roles : named[r] = <<>>, "error", "cpuset_missing"),
       When(~parse, "error", "cpuset_invalid"),
       When(~Parses(info.online_cpus), severe, "online_cpuset_invalid"),
       When(online # {} /\ \E r \in Roles : ~(cpus[r] \subseteq online),
            "error", "cpuset_offline"),
       When(\E r, q \in Roles : r # q /\ cpus[r] \intersect cpus[q] # {},
            "error", "cpuset_overlap"),
       When(info.cgroup_version # 2, severe, "cgroup_v2_required"),
       When(~(info.cpu_governors \subseteq {"performance"}), "warning", "cpu_governor"),
       When(strict /\ info.cpu_governors = {}, "warning", "cpu_governor_unknown")}

(* FINGERPRINT_FIELDS; the digest is taken to be injective. *)
BuildFingerprint(info) ==
  <<info.identity, info.online_cpus, info.cgroup_version, info.cpusets,
    info.cpu_governors>>

CollectHostInfo(machine, cpusets, strict) ==
  LET info == [identity       |-> machine.identity,
               online_cpus    |-> machine.online_cpus,
               cgroup_version |-> machine.cgroup_version,
               cpu_governors  |-> machine.cpu_governors \ {""},
               cpusets        |-> cpusets]
  IN [strict      |-> strict,
      fingerprint |-> BuildFingerprint(info),
      valid       |-> \A issue \in ValidatePreflight(info, strict) : issue.level # "error"]

(* main: with --strict an invalid host ends the script that asked. *)
PreflightFails(host) == host.strict /\ ~host.valid
=============================================================================
