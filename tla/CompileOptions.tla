-------------------------- MODULE CompileOptions --------------------------
(***************************************************************************)
(* The compile options of a deployment, on their way through the system:   *)
(*                                                                         *)
(*   request --Normalize--> options --PolicyOf--> policy --ToRow--> row    *)
(*                             |                                     |     *)
(*                             |   agent                             |     *)
(*                             +--> CompileFlags       VersionOf     v     *)
(*                             ^                                     |     *)
(*                             +---- OptionsOf <------- version <----+     *)
(*                                                                         *)
(* The controller fills in the defaults of a request (normalize_options),  *)
(* compares it with the policy it holds (policy_matches_request), checks   *)
(* it against what the node advertises (ensure_node_capabilities), stores  *)
(* it as columns of a table and, on a rollback, builds a request again     *)
(* from a stored version.  The agent turns it into the arguments of the    *)
(* compiler.  Every one of these is a list of fourteen fields written out  *)
(* by hand.                                                                *)
(*                                                                         *)
(* The module has no state.  Deploy calls a policy a member of a set and   *)
(* compares policies with =; what CompileOptions_proofs shows here is why  *)
(* it may: two requests are the same to the code exactly when their        *)
(* normalised options and their rules are, and a stored version gives back *)
(* the request it was stored for.                                          *)
(***************************************************************************)
EXTENDS Integers

CONSTANTS
    Rules,       \* the rule documents, and with each its hash
    Target,      \* the names of compile targets
    Hash(_)      \* pacinet_core::policy_hash, a function of the document

\* 2^32, the number of values of a u32.
TwoTo32 == 4294967296

U32 == 0..(TwoTo32 - 1)

Standalone == "standalone"

\* The proto message, as a request carries it.  "" is the target that was
\* not given.
Options == [counters : BOOLEAN, rate_limit : BOOLEAN, conntrack : BOOLEAN,
            axi : BOOLEAN, ports : U32, target : Target \cup {"", Standalone},
            dynamic : BOOLEAN, dynamic_entries : U32, width : U32,
            ptp : BOOLEAN, rss : BOOLEAN, rss_queues : U32,
            int_enabled : BOOLEAN, int_switch_id : U32]

\* unwrap_or_default of a request that carries no options.
NoOptions == [counters |-> FALSE, rate_limit |-> FALSE, conntrack |-> FALSE,
              axi |-> FALSE, ports |-> 0, target |-> "",
              dynamic |-> FALSE, dynamic_entries |-> 0, width |-> 0,
              ptp |-> FALSE, rss |-> FALSE, rss_queues |-> 0,
              int_enabled |-> FALSE, int_switch_id |-> 0]

\* What REST and an FSM definition fill in for fields that are left out.
RestDefaults == [counters |-> FALSE, rate_limit |-> FALSE,
                 conntrack |-> FALSE, axi |-> FALSE, ports |-> 1,
                 target |-> Standalone, dynamic |-> FALSE,
                 dynamic_entries |-> 16, width |-> 8, ptp |-> FALSE,
                 rss |-> FALSE, rss_queues |-> 4, int_enabled |-> FALSE,
                 int_switch_id |-> 0]

---------------------------------------------------------------------------
(* The controller.                                                         *)

OrElse(value, default) == IF value = 0 THEN default ELSE value

Normalize(o) ==
    [counters |-> o.counters, rate_limit |-> o.rate_limit,
     conntrack |-> o.conntrack, axi |-> o.axi,
     ports |-> OrElse(o.ports, 1),
     target |-> IF o.target = "" THEN Standalone ELSE o.target,
     dynamic |-> o.dynamic,
     dynamic_entries |-> OrElse(o.dynamic_entries, 16),
     width |-> OrElse(o.width, 8),
     ptp |-> o.ptp, rss |-> o.rss,
     rss_queues |-> OrElse(o.rss_queues, 4),
     int_enabled |-> o.int_enabled, int_switch_id |-> o.int_switch_id]

\* The policy deploy_to_node builds from normalised options.
PolicyOf(rules, o) ==
    [rules_yaml |-> rules, policy_hash |-> Hash(rules),
     counters_enabled |-> o.counters, rate_limit_enabled |-> o.rate_limit,
     conntrack_enabled |-> o.conntrack, axi_enabled |-> o.axi,
     ports |-> o.ports, target |-> o.target, dynamic |-> o.dynamic,
     dynamic_entries |-> o.dynamic_entries, width |-> o.width, ptp |-> o.ptp,
     rss |-> o.rss, rss_queues |-> o.rss_queues, int |-> o.int_enabled,
     int_switch_id |-> o.int_switch_id]

PolicyMatches(current, rules, o) ==
    /\ current.rules_yaml = rules
    /\ current.policy_hash = Hash(rules)
    /\ current.counters_enabled = o.counters
    /\ current.rate_limit_enabled = o.rate_limit
    /\ current.conntrack_enabled = o.conntrack
    /\ current.axi_enabled = o.axi
    /\ current.ports = o.ports
    /\ current.target = o.target
    /\ current.dynamic = o.dynamic
    /\ current.dynamic_entries = o.dynamic_entries
    /\ current.width = o.width
    /\ current.ptp = o.ptp
    /\ current.rss = o.rss
    /\ current.rss_queues = o.rss_queues
    /\ current.int = o.int_enabled
    /\ current.int_switch_id = o.int_switch_id

\* The capability each option asks of the node; the names are the ones of
\* the node's capability map without their prefix "compile.".
Needed(o) ==
    {c \in {"axi", "ports", "dynamic", "width", "target", "ptp", "rss",
            "rss_queues", "int", "int_switch_id"} :
        \/ c = "axi" /\ o.axi
        \/ c = "ports" /\ o.ports > 1
        \/ c = "dynamic" /\ o.dynamic
        \/ c = "width" /\ o.width > 8
        \/ c = "target" /\ o.target \notin {"", Standalone}
        \/ c = "ptp" /\ o.ptp
        \/ c = "rss" /\ o.rss
        \/ c = "rss_queues" /\ o.rss_queues # 4
        \/ c = "int" /\ o.int_enabled
        \/ c = "int_switch_id" /\ o.int_switch_id # 0}

EnsureCapabilities(advertised, o) == Needed(o) \subseteq advertised

---------------------------------------------------------------------------
(* The database: bool as i32, u32 as i64, and back.                        *)

AsInt(b) == IF b THEN 1 ELSE 0

AsBool(i) == i # 0

AsU32(i) == i % TwoTo32

\* An INSERT of the policy into policies or policy_versions.
ToRow(p) ==
    [rules_yaml |-> p.rules_yaml, policy_hash |-> p.policy_hash,
     counters_enabled |-> AsInt(p.counters_enabled),
     rate_limit_enabled |-> AsInt(p.rate_limit_enabled),
     conntrack_enabled |-> AsInt(p.conntrack_enabled),
     axi_enabled |-> AsInt(p.axi_enabled),
     ports |-> p.ports, target |-> p.target, dynamic |-> AsInt(p.dynamic),
     dynamic_entries |-> p.dynamic_entries, width |-> p.width,
     ptp |-> AsInt(p.ptp), rss |-> AsInt(p.rss),
     rss_queues |-> p.rss_queues, int_enabled |-> AsInt(p.int),
     int_switch_id |-> p.int_switch_id]

\* row_to_policy: the current policy as get_policy returns it.
RowToPolicy(r) ==
    [rules_yaml |-> r.rules_yaml, policy_hash |-> r.policy_hash,
     counters_enabled |-> AsBool(r.counters_enabled),
     rate_limit_enabled |-> AsBool(r.rate_limit_enabled),
     conntrack_enabled |-> AsBool(r.conntrack_enabled),
     axi_enabled |-> AsBool(r.axi_enabled),
     ports |-> AsU32(r.ports), target |-> r.target,
     dynamic |-> AsBool(r.dynamic),
     dynamic_entries |-> AsU32(r.dynamic_entries), width |-> AsU32(r.width),
     ptp |-> AsBool(r.ptp), rss |-> AsBool(r.rss),
     rss_queues |-> AsU32(r.rss_queues), int |-> AsBool(r.int_enabled),
     int_switch_id |-> AsU32(r.int_switch_id)]

\* row_to_policy_version reads the columns that follow the version number.
\* The number is chosen by Deploy and does not take part here.
VersionOf(r) == RowToPolicy(r)

\* The request a rollback makes of a stored version.
OptionsOf(v) ==
    [counters |-> v.counters_enabled, rate_limit |-> v.rate_limit_enabled,
     conntrack |-> v.conntrack_enabled, axi |-> v.axi_enabled,
     ports |-> v.ports, target |-> v.target, dynamic |-> v.dynamic,
     dynamic_entries |-> v.dynamic_entries, width |-> v.width, ptp |-> v.ptp,
     rss |-> v.rss, rss_queues |-> v.rss_queues, int_enabled |-> v.int,
     int_switch_id |-> v.int_switch_id]

---------------------------------------------------------------------------
(* The options of an FSM instance: start_fsm keeps them in the context of  *)
(* the instance, and a deploy action makes a request of them.              *)

ToFsmOptions(o) ==
    [counters |-> o.counters, rate_limit |-> o.rate_limit,
     conntrack |-> o.conntrack, axi |-> o.axi, ports |-> o.ports,
     target |-> o.target, dynamic |-> o.dynamic,
     dynamic_entries |-> o.dynamic_entries, width |-> o.width, ptp |-> o.ptp,
     rss |-> o.rss, rss_queues |-> o.rss_queues, int |-> o.int_enabled,
     int_switch_id |-> o.int_switch_id]

OfFsmOptions(f) ==
    [counters |-> f.counters, rate_limit |-> f.rate_limit,
     conntrack |-> f.conntrack, axi |-> f.axi, ports |-> f.ports,
     target |-> f.target, dynamic |-> f.dynamic,
     dynamic_entries |-> f.dynamic_entries, width |-> f.width, ptp |-> f.ptp,
     rss |-> f.rss, rss_queues |-> f.rss_queues, int_enabled |-> f.int,
     int_switch_id |-> f.int_switch_id]

---------------------------------------------------------------------------
(* The agent: the arguments pacgate gets.  An argument without a value has *)
(* the value TRUE.                                                         *)

AtLeast1(n) == IF n = 0 THEN 1 ELSE n

Flag(name, given, value) == IF given THEN {<<name, value>>} ELSE {}

\* The arguments that lint and compile have in common.
SharedFlags(o) ==
         Flag("--dynamic", o.dynamic, AtLeast1(o.dynamic_entries))
    \cup Flag("--width", o.width > 0, o.width)
    \cup Flag("--target", o.target # "", o.target)
    \cup Flag("--ptp", o.ptp, TRUE)
    \cup Flag("--rss", o.rss \/ o.rss_queues # 4, AtLeast1(o.rss_queues))
    \cup Flag("--int", o.int_enabled \/ o.int_switch_id # 0, o.int_switch_id)

LintFlags(o) == SharedFlags(o)

CompileFlags(o) ==
         SharedFlags(o)
    \cup Flag("--counters", o.counters, TRUE)
    \cup Flag("--rate-limit", o.rate_limit, TRUE)
    \cup Flag("--conntrack", o.conntrack, TRUE)
    \cup Flag("--axi", o.axi, TRUE)
    \cup Flag("--ports", AtLeast1(o.ports) > 1, AtLeast1(o.ports))

=============================================================================
