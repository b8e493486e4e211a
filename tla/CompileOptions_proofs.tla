----------------------- MODULE CompileOptions_proofs ------------------------
(***************************************************************************)
(* What the conversions of CompileOptions preserve, for every request.     *)
(***************************************************************************)
EXTENDS CompileOptions, TLAPS

---------------------------------------------------------------------------
(* Arithmetic of the columns.                                              *)

\* What the proofs need of u32: its values are natural numbers, the
\* defaults of normalize_options are among them, and none reaches 2^32.
LEMMA U32Facts ==
    /\ \A n \in U32 : n \in Nat
    /\ 0 \in U32 /\ 1 \in U32 /\ 4 \in U32 /\ 8 \in U32 /\ 16 \in U32
    /\ \A n \in U32 : n % TwoTo32 = n
  <1>1. TwoTo32 \in Nat /\ TwoTo32 > 16
    BY SMT DEF TwoTo32
  <1>2. \A n \in U32 : n \in Nat /\ n < TwoTo32
    BY <1>1 DEF U32
  <1>3. 0 \in U32 /\ 1 \in U32 /\ 4 \in U32 /\ 8 \in U32 /\ 16 \in U32
    BY <1>1 DEF U32
  <1>4. \A n \in U32 : n % TwoTo32 = n
    BY <1>1, <1>2
  <1> QED
    BY <1>2, <1>3, <1>4

\* A u32 written as i64 and read back with "as u32" is the same number, and
\* a bool written as i32 and read back with "!= 0" is the same bool.
LEMMA ColumnsKeepValues ==
    /\ \A n \in U32 : AsU32(n) = n
    /\ \A b \in BOOLEAN : AsBool(AsInt(b)) = b
  <1>1. \A n \in U32 : AsU32(n) = n
    BY U32Facts DEF AsU32
  <1>2. \A b \in BOOLEAN : AsBool(AsInt(b)) = b
    BY DEF AsBool, AsInt
  <1> QED
    BY <1>1, <1>2

\* normalize_options returns options again, leaves no field at the value
\* that means "not given", and changes nothing when it is applied twice:
\* the options a rollback reads from a version are not changed by the
\* deployment that repeats them.
LEMMA NormalizeIsIdempotent ==
    ASSUME NEW o \in Options
    PROVE  /\ Normalize(o) \in Options
           /\ Normalize(Normalize(o)) = Normalize(o)
           /\ Normalize(o).ports # 0
           /\ Normalize(o).dynamic_entries # 0
           /\ Normalize(o).width # 0
           /\ Normalize(o).rss_queues # 0
           /\ Normalize(o).target # ""
  <1> DEFINE n == Normalize(o)
  <1>1. n \in Options
    BY U32Facts DEF Normalize, Options, OrElse, Standalone
  <1>2. /\ n.ports # 0
        /\ n.dynamic_entries # 0
        /\ n.width # 0
        /\ n.rss_queues # 0
        /\ n.target # ""
    <2>1. \A u \in U32, d \in {1, 4, 8, 16} : OrElse(u, d) # 0
      BY U32Facts DEF OrElse
    <2>2. /\ o.ports \in U32
          /\ o.dynamic_entries \in U32
          /\ o.width \in U32
          /\ o.rss_queues \in U32
      BY DEF Options
    <2> QED
      BY <2>1, <2>2 DEF Normalize, Standalone
  <1>3. Normalize(n) = n
    BY <1>1, <1>2, U32Facts DEF Normalize, Options, OrElse
  <1> QED
    BY <1>1, <1>2, <1>3

\* A request without options over gRPC and one with every field left out
\* over REST are one and the same deployment: both normalise to the
\* defaults, so each is a no-op after the other.  Filling the defaults in is
\* the controller's job: on the message as it came, whose rss_queues is 0,
\* the agent would turn receive-side scaling on.
THEOREM DefaultsAgree ==
    /\ Normalize(NoOptions) = RestDefaults
    /\ Normalize(RestDefaults) = RestDefaults
    /\ CompileFlags(RestDefaults)
           = {<<"--width", 8>>, <<"--target", Standalone>>}
    /\ <<"--rss", 1>> \in CompileFlags(NoOptions)
  <1>1. Normalize(NoOptions) = RestDefaults
    BY DEF Normalize, OrElse, NoOptions, RestDefaults
  <1>2. Normalize(RestDefaults) = RestDefaults
    BY DEF Normalize, OrElse, RestDefaults, Standalone
  <1>3. CompileFlags(RestDefaults)
           = {<<"--width", 8>>, <<"--target", Standalone>>}
    BY DEF CompileFlags, SharedFlags, Flag, AtLeast1, RestDefaults, Standalone
  <1>4. <<"--rss", 1>> \in CompileFlags(NoOptions)
    BY DEF CompileFlags, SharedFlags, Flag, AtLeast1, NoOptions
  <1> QED
    BY <1>1, <1>2, <1>3, <1>4

---------------------------------------------------------------------------
(* The no-op test of deploy_to_node.                                       *)

\* policy_matches_request compares sixteen fields one by one.  Together they
\* are equality: a request matches the policy of an earlier one exactly when
\* the rules are the same and so are the options after the defaults are
\* filled in.  Deploy's policies, compared with =, stand for that.
THEOREM MatchIsEquality ==
    ASSUME NEW rules \in Rules, NEW o \in Options,
           NEW rules2 \in Rules, NEW o2 \in Options
    PROVE  PolicyMatches(PolicyOf(rules, Normalize(o)), rules2, Normalize(o2))
               <=> (rules = rules2 /\ Normalize(o) = Normalize(o2))
  <1> DEFINE n == Normalize(o)
             n2 == Normalize(o2)
  <1>1. n \in Options /\ n2 \in Options
    BY NormalizeIsIdempotent
  <1> HIDE DEF n, n2
  <1>2. ASSUME PolicyMatches(PolicyOf(rules, n), rules2, n2)
        PROVE  rules = rules2 /\ n = n2
    <2>1. rules = rules2
      BY <1>2 DEF PolicyMatches, PolicyOf
    <2>2. /\ n.counters = n2.counters
          /\ n.rate_limit = n2.rate_limit
          /\ n.conntrack = n2.conntrack
          /\ n.axi = n2.axi
          /\ n.ports = n2.ports
          /\ n.target = n2.target
          /\ n.dynamic = n2.dynamic
          /\ n.dynamic_entries = n2.dynamic_entries
          /\ n.width = n2.width
          /\ n.ptp = n2.ptp
          /\ n.rss = n2.rss
          /\ n.rss_queues = n2.rss_queues
          /\ n.int_enabled = n2.int_enabled
          /\ n.int_switch_id = n2.int_switch_id
      BY <1>2 DEF PolicyMatches, PolicyOf
    <2> QED
      BY <2>1, <2>2 DEF n, n2, Normalize
  <1>3. ASSUME rules = rules2, n = n2
        PROVE  PolicyMatches(PolicyOf(rules, n), rules2, n2)
    BY <1>3 DEF PolicyMatches, PolicyOf
  <1> QED
    BY <1>2, <1>3 DEF n, n2

---------------------------------------------------------------------------
(* Stored and rolled back.                                                 *)

\* store_policy followed by row_to_policy or row_to_policy_version gives
\* back the policy that was stored.
LEMMA RowKeepsPolicy ==
    ASSUME NEW rules \in Rules, NEW o \in Options
    PROVE  RowToPolicy(ToRow(PolicyOf(rules, o))) = PolicyOf(rules, o)
  <1> DEFINE p == PolicyOf(rules, o)
             q == RowToPolicy(ToRow(p))
  <1>0. /\ o.ports \in U32 /\ o.dynamic_entries \in U32 /\ o.width \in U32
        /\ o.rss_queues \in U32 /\ o.int_switch_id \in U32
        /\ o.counters \in BOOLEAN /\ o.rate_limit \in BOOLEAN /\ o.conntrack \in BOOLEAN
        /\ o.axi \in BOOLEAN /\ o.dynamic \in BOOLEAN /\ o.ptp \in BOOLEAN
        /\ o.rss \in BOOLEAN /\ o.int_enabled \in BOOLEAN
    BY DEF Options
  <1>1. /\ q.counters_enabled = o.counters
        /\ q.rate_limit_enabled = o.rate_limit
        /\ q.conntrack_enabled = o.conntrack
        /\ q.axi_enabled = o.axi
        /\ q.dynamic = o.dynamic
        /\ q.ptp = o.ptp
        /\ q.rss = o.rss
        /\ q.int = o.int_enabled
    <2>1. /\ q.counters_enabled = AsBool(AsInt(o.counters))
          /\ q.rate_limit_enabled = AsBool(AsInt(o.rate_limit))
          /\ q.conntrack_enabled = AsBool(AsInt(o.conntrack))
          /\ q.axi_enabled = AsBool(AsInt(o.axi))
          /\ q.dynamic = AsBool(AsInt(o.dynamic))
          /\ q.ptp = AsBool(AsInt(o.ptp))
          /\ q.rss = AsBool(AsInt(o.rss))
          /\ q.int = AsBool(AsInt(o.int_enabled))
      BY ZenonT(60) DEF RowToPolicy, ToRow, PolicyOf
    <2> HIDE DEF q
    <2> QED
      BY <1>0, <2>1, ColumnsKeepValues, Zenon
  <1>2. /\ q.ports = o.ports
        /\ q.dynamic_entries = o.dynamic_entries
        /\ q.width = o.width
        /\ q.rss_queues = o.rss_queues
        /\ q.int_switch_id = o.int_switch_id
    <2>1. /\ q.ports = AsU32(o.ports)
          /\ q.dynamic_entries = AsU32(o.dynamic_entries)
          /\ q.width = AsU32(o.width)
          /\ q.rss_queues = AsU32(o.rss_queues)
          /\ q.int_switch_id = AsU32(o.int_switch_id)
      BY ZenonT(60) DEF RowToPolicy, ToRow, PolicyOf
    <2> HIDE DEF q
    <2> QED
      BY <1>0, <2>1, ColumnsKeepValues, Zenon
  <1> QED
    BY <1>1, <1>2, ZenonT(60) DEF RowToPolicy, ToRow, PolicyOf

\* An instance started over an API deploys what the request would have
\* deployed directly.
LEMMA FsmDeploysTheRequest ==
    ASSUME NEW o \in Options
    PROVE  Normalize(OfFsmOptions(ToFsmOptions(o))) = Normalize(o)
  BY DEF Normalize, OfFsmOptions, ToFsmOptions

\* A rollback deploys what was deployed: the request built from a stored
\* version carries the normalised options of the request the version was
\* stored for, a second normalisation does not change them, and while the
\* version is the node's current policy the rollback is recognised as a
\* no-op.
THEOREM RollbackRepeatsDeploy ==
    ASSUME NEW rules \in Rules, NEW o \in Options
    PROVE  LET row == ToRow(PolicyOf(rules, Normalize(o)))
               again == Normalize(OptionsOf(VersionOf(row)))
           IN  /\ again = Normalize(o)
               /\ VersionOf(row).rules_yaml = rules
               /\ PolicyMatches(RowToPolicy(row), rules, again)
  <1> DEFINE n == Normalize(o)
             p == PolicyOf(rules, n)
  <1>1. n \in Options /\ Normalize(n) = n
    BY NormalizeIsIdempotent
  <1> HIDE DEF n
  <1>2. RowToPolicy(ToRow(p)) = p
    BY <1>1, RowKeepsPolicy
  <1>3. OptionsOf(p) = n
    BY <1>1 DEF OptionsOf, PolicyOf, Options
  <1>4. p.rules_yaml = rules
    BY DEF PolicyOf
  <1>5. PolicyMatches(p, rules, n)
    BY DEF PolicyMatches, PolicyOf
  <1> HIDE DEF p
  <1> QED
    BY <1>1, <1>2, <1>3, <1>4, <1>5 DEF VersionOf, n, p

---------------------------------------------------------------------------
(* Controller and agent.                                                   *)

\* The capabilities of which one at least has to be advertised for an
\* argument of the compiler to be given.
Vouching(name) ==
    {c \in {"axi", "ports", "dynamic", "ptp", "rss", "rss_queues", "int",
            "int_switch_id", "width", "target"} :
        \/ name = "--axi" /\ c = "axi"
        \/ name = "--ports" /\ c = "ports"
        \/ name = "--dynamic" /\ c = "dynamic"
        \/ name = "--ptp" /\ c = "ptp"
        \/ name = "--rss" /\ c \in {"rss", "rss_queues"}
        \/ name = "--int" /\ c \in {"int", "int_switch_id"}
        \/ name = "--width" /\ c = "width"
        \/ name = "--target" /\ c = "target"}

\* Arguments that ensure_node_capabilities never asks about.
Unasked == {"--counters", "--rate-limit", "--conntrack"}

\* Of the arguments the agent gives to pacgate for a request that
\* ensure_node_capabilities has accepted, each one is advertised by the node
\* but for these: --counters, --rate-limit and --conntrack, which are not
\* checked, a --width of at most 8 and the standalone --target, which every
\* node is taken to have.  For --rss and --int the feature or its parameter
\* is advertised: the agent adds --rss for a queue count other than 4 and
\* --int for a switch id other than 0, and for such a request the controller
\* asks for compile.rss_queues or compile.int_switch_id only.
THEOREM FlagsAreAdvertised ==
    ASSUME NEW o \in Options, NEW advertised,
           EnsureCapabilities(advertised, Normalize(o)),
           NEW name, NEW value, <<name, value>> \in CompileFlags(Normalize(o))
    PROVE  \/ name \in Unasked
           \/ name = "--width" /\ value \in 1..8
           \/ name = "--target" /\ value = Standalone
           \/ Vouching(name) \cap advertised # {}
  <1> DEFINE n == Normalize(o)
  <1>1. n \in Options /\ n.ports # 0 /\ n.width # 0
    BY NormalizeIsIdempotent
  <1>2. Needed(n) \subseteq advertised
    BY DEF EnsureCapabilities
  <1>f. <<name, value>> \in CompileFlags(n)
    OBVIOUS
  <1> HIDE DEF n
  <1>3. /\ n.axi => "axi" \in advertised
        /\ n.ports > 1 => "ports" \in advertised
        /\ n.dynamic => "dynamic" \in advertised
        /\ n.width > 8 => "width" \in advertised
        /\ n.target \notin {"", Standalone} => "target" \in advertised
        /\ n.ptp => "ptp" \in advertised
        /\ n.rss => "rss" \in advertised
        /\ n.rss_queues # 4 => "rss_queues" \in advertised
        /\ n.int_enabled => "int" \in advertised
        /\ n.int_switch_id # 0 => "int_switch_id" \in advertised
    BY <1>2 DEF Needed
  <1>4. \/ name \in Unasked
        \/ name = "--axi" /\ n.axi
        \/ name = "--ports" /\ AtLeast1(n.ports) > 1
        \/ name = "--dynamic" /\ n.dynamic
        \/ name = "--ptp" /\ n.ptp
        \/ name = "--rss" /\ (n.rss \/ n.rss_queues # 4)
        \/ name = "--int" /\ (n.int_enabled \/ n.int_switch_id # 0)
        \/ name = "--width" /\ value = n.width
        \/ name = "--target" /\ value = n.target /\ n.target # ""
    <2>1. CASE <<name, value>> \in SharedFlags(n)
      BY <2>1 DEF SharedFlags, Flag
    <2>2. CASE <<name, value>> \notin SharedFlags(n)
      BY <1>f, <2>2 DEF CompileFlags, Flag, Unasked
    <2> QED
      BY <2>1, <2>2
  <1>5. /\ n.width \in Nat /\ n.width # 0 /\ (n.width > 8 \/ n.width \in 1..8)
        /\ AtLeast1(n.ports) = n.ports
    <2>1. n.width \in U32
      BY <1>1 DEF Options
    <2>2. n.width \in Nat
      BY <2>1, U32Facts
    <2> QED
      BY <1>1, <2>2 DEF AtLeast1
  <1>6. \/ name \in Unasked
        \/ name = "--width" /\ value \in 1..8
        \/ name = "--target" /\ value = Standalone
        \/ \E c \in advertised : c \in Vouching(name)
    BY <1>3, <1>4, <1>5 DEF Vouching
  <1> QED
    BY <1>6

\* A request that leaves out most options.
Plain(checks, width, queues, switch) ==
    [counters |-> checks, rate_limit |-> checks, conntrack |-> checks,
     axi |-> FALSE, ports |-> 1, target |-> Standalone, dynamic |-> FALSE,
     dynamic_entries |-> 16, width |-> width, ptp |-> FALSE, rss |-> FALSE,
     rss_queues |-> queues, int_enabled |-> FALSE, int_switch_id |-> switch]

LEMMA PlainIsNormal ==
    ASSUME NEW checks, NEW width \in 1..8, NEW queues \in {4, 8}, NEW switch
    PROVE  Normalize(Plain(checks, width, queues, switch))
             = Plain(checks, width, queues, switch)
  <1>1. OrElse(width, 8) = width /\ OrElse(queues, 4) = queues
    BY DEF OrElse
  <1>2. OrElse(1, 1) = 1 /\ OrElse(16, 16) = 16 /\ Standalone # ""
    BY DEF OrElse, Standalone
  <1> QED
    BY <1>1, <1>2 DEF Normalize, Plain

\* The gaps are real: a node that advertises nothing is given --counters,
\* --rate-limit, --conntrack and any --width up to 8, and one that
\* advertises compile.rss_queues and compile.int_switch_id alone is given
\* --rss and --int (ensure_node_capabilities against apply_compile_flags).
THEOREM GapsAreReal ==
    /\ \A width \in 1..8 :
         LET o == Plain(TRUE, width, 4, 0)
         IN  /\ EnsureCapabilities({}, Normalize(o))
             /\ CompileFlags(Normalize(o))
                  = {<<"--counters", TRUE>>, <<"--rate-limit", TRUE>>,
                     <<"--conntrack", TRUE>>, <<"--width", width>>,
                     <<"--target", Standalone>>}
    /\ LET o == Plain(FALSE, 8, 8, 1)
       IN  /\ EnsureCapabilities({"rss_queues", "int_switch_id"}, Normalize(o))
           /\ {<<"--rss", 8>>, <<"--int", 1>>} \subseteq CompileFlags(Normalize(o))
  <1>1. ASSUME NEW width \in 1..8
        PROVE  LET o == Plain(TRUE, width, 4, 0)
               IN  /\ Needed(o) = {}
                   /\ CompileFlags(o)
                        = {<<"--counters", TRUE>>, <<"--rate-limit", TRUE>>,
                           <<"--conntrack", TRUE>>, <<"--width", width>>,
                           <<"--target", Standalone>>}
    <2> DEFINE o == Plain(TRUE, width, 4, 0)
    <2>1. /\ o.counters /\ o.rate_limit /\ o.conntrack /\ ~o.axi /\ ~o.dynamic
          /\ ~o.ptp /\ ~o.rss /\ ~o.int_enabled /\ o.ports = 1
          /\ o.target = Standalone /\ o.width = width /\ o.rss_queues = 4
          /\ o.int_switch_id = 0
      BY DEF Plain
    <2> HIDE DEF o
    <2>2. Needed(o) = {}
      BY <2>1 DEF Needed
    <2>3. SharedFlags(o) = {<<"--width", width>>, <<"--target", Standalone>>}
      BY <2>1 DEF SharedFlags, Flag, Standalone
    <2>4. AtLeast1(o.ports) = 1
      BY <2>1 DEF AtLeast1
    <2>5. /\ Flag("--counters", o.counters, TRUE) = {<<"--counters", TRUE>>}
          /\ Flag("--rate-limit", o.rate_limit, TRUE) = {<<"--rate-limit", TRUE>>}
          /\ Flag("--conntrack", o.conntrack, TRUE) = {<<"--conntrack", TRUE>>}
          /\ Flag("--axi", o.axi, TRUE) = {}
          /\ Flag("--ports", AtLeast1(o.ports) > 1, AtLeast1(o.ports)) = {}
      BY <2>1, <2>4 DEF Flag
    <2>6. CompileFlags(o)
            = {<<"--counters", TRUE>>, <<"--rate-limit", TRUE>>,
               <<"--conntrack", TRUE>>, <<"--width", width>>,
               <<"--target", Standalone>>}
      BY <2>3, <2>5, Zenon DEF CompileFlags
    <2> QED
      BY <2>2, <2>6 DEF o
  <1>2. LET o == Plain(FALSE, 8, 8, 1)
        IN  /\ Needed(o) \subseteq {"rss_queues", "int_switch_id"}
            /\ {<<"--rss", 8>>, <<"--int", 1>>} \subseteq CompileFlags(o)
    <2> DEFINE o == Plain(FALSE, 8, 8, 1)
    <2>1. /\ ~o.axi /\ ~o.dynamic /\ ~o.ptp /\ ~o.rss /\ ~o.int_enabled /\ o.ports = 1
          /\ o.target = Standalone /\ o.width = 8 /\ o.rss_queues = 8 /\ o.int_switch_id = 1
      BY DEF Plain
    <2> HIDE DEF o
    <2>2. Needed(o) \subseteq {"rss_queues", "int_switch_id"}
      BY <2>1 DEF Needed
    <2>3. /\ Flag("--rss", o.rss \/ o.rss_queues # 4, AtLeast1(o.rss_queues)) = {<<"--rss", 8>>}
          /\ Flag("--int", o.int_enabled \/ o.int_switch_id # 0, o.int_switch_id) = {<<"--int", 1>>}
      BY <2>1 DEF Flag, AtLeast1
    <2>4. {<<"--rss", 8>>, <<"--int", 1>>} \subseteq CompileFlags(o)
      BY <2>3 DEF CompileFlags, SharedFlags
    <2> QED
      BY <2>2, <2>4 DEF o
  <1>3. \A o, A : Normalize(o) = o /\ Needed(o) \subseteq A => EnsureCapabilities(A, Normalize(o))
    BY DEF EnsureCapabilities
  <1>4. /\ \A width \in 1..8 : Normalize(Plain(TRUE, width, 4, 0)) = Plain(TRUE, width, 4, 0)
        /\ Normalize(Plain(FALSE, 8, 8, 1)) = Plain(FALSE, 8, 8, 1)
    <2>1. 8 \in 1..8 /\ 4 \in {4, 8} /\ 8 \in {4, 8}
      OBVIOUS
    <2>2. \A checks, switch : \A width \in 1..8 : \A queues \in {4, 8} :
            Normalize(Plain(checks, width, queues, switch))
              = Plain(checks, width, queues, switch)
      BY PlainIsNormal
    <2> QED
      BY <2>1, <2>2, Zenon
  <1> QED
    BY <1>1, <1>2, <1>3, <1>4

=============================================================================
