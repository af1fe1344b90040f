---------------------------- MODULE WorkflowGraph ----------------------------
(***************************************************************************)
(* The graph of the playbook, as init_shuffle_webhook builds it: the nodes *)
(* and branches of workflow_actions.py, less those of secondary analyzers  *)
(* that Cortex does not offer, plus one node for every further analyzer it *)
(* does offer.  The setup script is run again whenever the lab is brought  *)
(* up, and what Cortex offers, or fails to answer, differs.                *)
(*                                                                         *)
(* Shuffle runs a node when all its parents have a result, and replaces a  *)
(* $node in the parameters of another by the result of that node, if there *)
(* is one by then.  So what a node reads must be upstream of it.           *)
(*                                                                         *)
(* Nodes are named by their label, analyzers as in Cortex less the version.*)
(***************************************************************************)
EXTENDS Integers, Sequences, FiniteSets

CONSTANTS
    Catalog,     \* the analyzers Cortex may have enabled
    DataTypes    \* the data types each of them accepts

ASSUME DataTypesAssumption ==
    DataTypes \in [Catalog -> SUBSET {"hash", "file", "ip", "domain", "url", "mail"}]

ASSUME CatalogAssumption == IsFiniteSet(Catalog)

\* The analyzers that have a node of their own whenever Cortex has them.
SecondaryNode == [Virusshare        |-> "cortex_hash_virusshare",
                  DShield_lookup    |-> "cortex_ip_dshield",
                  Mnemonic_pDNS     |-> "cortex_ip_mnemonic_pdns",
                  GoogleDNS_resolve |-> "cortex_ip_googledns",
                  IP_API            |-> "cortex_ip_ipapi"]
Secondary == DOMAIN SecondaryNode

\* Those the setup tries to enable, and those it never wires dynamically: of
\* the names to skip, the ones that are written with their version.
Wanted  == {"DShield_lookup", "Mnemonic_pDNS", "GoogleDNS_resolve", "IP_API",
            "ValidateObservable", "Hashdd_Status", "DomainMailSPFDMARC"}
Skipped == {"Virusshare", "MaxMind_GeoIP", "Crt_sh_Transparency_Logs",
            "Robtex_IP_Query", "Robtex_Reverse_PDNS_Query", "Robtex_Forward_PDNS_Query"}

VARIABLES
    enabled,     \* the analyzers enabled in Cortex
    wiring       \* the analyzers behind the nodes of the deployed workflow

graphVars == <<enabled, wiring>>

Names == Catalog \cup {"Hashdd_Status", "IP_API", "none"}

GraphTypeOK ==
    /\ enabled \subseteq Catalog
    /\ wiring \in [hash : Names, ip : Names,
                   secondary : SUBSET Secondary, dynamic : SUBSET Catalog]

-----------------------------------------------------------------------------
\* build_actions: the nodes that are always there.
FixedNodes ==
    {"webhook", "normalize_inputs", "build_case_json", "thehive_create_case",
     "calc_task_title", "thehive_obs_hash", "thehive_obs_ip", "thehive_add_task",
     "cortex_hash", "verify_cortex_hash", "cortex_ip", "verify_cortex_ip",
     "misp_create", "misp_search", "verify_misp", "build_es_json", "es_index",
     "verify_es", "verify_task", "verify_obs_hash", "verify_obs_ip", "calc_mttr",
     "build_hive_summary", "enrich_case", "build_metrics_json",
     "es_index_metrics", "tenzir_analyze", "tenzir_serve", "network_watch",
     "redis_cache", "loki_search", "verify_tenzir", "verify_network",
     "verify_redis", "verify_loki", "calc_decision", "containment",
     "update_inprogress", "notify_critical", "mark_false_positive", "notify_info"}

\* build_branches, as paths from one meeting point to the next.
\* Mutant of CachePath: the check of the cache is a leaf.
CachePathLoose == <<"thehive_create_case", "redis_cache", "verify_redis">>
CachePath == <<"thehive_create_case", "redis_cache", "verify_redis", "calc_decision">>

EnrichmentPaths ==
    {<<"webhook", "normalize_inputs", "build_case_json", "thehive_create_case">>,
     <<"thehive_create_case", "thehive_obs_hash", "verify_obs_hash", "calc_decision">>,
     <<"thehive_create_case", "thehive_obs_ip", "verify_obs_ip", "calc_decision">>,
     <<"thehive_create_case", "calc_task_title", "thehive_add_task", "verify_task",
       "calc_decision">>,
     <<"thehive_create_case", "cortex_hash", "verify_cortex_hash", "calc_decision">>,
     <<"thehive_create_case", "cortex_ip", "verify_cortex_ip", "calc_decision">>,
     <<"thehive_create_case", "misp_create", "misp_search", "verify_misp", "calc_decision">>,
     <<"thehive_create_case", "build_es_json", "es_index", "verify_es", "calc_decision">>,
     <<"thehive_create_case", "tenzir_analyze", "tenzir_serve", "verify_tenzir",
       "calc_decision">>,
     <<"thehive_create_case", "network_watch", "verify_network", "calc_decision">>,
     <<"thehive_create_case", "loki_search", "verify_loki", "calc_decision">>,
     CachePath}
    \cup {<<"thehive_create_case", SecondaryNode[a], "calc_decision">> : a \in Secondary}

\* Mutant of ResponsePaths: the metrics are built beside the response.
ResponsePathsEager ==
    {<<"calc_decision", "containment", "update_inprogress", "notify_critical", "calc_mttr">>,
     <<"calc_decision", "mark_false_positive", "notify_info", "calc_mttr">>,
     <<"calc_mttr", "build_hive_summary", "enrich_case", "es_index_metrics">>,
     <<"calc_decision", "build_metrics_json", "es_index_metrics">>}

ResponsePaths ==
    {<<"calc_decision", "containment", "update_inprogress", "notify_critical", "calc_mttr">>,
     <<"calc_decision", "mark_false_positive", "notify_info", "calc_mttr">>,
     <<"calc_mttr", "build_hive_summary", "enrich_case", "build_metrics_json",
       "es_index_metrics">>}

BranchesOf(paths) == UNION {{<<p[i], p[i + 1]>> : i \in 1 .. Len(p) - 1} : p \in paths}

DynamicNode(a) == "cortex_dyn_" \o a

\* The prefix keeps those nodes apart from the ones that have a label of their own.
ASSUME LabelsAssumption ==
    \A a \in Catalog :
        DynamicNode(a) \notin FixedNodes \cup {SecondaryNode[b] : b \in Secondary}

Unavailable == {SecondaryNode[a] : a \in Secondary \ wiring.secondary}

Nodes == (FixedNodes \cup {SecondaryNode[a] : a \in wiring.secondary})
         \cup {DynamicNode(a) : a \in wiring.dynamic}

DynamicBranches ==
    BranchesOf({<<"thehive_create_case", DynamicNode(a), "calc_decision">> :
                   a \in wiring.dynamic})

\* Mutant of Branches: those of unavailable analyzers are kept.
BranchesUnfiltered == BranchesOf(EnrichmentPaths \cup ResponsePaths) \cup DynamicBranches

Branches ==
    {b \in BranchesOf(EnrichmentPaths \cup ResponsePaths) :
        b[1] \notin Unavailable /\ b[2] \notin Unavailable}
    \cup DynamicBranches

\* The nodes whose results the parameters of node n mention.
Reads(n) ==
    CASE n = "calc_decision" ->
            {"normalize_inputs", "cortex_hash", "cortex_ip", "cortex_ip_dshield",
             "cortex_ip_mnemonic_pdns", "cortex_ip_googledns", "cortex_ip_ipapi",
             "misp_search", "tenzir_serve", "network_watch", "loki_search"}
      [] n = "build_hive_summary" ->
            {"calc_decision", "calc_mttr", "cortex_hash", "cortex_ip",
             "cortex_ip_dshield", "cortex_ip_mnemonic_pdns", "cortex_ip_googledns",
             "cortex_ip_ipapi", "misp_search", "tenzir_serve", "network_watch",
             "redis_cache", "loki_search"}
      [] n = "build_metrics_json" ->
            {"normalize_inputs", "calc_mttr", "thehive_create_case", "cortex_hash",
             "cortex_ip", "misp_search", "calc_decision", "containment"}
      [] n \in {"containment", "update_inprogress", "mark_false_positive",
                "notify_critical", "notify_info"} ->
            {"calc_decision", "thehive_create_case"}
      [] n \in {"build_case_json", "build_es_json", "calc_task_title", "calc_mttr"} ->
            {"normalize_inputs"}
      [] n \in {"thehive_obs_hash", "thehive_obs_ip"} -> {"thehive_create_case"}
      [] n = "thehive_create_case" -> {"build_case_json"}
      [] n = "thehive_add_task"    -> {"thehive_create_case", "calc_task_title"}
      [] n = "enrich_case"         -> {"thehive_create_case", "build_hive_summary"}
      [] n = "es_index"            -> {"build_es_json"}
      [] n = "es_index_metrics"    -> {"build_metrics_json"}
      [] n = "verify_obs_hash"     -> {"thehive_obs_hash"}
      [] n = "verify_obs_ip"       -> {"thehive_obs_ip"}
      [] n = "verify_task"         -> {"thehive_add_task"}
      [] n = "verify_cortex_hash"  -> {"cortex_hash"}
      [] n = "verify_cortex_ip"    -> {"cortex_ip"}
      [] n = "verify_misp"         -> {"misp_search"}
      [] n = "verify_es"           -> {"es_index"}
      [] n = "verify_tenzir"       -> {"tenzir_serve"}
      [] n = "verify_network"      -> {"network_watch"}
      [] n = "verify_redis"        -> {"redis_cache"}
      [] n = "verify_loki"         -> {"loki_search"}
      [] OTHER                     -> {}

\* The scripts that take a literal "$..." for an answer that is missing.
ToleratesMissing == {"calc_decision", "build_hive_summary"}

-----------------------------------------------------------------------------
\* discover_and_select_analyzers.
Accepting(S, t) == {a \in S : t \in DataTypes[a]}

\* _find_preferred, or else the first one that Cortex lists, or the default.
Selected(candidates, first, preferred, second, default) ==
    CASE preferred \in candidates -> preferred
      [] preferred \notin candidates /\ second \in candidates -> second
      [] candidates \cap {preferred, second} = {} /\ candidates # {} -> first
      [] OTHER -> default

\* The first of the candidates in Cortex's list, which may be any of them.
Firsts(candidates) == IF candidates = {} THEN {"none"} ELSE candidates

\* The loop over the enabled analyzers after those in wired.  Names carry
\* their version, so the prefixes that wired_names starts with match none.
Dynamic(S, wired) ==
    {a \in S \ (wired \cup Skipped) :
        DataTypes[a] \cap {"domain", "url", "hash", "file", "ip"} # {}}

GraphInit ==
    /\ enabled \in SUBSET Catalog
    /\ wiring = [hash |-> "none", ip |-> "none", secondary |-> {}, dynamic |-> {}]

\* The wanted analyzers that are missing and that Cortex lets be enabled.
Enabling == SUBSET ((Wanted \cap Catalog) \ enabled)

\* The setup is run and Cortex answers.  Without the client class, a failure
\* to list the analyzers once more leaves the list from before.
Setup ==
    \E got \in Enabling : \E listed \in {enabled, enabled \cup got} :
        LET hashes == Accepting(listed, "hash")
            ips    == Accepting(listed, "ip")
        IN  \E h \in Firsts(hashes), i \in Firsts(ips) :
               /\ enabled' = enabled \cup got
               /\ wiring' =
                    [hash |-> Selected(hashes, h, "Hashdd_Status", "Virusshare",
                                       "Hashdd_Status"),
                     ip   |-> Selected(ips, i, "IP_API", "DShield_lookup", "IP_API"),
                     secondary |-> (hashes \cap {"Virusshare"})
                                   \cup (ips \cap (Secondary \ {"Virusshare"})),
                     dynamic |-> Dynamic(listed, {h, i})]

\* An exception on the way, caught for the whole selection: everything keeps
\* its default, and of the list only the part that was read is wired.
SetupInterrupted ==
    \E got \in Enabling, listed \in {{}, enabled} :
        /\ listed = {} => got = {}
        /\ listed # {} => Wanted \ enabled # {}
        /\ enabled' = enabled \cup got
        /\ wiring' = [hash |-> "Hashdd_Status", ip |-> "IP_API",
                      secondary |-> {}, dynamic |-> Dynamic(listed, {})]

GraphNext == Setup \/ SetupInterrupted

GraphSpec == GraphInit /\ [][GraphNext]_graphVars

-----------------------------------------------------------------------------
ParentsIn(branches, n) == {b[1] : b \in {x \in branches : x[2] = n}}

\* The nodes that have to have reported before n runs.
UpstreamIn(branches, n) ==
    LET up[k \in 0 .. Cardinality(Nodes)] ==
            IF k = 0 THEN {n}
            ELSE LET S == up[k - 1]
                 IN  S \cup {b[1] : b \in {x \in branches : x[2] \in S}}
    IN  UNION {ParentsIn(branches, m) : m \in up[Cardinality(Nodes)]}

\* The nodes that the engine gets to run when all results do come.
RunningIn(branches) ==
    LET parents == [n \in Nodes |-> ParentsIn(branches, n)]
        ran[k \in 0 .. Cardinality(Nodes)] ==
            IF k = 0 THEN {"webhook"}
            ELSE LET S == ran[k - 1]
                 IN  S \cup {n \in Nodes : parents[n] # {} /\ parents[n] \subseteq S}
    IN  ran[Cardinality(Nodes)]

\* Whatever Cortex offered at setup, no node of the playbook waits for ever:
\* no cycle, no join on a node that was left out, no node without a branch.
EveryNodeRuns == RunningIn(Branches) = Nodes

\* A node is not substituted away: the results it reads exist when it runs,
\* except those of secondary analyzers in the scripts that allow for that.
ReadsAreUpstream ==
    LET branches == Branches
        nodes    == Nodes
    IN  \A n \in nodes :
           /\ Reads(n) \cap nodes \subseteq UpstreamIn(branches, n)
           /\ Reads(n) \subseteq nodes \/ n \in ToleratesMissing

\* The execution is over with the metrics: every other node is upstream of
\* es_index_metrics, and every node that talks to a service before the
\* response is upstream of the decision.
EveryNodeIsAwaited ==
    UpstreamIn(Branches, "es_index_metrics") = Nodes \ {"es_index_metrics"}
==============================================================================
