---------------------------- MODULE NodeCommand -----------------------------
(* What the command line of the node asks for (node/src/cli.rs, command.rs) *)
(* and what is decided from it before any service is started: which spec is *)
(* loaded, which runtime executes, whether the node has the authority role. *)
(* A chain spec is reduced to the prefix of its file name (or of the name   *)
(* it is built in under) and the prefix of the id it carries.               *)
EXTENDS Sequences

Runtimes == {"polkafoundry", "polkasmith", "halongbay"}

CONSTANT Features     \* the runtimes compiled in, by cargo features

\* command.rs uses the halongbay runtime's types unconditionally.
ASSUME FeaturesAssumption ==
  Features \subseteq Runtimes /\ "halongbay" \in Features

SpecIds == {"polkafoundry", "pkf", "polkasmith", "pks", "halongbay", "hlb"}

\* keyring stands for --dev, --alice, ...: the flags other than --validator
\* from which sc_cli derives the authority role.
Command == [subcommand : BOOLEAN, file : Runtimes, id : SpecIds,
            force_chain : Runtimes \cup {"absent"}, start_dev : BOOLEAN,
            validator : BOOLEAN, collator : BOOLEAN, keyring : BOOLEAN,
            light : BOOLEAN, author_id : BOOLEAN,
            sealing : {"instant", "manual"}]

\* clap refuses --collator together with --validator.
Parses(c) == ~ (c.collator /\ c.validator)

\* A spec whose id starts with "polkafoundry" is not recognised: the code
\* compares with "polkafoundry]".
IsPolkafoundry(id) == id = "pkf"
IsPolkasmith(id)   == id \in {"polkasmith", "pks"}

\* The runtime of native_runtime_version and of the chain operations.
SpecRuntime(id) ==
  CASE IsPolkafoundry(id) -> "polkafoundry"
    [] IsPolkasmith(id)   -> "polkasmith"
    [] OTHER              -> "halongbay"

SpecLoads(c) == c.file \in Features

\* new_chain_ops: the runtime of the client that a subcommand works with.
NewChainOps(c) ==
  IF SpecLoads(c) /\ SpecRuntime(c.id) \in Features
    THEN SpecRuntime(c.id) ELSE "none"

\* sc_cli's role, from the flags of the flattened sc_cli::RunCmd.
IsAuthority(c) == (c.validator \/ c.keyring) /\ ~ c.light

\* The local variable `collator` of run().
AskedToCollate(c) == c.validator \/ c.collator

\* cli.run.force_chain: the option has a default and does not look at the spec.
ForceChain(c) == IF c.force_chain = "absent" THEN "halongbay" ELSE c.force_chain

\* The native executor of the client: start_dev has one, start_node is called
\* with one in each arm of the match in run().
Executor(c) == IF c.start_dev THEN "halongbay" ELSE ForceChain(c)

\* The Option<ForceChain> given to rpc::create_full: Some(runtime) by
\* start_node_impl, None by start_dev.
RpcRuntime(c) == IF c.start_dev THEN "None" ELSE ForceChain(c)

\* create_full's match: the TransactionConverter handed to EthApi.
Converter(runtime) ==
  CASE runtime = "polkafoundry" -> "polkafoundry"
    [] runtime = "polkasmith"   -> "polkasmith"
    [] OTHER                    -> "halongbay"

MutRefused(c) ==
  \/ ~ SpecLoads(c)
  \/ SpecRuntime(c.id) \notin Features
  \/ AskedToCollate(c) /\ ~ c.author_id
  \/ ~ c.start_dev /\ c.light

\* What the command line alone decides before a component exists: the spec,
\* the native version (a panic), the missing author, the runtime to run with
\* (a panic), a light client.
Refused(c) ==
  \/ ~ SpecLoads(c)
  \/ SpecRuntime(c.id) \notin Features
  \/ AskedToCollate(c) /\ ~ c.author_id
  \/ ~ c.start_dev /\ (ForceChain(c) \notin Features \/ c.light)

-----------------------------------------------------------------------------
(* The order in which service.rs brings the components up.                 *)

MutStartNodeSteps ==
  <<"new_partial", "relay_node", "build_network", "spawn_tasks",
    "consensus", "filter_task", "pending_task", "start_network">>

StartNodeSteps ==
  <<"new_partial", "relay_node", "build_network", "spawn_tasks",
    "filter_task", "pending_task", "consensus", "start_network">>

StartDevSteps ==
  <<"new_partial", "build_network", "authorship", "spawn_tasks",
    "filter_task", "pending_task", "start_network">>

Steps(c) == IF c.start_dev THEN StartDevSteps ELSE StartNodeSteps

\* The steps whose Result is propagated with `?`.
Fallible == {"new_partial", "relay_node", "build_network", "spawn_tasks",
             "consensus"}

\* What runs once a step is done.  Outside dev mode the role decides whether
\* the node collates; in dev mode the flags do.
Spawned(c, step) ==
  CASE step = "spawn_tasks"   -> {"rpc"}
    [] step = "filter_task"   -> {"filter"}
    [] step = "pending_task"  -> {"pending"}
    [] step = "authorship"    -> IF AskedToCollate(c) THEN {"authorship"} ELSE {}
    [] step = "consensus"     -> IF IsAuthority(c) THEN {"collator"} ELSE {}
    [] step = "start_network" -> {"network"}
    [] OTHER                  -> {}

MutPendingNotEssential == {"filter", "authorship"}

\* Tasks spawned with spawn_essential_handle: the node ends with any of them.
Essential == {"filter", "pending", "authorship"}
=============================================================================
