-------------------------------- MODULE Node --------------------------------
(***************************************************************************)
(* A node from its command line to its end (node/src/service.rs): the      *)
(* steps of start_node_impl and start_dev, the Ethereum filter pool and    *)
(* the pending transactions that RPC handlers fill, and the two tasks that *)
(* prune them on the client's import notifications.  RPC handlers, block   *)
(* imports, the tasks and the start-up itself interleave: the RPC server   *)
(* is up before the tasks subscribe.                                       *)
(*                                                                         *)
(* External, as the node uses them: the client (import with or without     *)
(* notification, best block), the RPC methods, the task manager.           *)
(***************************************************************************)
EXTENDS NodeCommand, Integers, FiniteSets, Functions

CONSTANTS
  Commands,           \* command lines considered
  Txs,                \* hashes of Ethereum transactions
  FilterIds,          \* keys of the filter pool
  PendingRetain,      \* TRANSACTION_RETAIN_THRESHOLD (5 in the code)
  FilterRetain,       \* FILTER_RETAIN_THRESHOLD (100)
  MaxStoredFilters,   \* limit given to EthFilterApi (500)
  MaxBlock,           \* bound: block numbers
  MaxInbox            \* bound: notifications waiting for a task

ASSUME NodeAssumption ==
  /\ Commands \subseteq Command
  /\ PendingRetain \in Nat \ {0} /\ FilterRetain \in Nat \ {0}
  /\ MaxStoredFilters \in Nat /\ MaxBlock \in Nat /\ MaxInbox \in Nat

VARIABLES
  cmd,         \* the command line
  status,      \* "cli", "starting", "running" or "stopped"
  pc,          \* the next step of Steps(cmd)
  running,     \* components that are up
  dead,        \* tasks that have ended
  executor,    \* runtime of the client's executor
  converter,   \* runtime of the Ethereum transaction converter
  top, best,   \* highest imported and best block number
  included,    \* transactions in imported blocks
  inbox,       \* import notifications each pool task has not handled yet
  inflight,    \* submissions awaited by an RPC handler: block number read
  submitted,   \* transactions accepted by the transaction pool
  pending,     \* pending_transactions: at_block
  filters,     \* filter_pool: at_block
  missed,      \* ghost: a pool task was not subscribed at some import
  orphans      \* ghost: transactions no notification removes any more

service == <<cmd, status, pc, running, dead, executor, converter>>
chain   == <<top, best, included, inbox>>
rpc     == <<inflight, submitted>>
ghosts  == <<missed, orphans>>
vars    == <<service, chain, rpc, pending, filters, ghosts>>

PoolTasks == {"filter", "pending"}
Blocks    == [number : 1 .. MaxBlock, txs : SUBSET Txs]
NoEntries == [k \in {} |-> 0]
Up        == status \in {"starting", "running"}

\* Transactions in notifications still waiting for the pending task.
Queued == UNION {inbox["pending"][i].txs : i \in DOMAIN inbox["pending"]}

Init ==
  /\ cmd \in {c \in Commands : Parses(c)}
  /\ status = "cli" /\ pc = 1 /\ running = {} /\ dead = {}
  /\ executor = "none" /\ converter = "none"
  /\ top = 0 /\ best = 0 /\ included = {}
  /\ inbox = [t \in PoolTasks |-> <<>>]
  /\ inflight = NoEntries /\ submitted = {}
  /\ pending = NoEntries /\ filters = NoEntries
  /\ missed = FALSE /\ orphans = {}

-----------------------------------------------------------------------------
(* Start and end.                                                          *)

\* The arm of run() without a subcommand, up to start_node or start_dev.
\* Outside dev mode the genesis block of the spec and the arguments of the
\* relay chain may also be at fault.
Launch ==
  /\ status = "cli" /\ ~ cmd.subcommand
  /\ \/ /\ ~ Refused(cmd)
        /\ status' = "starting" /\ executor' = Executor(cmd)
     \/ /\ Refused(cmd) \/ ~ cmd.start_dev
        /\ status' = "stopped" /\ UNCHANGED executor
  /\ UNCHANGED <<cmd, pc, running, dead, converter, chain, rpc, pending,
                 filters, ghosts>>

\* A subcommand: those on blocks or state open the database with the runtime
\* that the id of the spec asks for, the others need no client.
ChainOps ==
  /\ status = "cli" /\ cmd.subcommand
  /\ status' = "stopped"
  /\ executor' \in {executor, NewChainOps(cmd)}
  /\ UNCHANGED <<cmd, pc, running, dead, converter, chain, rpc, pending,
                 filters, ghosts>>

StepDone(step) ==
  /\ pc' = pc + 1
  /\ running' = running \cup Spawned(cmd, step)
  /\ converter' = IF step = "spawn_tasks" THEN Converter(RpcRuntime(cmd))
                  ELSE converter
  /\ status' = IF pc = Len(Steps(cmd)) THEN "running" ELSE "starting"

StartStep ==
  /\ status = "starting"
  /\ StepDone(Steps(cmd)[pc])
  /\ UNCHANGED <<cmd, dead, executor, chain, rpc, pending, filters, ghosts>>

\* A task panics or its stream ends.
TaskEnds(task) ==
  /\ Up /\ task \in running \cap (PoolTasks \cup {"authorship"})
  /\ running' = running \ {task}
  /\ dead' = dead \cup {task}
  /\ UNCHANGED <<cmd, status, pc, executor, converter, chain, rpc, pending,
                 filters, ghosts>>

\* The task manager is dropped, and what the process kept in memory with it.
Stop ==
  /\ status' = "stopped" /\ running' = {} /\ dead' = {}
  /\ inbox' = [t \in PoolTasks |-> <<>>] /\ inflight' = NoEntries
  /\ pending' = NoEntries /\ filters' = NoEntries
  /\ UNCHANGED <<cmd, pc, executor, converter, top, best, included, submitted,
                 ghosts>>

\* An error leaves start_node_impl or start_dev.
StepFailed == status = "starting" /\ Steps(cmd)[pc] \in Fallible /\ Stop

\* run_node_until_exit ends with a signal or once an essential task has ended.
Signalled       == Up /\ Stop
EssentialFailed == status = "running" /\ dead \cap Essential # {} /\ Stop

-----------------------------------------------------------------------------
(* The client.                                                             *)

\* Blocks authored here: by the collator, or sealed in dev mode, where instant
\* sealing needs a transaction and manual sealing an RPC command.
OwnBlock(txs) ==
  \/ "collator" \in running
  \/ /\ "authorship" \in running
     /\ IF cmd.sealing = "instant" THEN txs # {} ELSE "rpc" \in running

\* The filter task reads only the number of a block.
Notify(task, b) ==
  IF task \notin running THEN inbox[task]
  ELSE Append(inbox[task], IF task = "filter" THEN [b EXCEPT !.txs = {}] ELSE b)

\* Import of a block on any fork.  Blocks of the initial sync are not
\* notified.  Outside dev mode and the initial sync the best block is left to
\* the relay chain.
Import(b, origin) ==
  /\ Up /\ b.number <= top + 1
  /\ IF origin = "own" THEN OwnBlock(b.txs) ELSE "network" \in running
  /\ \A t \in PoolTasks : Len(inbox[t]) < MaxInbox
  /\ b.txs \subseteq submitted
  /\ top' = IF b.number > top THEN b.number ELSE top
  /\ best' = IF cmd.start_dev \/ origin = "sync" THEN top' ELSE best
  /\ included' = included \cup b.txs
  /\ IF origin = "sync" THEN UNCHANGED <<inbox, missed>>
     ELSE /\ inbox' = [t \in PoolTasks |-> Notify(t, b)]
          /\ missed' = (missed \/ ~ PoolTasks \subseteq running \cup dead)
  /\ orphans' = IF origin # "sync" /\ "pending" \in running THEN orphans
                ELSE orphans \cup b.txs
  /\ UNCHANGED <<service, rpc, pending, filters>>

\* The relay chain moves the best block, back as well.
NewBest(n) ==
  /\ Up /\ ~ cmd.start_dev /\ n \in 0 .. top
  /\ best' = n
  /\ UNCHANGED <<service, top, included, inbox, rpc, pending, filters, ghosts>>

-----------------------------------------------------------------------------
(* RPC handlers.                                                           *)

\* eth_sendRawTransaction reads the best number and submits to the pool...
Submit(t) ==
  /\ Up /\ "rpc" \in running /\ t \notin submitted
  /\ submitted' = submitted \cup {t}
  /\ inflight' = [x \in DOMAIN inflight \cup {t} |->
                    IF x = t THEN best ELSE inflight[x]]
  /\ UNCHANGED <<service, chain, pending, filters, ghosts>>

\* ... and when the submission resolves inserts into pending_transactions.
Record(t) ==
  /\ Up /\ t \in DOMAIN inflight
  /\ pending' = [x \in DOMAIN pending \cup {t} |->
                   IF x = t THEN inflight[t] ELSE pending[x]]
  /\ inflight' = Restrict(inflight, DOMAIN inflight \ {t})
  /\ orphans' = IF t \in included \ Queued THEN orphans \cup {t} ELSE orphans
  /\ UNCHANGED <<service, chain, submitted, filters, missed>>

\* eth_newFilter.
CreateFilter(f) ==
  /\ Up /\ "rpc" \in running /\ f \notin DOMAIN filters
  /\ Cardinality(DOMAIN filters) < MaxStoredFilters
  /\ filters' = [x \in DOMAIN filters \cup {f} |->
                   IF x = f THEN best ELSE filters[x]]
  /\ UNCHANGED <<service, chain, rpc, pending, ghosts>>

\* eth_uninstallFilter.
UninstallFilter(f) ==
  /\ Up /\ "rpc" \in running /\ f \in DOMAIN filters
  /\ filters' = Restrict(filters, DOMAIN filters \ {f})
  /\ UNCHANGED <<service, chain, rpc, pending, ghosts>>

-----------------------------------------------------------------------------
(* The maintenance tasks.                                                  *)

MutKeepPending(b) ==
  {t \in DOMAIN pending : pending[t] + PendingRetain > b.number}

MutKeepPendingShort(b) ==
  {t \in DOMAIN pending \ b.txs : pending[t] + PendingRetain > b.number + 1}

\* The two retains: not processed in the block, and not beyond the lifespan.
KeepPending(b) ==
  {t \in DOMAIN pending \ b.txs : pending[t] + PendingRetain > b.number}

KeepFilters(b) == {f \in DOMAIN filters : filters[f] + FilterRetain > b.number}

Taken(task) == [inbox EXCEPT ![task] = Tail(@)]

HandlePending ==
  /\ Up /\ "pending" \in running /\ inbox["pending"] # <<>>
  /\ pending' = Restrict(pending, KeepPending(Head(inbox["pending"])))
  /\ inbox' = Taken("pending")
  /\ UNCHANGED <<service, top, best, included, rpc, filters, ghosts>>

HandleFilters ==
  /\ Up /\ "filter" \in running /\ inbox["filter"] # <<>>
  /\ filters' = Restrict(filters, KeepFilters(Head(inbox["filter"])))
  /\ inbox' = Taken("filter")
  /\ UNCHANGED <<service, top, best, included, rpc, pending, ghosts>>

-----------------------------------------------------------------------------

Start == Launch \/ ChainOps \/ StartStep

End == (\E t \in PoolTasks \cup {"authorship"} : TaskEnds(t))
       \/ StepFailed \/ Signalled \/ EssentialFailed

Client ==
  \/ \E b \in Blocks, origin \in {"own", "sync", "broadcast"} : Import(b, origin)
  \/ \E n \in 0 .. MaxBlock : NewBest(n)

Rpc == \/ \E t \in Txs : Submit(t) \/ Record(t)
       \/ \E f \in FilterIds : CreateFilter(f) \/ UninstallFilter(f)

Next == Start \/ End \/ Client \/ Rpc \/ HandlePending \/ HandleFilters

Spec == Init /\ [][Next]_vars

\* A block on top of the chain, or at the bound beside it.
NewBlocks == {b \in Blocks : b.number = top + 1 \/ b.number = MaxBlock}

\* Start-up runs to its end, tasks that have something to do are polled, a
\* lost essential task is noticed, and the parachain keeps growing.  The last
\* is strong fairness because the bound MaxInbox, which the code has not,
\* disables imports for a while.
FairSpec ==
  /\ Spec
  /\ WF_vars(StartStep \/ StepFailed) /\ WF_vars(EssentialFailed)
  /\ WF_vars(HandlePending) /\ WF_vars(HandleFilters)
  /\ SF_vars(\E b \in NewBlocks : Import(b, "broadcast"))

-----------------------------------------------------------------------------
(* Properties.                                                             *)

Entries(K) == UNION {[D -> 0 .. MaxBlock] : D \in SUBSET K}

\* Types of the state; the runtimes in use are compiled in.
TypeOK ==
  /\ cmd \in Command
  /\ status \in {"cli", "starting", "running", "stopped"}
  /\ pc \in 1 .. Len(Steps(cmd)) + 1
  /\ running \subseteq {"rpc", "collator", "network"} \cup PoolTasks \cup {"authorship"}
  /\ dead \subseteq PoolTasks \cup {"authorship"}
  /\ {executor, converter} \subseteq Features \cup {"none"}
  /\ top \in 0 .. MaxBlock /\ best \in 0 .. top
  /\ included \subseteq submitted /\ submitted \subseteq Txs
  /\ inbox \in [PoolTasks -> Seq(Blocks)]
  /\ inflight \in Entries(Txs) /\ pending \in Entries(Txs)
  /\ filters \in Entries(FilterIds)
  /\ missed \in BOOLEAN /\ orphans \subseteq Txs

\* start_node_impl lets no block in before both pool tasks have subscribed,
\* although the RPC server is up by then.
NothingMissed == missed => cmd.start_dev

\* A transaction that is in a block leaves the pending transactions with that
\* block's notification: one that is still listed waits for a notification
\* already queued, or was recorded after its block was handled, or its block
\* was never notified to the task.
IncludedForgotten == DOMAIN pending \cap included \subseteq Queued \cup orphans

\* Nothing leaves a pool by itself before its time: a pending transaction is in
\* a block or past its lifespan, a filter is uninstalled or past its own.
KeptForItsLifespan ==
  [][status' = "stopped" \/
     /\ \A t \in DOMAIN pending \ DOMAIN pending' :
          t \in included \/ pending[t] + PendingRetain <= top
     /\ HandleFilters => \A f \in DOMAIN filters \ DOMAIN filters' :
          filters[f] + FilterRetain <= top]_vars

\* "as essential, otherwise we leak": outside dev mode whatever enters a pool
\* leaves it, or the node stops, even if the entry comes late, its block was
\* never notified or the task ends.  (Entries whose lifespan ends beyond the
\* bound on block numbers are not considered.)
NothingLeaks ==
  /\ \A t \in Txs :
       (~ cmd.start_dev /\ t \in DOMAIN pending /\ pending[t] + PendingRetain <= MaxBlock)
         ~> (t \notin DOMAIN pending \/ status = "stopped")
  /\ \A f \in FilterIds :
       (~ cmd.start_dev /\ f \in DOMAIN filters /\ filters[f] + FilterRetain <= MaxBlock)
         ~> (f \notin DOMAIN filters \/ status = "stopped")

\* "Force the runtime running" (--force-chain): unless it is forced, the runtime
\* that a node runs and serves by RPC is that of the spec, whose absence
\* load_spec reports as an error.
UnforcedRunsItsSpec ==
  ~ cmd.start_dev /\ cmd.force_chain = "absent" /\ "rpc" \in running
    => executor = SpecRuntime(cmd.id) /\ converter = SpecRuntime(cmd.id)
=============================================================================
