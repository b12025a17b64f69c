----------------------------- MODULE NodeProofs -----------------------------
(***************************************************************************)
(* What holds of the node for every command line, every set of             *)
(* transactions, and any number of blocks and waiting notifications.       *)
(***************************************************************************)
EXTENDS Node, TLAPS

\* What the start-up order gives: outside dev mode the two tasks are there
\* before anything that can bring a block.
SpawnOrder ==
  /\ pc \in Nat \ {0}
  /\ status = "cli" => pc = 1
  /\ status = "starting" => pc <= Len(Steps(cmd))
  /\ running # {} => Up
  /\ ~ cmd.start_dev =>
       /\ Up /\ pc > 5 => "filter" \in running \cup dead
       /\ Up /\ pc > 6 => "pending" \in running \cup dead
       /\ "collator" \in running => pc > 7
       /\ "network" \in running => pc > 8
       /\ "authorship" \notin running

\* A node is started only with a runtime that is compiled in.
RuntimeCompiled == Up => cmd.start_dev \/ ForceChain(cmd) \in Features

InboxOK == inbox \in [PoolTasks -> Seq(Blocks)]

IInv == /\ cmd \in Command /\ status \in {"cli", "starting", "running", "stopped"}
        /\ InboxOK /\ SpawnOrder /\ RuntimeCompiled
        /\ missed \in BOOLEAN /\ NothingMissed /\ IncludedForgotten

\* Nothing is running yet.
LEMMA InitInv == Init => IInv
<1> SUFFICES ASSUME Init PROVE IInv
  OBVIOUS
<1>1. cmd \in Command
  BY NodeAssumption DEF Init
<1>2. InboxOK
  BY DEF Init, InboxOK
<1>3. SpawnOrder /\ RuntimeCompiled
  BY DEF Init, SpawnOrder, RuntimeCompiled, Up
<1>4. missed \in BOOLEAN /\ NothingMissed
  BY Zenon DEF Init, NothingMissed
<1>5. IncludedForgotten
  BY DEF Init, IncludedForgotten
<1> QED BY <1>1, <1>2, <1>3, <1>4, <1>5 DEF Init, IInv

\* Steps that leave the service as it is keep the invariants about it.
LEMMA SameService ==
  ASSUME SpawnOrder, RuntimeCompiled, UNCHANGED service
  PROVE  SpawnOrder' /\ RuntimeCompiled'
  BY DEF SpawnOrder, RuntimeCompiled, service, Up

\* A stopped node has nothing running and nothing in memory.
LEMMA StopInv ==
  ASSUME IInv, Stop
  PROVE  IInv'
<1>1. InboxOK'
  BY DEF Stop, InboxOK
<1>2. SpawnOrder' /\ RuntimeCompiled'
  BY DEF Stop, IInv, SpawnOrder, RuntimeCompiled, Up
<1>3. IncludedForgotten'
  BY DEF Stop, IncludedForgotten, NoEntries
<1> QED BY <1>1, <1>2, <1>3 DEF Stop, IInv, NothingMissed, ghosts

\* The last notification of a longer queue is the one appended.
LEMMA QueuedAppend ==
  ASSUME NEW s \in Seq(Blocks), NEW b \in Blocks
  PROVE  /\ Append(s, b) \in Seq(Blocks)
         /\ (UNION {s[i].txs : i \in DOMAIN s}) \cup b.txs
              \subseteq UNION {Append(s, b)[i].txs : i \in DOMAIN Append(s, b)}
<1>1. /\ Append(s, b) \in Seq(Blocks) /\ Len(Append(s, b)) = Len(s) + 1
      /\ Append(s, b)[Len(s) + 1] = b
      /\ \A i \in 1 .. Len(s) : Append(s, b)[i] = s[i]
  OBVIOUS
<1>2. DOMAIN s = 1 .. Len(s) /\ DOMAIN Append(s, b) = 1 .. Len(s) + 1 /\ Len(s) \in Nat
  BY <1>1
<1>3. ASSUME NEW t \in UNION {s[i].txs : i \in DOMAIN s}
      PROVE  \E i \in DOMAIN Append(s, b) : t \in Append(s, b)[i].txs
  BY <1>1, <1>2
<1>4. ASSUME NEW t \in b.txs
      PROVE  \E i \in DOMAIN Append(s, b) : t \in Append(s, b)[i].txs
  BY <1>1, <1>2
<1> QED BY <1>1, <1>3, <1>4

\* What is not in the head of a queue stays in its tail.
LEMMA QueuedTail ==
  ASSUME NEW s \in Seq(Blocks), s # <<>>
  PROVE  /\ Tail(s) \in Seq(Blocks)
         /\ UNION {s[i].txs : i \in DOMAIN s}
              \subseteq Head(s).txs \cup UNION {Tail(s)[i].txs : i \in DOMAIN Tail(s)}
<1>1. /\ Tail(s) \in Seq(Blocks) /\ Len(Tail(s)) = Len(s) - 1 /\ Head(s) = s[1]
      /\ \A i \in 1 .. Len(s) - 1 : Tail(s)[i] = s[i + 1]
      /\ Len(s) \in Nat /\ DOMAIN s = 1 .. Len(s)
      /\ DOMAIN Tail(s) = 1 .. Len(s) - 1
  OBVIOUS
<1>2. ASSUME NEW i \in DOMAIN s, NEW t \in s[i].txs, i # 1
      PROVE  \E j \in DOMAIN Tail(s) : t \in Tail(s)[j].txs
  <2>1. i - 1 \in 1 .. Len(s) - 1 /\ Tail(s)[i - 1] = s[i]
    BY <1>1, <1>2
  <2> QED BY <1>1, <1>2, <2>1
<1> QED BY <1>1, <1>2

-----------------------------------------------------------------------------
\* A step of the start-up: the next component comes up in its place.
LEMMA StartStepInv ==
  ASSUME IInv, StartStep
  PROVE  IInv'
<1>1. /\ UNCHANGED <<cmd, dead, executor, inbox, included, pending, missed, orphans>>
      /\ status = "starting"
      /\ pc' = pc + 1 /\ running' = running \cup Spawned(cmd, Steps(cmd)[pc])
      /\ converter' = IF Steps(cmd)[pc] = "spawn_tasks" THEN Converter(RpcRuntime(cmd)) ELSE converter
      /\ status' = IF pc = Len(Steps(cmd)) THEN "running" ELSE "starting"
  BY DEF StartStep, StepDone, chain, ghosts
<1>2. SpawnOrder' /\ RuntimeCompiled'
  <2>1. pc \in 1 .. Len(Steps(cmd)) /\ cmd \in Command
    <3>1. Len(Steps(cmd)) \in Nat
      BY DEF Steps, StartNodeSteps, StartDevSteps
    <3> QED BY <1>1, <3>1 DEF IInv, SpawnOrder
  <2>2. CASE cmd.start_dev
    <3>1. Steps(cmd) = StartDevSteps
      BY <2>2 DEF Steps
    <3>2. pc \in 1 .. 7 /\ Len(Steps(cmd)) = 7
      BY <2>1, <3>1 DEF StartDevSteps
    <3> QED BY <1>1, <2>2, <3>2 DEF IInv, SpawnOrder, RuntimeCompiled, Up
  <2>3. CASE ~ cmd.start_dev
    <3>1. Steps(cmd) = StartNodeSteps
      BY <2>3 DEF Steps
    <3>2. pc \in 1 .. 8 /\ Len(Steps(cmd)) = 8
      BY <2>1, <3>1 DEF StartNodeSteps
    <3>3. /\ pc = 5 => "filter" \in Spawned(cmd, Steps(cmd)[pc])
          /\ pc = 6 => "pending" \in Spawned(cmd, Steps(cmd)[pc])
          /\ "collator" \in Spawned(cmd, Steps(cmd)[pc]) => pc = 7
          /\ "network" \in Spawned(cmd, Steps(cmd)[pc]) => pc = 8
          /\ "authorship" \notin Spawned(cmd, Steps(cmd)[pc])
      BY <3>1, <3>2 DEF StartNodeSteps, Spawned
    <3> QED BY <1>1, <2>3, <3>2, <3>3 DEF IInv, SpawnOrder, RuntimeCompiled, Up
  <2> QED BY <2>2, <2>3
<1>3. IncludedForgotten'
  BY <1>1 DEF IInv, IncludedForgotten, Queued
<1> QED BY <1>1, <1>2, <1>3 DEF IInv, InboxOK, NothingMissed

\* An import.  It is notified to the pending task or its transactions become
\* orphans; outside dev mode both tasks have subscribed by then.
LEMMA ImportInv ==
  ASSUME IInv, NEW b \in Blocks, NEW origin \in {"own", "sync", "broadcast"},
         Import(b, origin)
  PROVE  IInv'
<1>1. UNCHANGED service /\ UNCHANGED <<cmd, status, pending>>
  BY DEF Import, service
<1>2. SpawnOrder' /\ RuntimeCompiled'
  BY <1>1, SameService DEF IInv
<1>3. inbox["pending"] \in Seq(Blocks) /\ inbox["filter"] \in Seq(Blocks)
  BY DEF IInv, InboxOK, PoolTasks
<1>4. [b EXCEPT !.txs = {}] \in Blocks
  BY DEF Blocks
<1>5. \A t \in PoolTasks : Notify(t, b) \in Seq(Blocks)
  BY <1>3, <1>4 DEF Notify, PoolTasks
<1>6. InboxOK'
  BY <1>5 DEF Import, IInv, InboxOK
<1>7. missed' \in BOOLEAN
  <2>1. CASE origin = "sync"
    BY <2>1 DEF Import, IInv
  <2>2. CASE origin # "sync"
    BY <2>2, Zenon DEF Import, IInv
  <2> QED BY <2>1, <2>2
<1>8. NothingMissed'
  <2>1. CASE cmd.start_dev
    BY <1>1, <2>1 DEF NothingMissed
  <2>2. CASE ~ cmd.start_dev
    <3>1. "collator" \in running \/ "network" \in running
      BY <2>2 DEF Import, OwnBlock, IInv, SpawnOrder
    <3>2. PoolTasks \subseteq running \cup dead
      BY <2>2, <3>1 DEF IInv, SpawnOrder, PoolTasks
    <3>3. missed' = missed
      <4>1. CASE origin = "sync"
        BY <4>1 DEF Import
      <4>2. CASE origin # "sync"
        <5>1. missed' = (missed \/ ~ PoolTasks \subseteq running \cup dead)
          BY <4>2, Zenon DEF Import
        <5> QED BY <5>1, <3>2, Zenon DEF IInv
      <4> QED BY <4>1, <4>2
    <3> QED BY <1>1, <2>2, <3>3, Zenon DEF NothingMissed, IInv
  <2> QED BY <2>1, <2>2
<1>9. IncludedForgotten'
  <2>1. included' = included \cup b.txs
    BY DEF Import
  <2>2. CASE origin # "sync" /\ "pending" \in running
    <3>1. inbox'["pending"] = Append(inbox["pending"], b) /\ orphans' = orphans
      BY <2>2 DEF Import, Notify, PoolTasks
    <3>2. Queued \cup b.txs \subseteq Queued'
      BY <1>3, <3>1, QueuedAppend DEF Queued
    <3> QED BY <1>1, <2>1, <3>1, <3>2 DEF IInv, IncludedForgotten
  <2>3. CASE ~ (origin # "sync" /\ "pending" \in running)
    <3>1. inbox'["pending"] = inbox["pending"] /\ orphans' = orphans \cup b.txs
      BY <2>3 DEF Import, Notify, PoolTasks
    <3> QED BY <1>1, <2>1, <3>1 DEF IInv, IncludedForgotten, Queued
  <2> QED BY <2>2, <2>3
<1> QED BY <1>1, <1>2, <1>6, <1>7, <1>8, <1>9 DEF IInv

\* A maintenance task takes a notification.
LEMMA HandleInv ==
  ASSUME IInv, HandlePending \/ HandleFilters
  PROVE  IInv'
<1>1. UNCHANGED service /\ UNCHANGED <<cmd, status, included, orphans, missed>>
  BY DEF HandlePending, HandleFilters, service, ghosts
<1>2. SpawnOrder' /\ RuntimeCompiled'
  BY <1>1, SameService DEF IInv
<1>3. inbox["pending"] \in Seq(Blocks) /\ inbox["filter"] \in Seq(Blocks)
  BY DEF IInv, InboxOK, PoolTasks
<1>4. CASE HandlePending
  <2>1. /\ inbox["pending"] # <<>> /\ inbox' = Taken("pending")
        /\ pending' = Restrict(pending, KeepPending(Head(inbox["pending"])))
    BY <1>4 DEF HandlePending
  <2>2. /\ Tail(inbox["pending"]) \in Seq(Blocks)
        /\ Queued \subseteq Head(inbox["pending"]).txs \cup
             UNION {Tail(inbox["pending"])[i].txs : i \in DOMAIN Tail(inbox["pending"])}
    BY <1>3, <2>1, QueuedTail DEF Queued
  <2>3. inbox'["pending"] = Tail(inbox["pending"]) /\ InboxOK'
    BY <2>1, <2>2 DEF Taken, IInv, InboxOK, PoolTasks
  <2>4. Queued \subseteq Head(inbox["pending"]).txs \cup Queued'
    BY <2>2, <2>3 DEF Queued
  <2>5. DOMAIN pending' \subseteq DOMAIN pending \ Head(inbox["pending"]).txs
    BY <2>1 DEF Restrict, KeepPending
  <2>6. IncludedForgotten'
    BY <1>1, <2>4, <2>5 DEF IInv, IncludedForgotten
  <2> QED BY <1>1, <1>2, <2>3, <2>6 DEF IInv, NothingMissed
<1>5. CASE HandleFilters
  <2>1. inbox' = Taken("filter") /\ inbox["filter"] # <<>> /\ pending' = pending
    BY <1>5 DEF HandleFilters
  <2>2. Tail(inbox["filter"]) \in Seq(Blocks)
    BY <1>3, <2>1
  <2>3. inbox'["pending"] = inbox["pending"] /\ InboxOK'
    BY <2>1, <2>2 DEF Taken, IInv, InboxOK, PoolTasks
  <2>4. IncludedForgotten'
    BY <1>1, <2>1, <2>3 DEF IInv, IncludedForgotten, Queued
  <2> QED BY <1>1, <1>2, <2>3, <2>4 DEF IInv, NothingMissed
<1> QED BY <1>4, <1>5

\* An RPC handler records a submission: if the block was handled meanwhile,
\* the transaction is an orphan.
LEMMA RecordInv ==
  ASSUME IInv, NEW t \in Txs, Record(t)
  PROVE  IInv'
<1>1. UNCHANGED service /\ UNCHANGED <<cmd, status, included, inbox, missed>>
  BY DEF Record, service, chain
<1>2. SpawnOrder' /\ RuntimeCompiled'
  BY <1>1, SameService DEF IInv
<1>3. DOMAIN pending' = DOMAIN pending \cup {t}
  BY DEF Record
<1>4. orphans' = IF t \in included \ Queued THEN orphans \cup {t} ELSE orphans
  BY DEF Record
<1>5. IncludedForgotten'
  BY <1>1, <1>3, <1>4 DEF IInv, IncludedForgotten, Queued
<1> QED BY <1>1, <1>2, <1>5 DEF IInv, InboxOK, NothingMissed

\* The other steps touch neither the notifications nor the pending pool.
LEMMA QuietInv ==
  ASSUME IInv, SpawnOrder', RuntimeCompiled',
         status' \in {"cli", "starting", "running", "stopped"},
         UNCHANGED <<cmd, inbox, included, pending, missed, orphans>>
  PROVE  IInv'
<1>1. IncludedForgotten'
  BY DEF IInv, IncludedForgotten, Queued
<1> QED BY <1>1 DEF IInv, InboxOK, NothingMissed

LEMMA NextInv == IInv /\ [Next]_vars => IInv'
<1> SUFFICES ASSUME IInv, [Next]_vars PROVE IInv'
  OBVIOUS
<1>1. CASE Launch
  <2>1. SpawnOrder' /\ RuntimeCompiled'
    <3>1. Len(Steps(cmd)) \in Nat \ {0}
      BY DEF Steps, StartNodeSteps, StartDevSteps
    <3> QED BY <1>1, <3>1 DEF Launch, Refused, IInv, SpawnOrder, RuntimeCompiled, Up
  <2> QED BY <1>1, <2>1, QuietInv DEF Launch, chain, ghosts
<1>2. CASE ChainOps
  <2>1. SpawnOrder' /\ RuntimeCompiled'
    BY <1>2 DEF ChainOps, IInv, SpawnOrder, RuntimeCompiled, Up
  <2> QED BY <1>2, <2>1, QuietInv DEF ChainOps, chain, ghosts
<1>3. CASE StartStep
  BY <1>3, StartStepInv
<1>4. ASSUME NEW t \in PoolTasks \cup {"authorship"}, TaskEnds(t)
      PROVE  IInv'
  <2>1. SpawnOrder' /\ RuntimeCompiled'
    BY <1>4 DEF TaskEnds, IInv, SpawnOrder, RuntimeCompiled, Up
  <2> QED BY <1>4, <2>1, QuietInv DEF TaskEnds, chain, ghosts, IInv
<1>5. CASE StepFailed \/ Signalled \/ EssentialFailed
  BY <1>5, StopInv DEF StepFailed, Signalled, EssentialFailed
<1>6. ASSUME NEW b \in Blocks, NEW origin \in {"own", "sync", "broadcast"},
             Import(b, origin)
      PROVE  IInv'
  BY <1>6, ImportInv
<1>7. ASSUME NEW n \in 0 .. MaxBlock, NewBest(n)
      PROVE  IInv'
  <2>1. SpawnOrder' /\ RuntimeCompiled'
    BY <1>7, SameService DEF NewBest, IInv
  <2> QED BY <1>7, <2>1, QuietInv DEF NewBest, service, ghosts, IInv
<1>8. ASSUME NEW t \in Txs, Submit(t)
      PROVE  IInv'
  <2>1. SpawnOrder' /\ RuntimeCompiled'
    BY <1>8, SameService DEF Submit, IInv
  <2> QED BY <1>8, <2>1, QuietInv DEF Submit, service, chain, ghosts, IInv
<1>9. ASSUME NEW t \in Txs, Record(t)
      PROVE  IInv'
  BY <1>9, RecordInv
<1>10. ASSUME NEW f \in FilterIds, CreateFilter(f) \/ UninstallFilter(f)
       PROVE  IInv'
  <2>1. SpawnOrder' /\ RuntimeCompiled'
    BY <1>10, SameService DEF CreateFilter, UninstallFilter, IInv
  <2> QED BY <1>10, <2>1, QuietInv DEF CreateFilter, UninstallFilter, service, chain, ghosts, IInv
<1>11. CASE HandlePending \/ HandleFilters
  BY <1>11, HandleInv
<1>12. CASE UNCHANGED vars
  <2>1. SpawnOrder' /\ RuntimeCompiled'
    BY <1>12, SameService DEF vars, IInv
  <2> QED BY <1>12, <2>1, QuietInv DEF vars, service, chain, ghosts, IInv
<1> QED BY <1>1, <1>2, <1>3, <1>4, <1>5, <1>6, <1>7, <1>8, <1>9, <1>10, <1>11, <1>12
        DEF Next, Start, End, Client, Rpc

LEMMA Inductive == Spec => []IInv
  BY InitInv, NextInv, PTL DEF Spec

\* Outside dev mode no block is imported before both pool tasks of
\* service.rs have subscribed to import notifications.
THEOREM SubscribedInTime == Spec => []NothingMissed
<1>1. IInv => NothingMissed
  BY DEF IInv
<1> QED BY <1>1, Inductive, PTL

\* The pending-transactions task forgets every transaction it is notified of,
\* for any interleaving with RPC handlers, forks and start-up.
THEOREM PendingForgotten == Spec => []IncludedForgotten
<1>1. IInv => IncludedForgotten
  BY DEF IInv
<1> QED BY <1>1, Inductive, PTL

-----------------------------------------------------------------------------
(* The pools: types, and what a waiting notification stands for.           *)

\* A notification waiting for task t is of a block that has been imported.
Arrived(t) ==
  \A i \in DOMAIN inbox[t] : /\ inbox[t][i].number <= top
                             /\ inbox[t][i].txs \subseteq included

PInv == IInv /\ TypeOK /\ Arrived("pending") /\ Arrived("filter")

\* The type of the service's part of the state.
ServiceOK ==
  /\ pc \in 1 .. Len(Steps(cmd)) + 1
  /\ running \subseteq {"rpc", "collator", "network"} \cup PoolTasks \cup {"authorship"}
  /\ dead \subseteq PoolTasks \cup {"authorship"}
  /\ {executor, converter} \subseteq Features \cup {"none"}

\* The type of the chain's and the pools' part.
PoolsOK ==
  /\ top \in 0 .. MaxBlock /\ best \in 0 .. top
  /\ included \subseteq submitted /\ submitted \subseteq Txs
  /\ inflight \in Entries(Txs) /\ pending \in Entries(Txs)
  /\ filters \in Entries(FilterIds)
  /\ orphans \subseteq Txs

LEMMA TypeParts == IInv => (TypeOK <=> ServiceOK /\ PoolsOK)
BY DEF IInv, InboxOK, TypeOK, ServiceOK, PoolsOK

\* Pool entries: the empty pool, an insertion, a pruning.
LEMMA EntriesFacts ==
  ASSUME NEW K
  PROVE  /\ NoEntries \in Entries(K)
         /\ \A m \in Entries(K) : \A k \in K : \A n \in 0 .. MaxBlock :
              [x \in DOMAIN m \cup {k} |-> IF x = k THEN n ELSE m[x]] \in Entries(K)
         /\ \A m \in Entries(K) : \A S \in SUBSET DOMAIN m :
              Restrict(m, S) \in Entries(K)
<1>1. NoEntries \in [{} -> 0 .. MaxBlock]
  BY DEF NoEntries
<1>2. ASSUME NEW m \in Entries(K), NEW k \in K, NEW n \in 0 .. MaxBlock
      PROVE  [x \in DOMAIN m \cup {k} |-> IF x = k THEN n ELSE m[x]] \in Entries(K)
  <2>1. PICK D \in SUBSET K : m \in [D -> 0 .. MaxBlock]
    BY <1>2 DEF Entries
  <2>2. [x \in DOMAIN m \cup {k} |-> IF x = k THEN n ELSE m[x]]
          \in [D \cup {k} -> 0 .. MaxBlock]
    BY <2>1
  <2>3. D \cup {k} \in SUBSET K
    OBVIOUS
  <2> QED BY <2>2, <2>3 DEF Entries
<1>3. ASSUME NEW m \in Entries(K), NEW S \in SUBSET DOMAIN m
      PROVE  Restrict(m, S) \in Entries(K)
  <2>1. PICK D \in SUBSET K : m \in [D -> 0 .. MaxBlock]
    BY <1>3 DEF Entries
  <2>2. Restrict(m, S) \in [S -> 0 .. MaxBlock] /\ S \in SUBSET K
    BY <2>1 DEF Restrict
  <2> QED BY <2>2 DEF Entries
<1>4. NoEntries \in Entries(K)
  BY <1>1 DEF Entries
<1> QED BY <1>2, <1>3, <1>4

\* Nothing is running, imported or pooled at first.
LEMMA InitPools == Init => PInv
<1> SUFFICES ASSUME Init PROVE PInv
  OBVIOUS
<1>1. ServiceOK
  <2>1. Len(Steps(cmd)) \in Nat
    BY DEF Steps, StartNodeSteps, StartDevSteps
  <2> QED BY <2>1 DEF Init, ServiceOK
<1>2. PoolsOK
  BY EntriesFacts, NodeAssumption DEF Init, PoolsOK
<1>3. Arrived("pending") /\ Arrived("filter")
  BY DEF Init, Arrived, PoolTasks
<1> QED BY <1>1, <1>2, <1>3, InitInv, TypeParts DEF PInv

\* Steps of the service leave chain and pools alone.
LEMMA SamePools ==
  ASSUME PInv, IInv', ServiceOK',
         UNCHANGED <<top, best, included, submitted, inflight, pending, filters,
                     inbox, orphans>>
  PROVE  PInv'
<1>1. PoolsOK'
  BY TypeParts DEF PInv, PoolsOK
<1>2. Arrived("pending")' /\ Arrived("filter")'
  BY DEF PInv, Arrived
<1>3. TypeOK'
  BY <1>1, TypeParts, PTL
<1> QED BY <1>2, <1>3 DEF PInv

\* Steps of the client, the RPC handlers and the tasks leave the service alone.
LEMMA SameServiceOK ==
  ASSUME PInv, IInv', PoolsOK', Arrived("pending")', Arrived("filter")',
         UNCHANGED service
  PROVE  PInv'
<1>1. ServiceOK'
  BY TypeParts DEF PInv, ServiceOK, service
<1>2. TypeOK'
  BY <1>1, TypeParts, PTL
<1> QED BY <1>2 DEF PInv

\* A step of the start-up: the converter is for a runtime that is compiled in.
LEMMA StartPools ==
  ASSUME PInv, StartStep
  PROVE  PInv'
<1>1. /\ status = "starting" /\ UNCHANGED <<cmd, dead, executor>>
      /\ pc' = pc + 1 /\ running' = running \cup Spawned(cmd, Steps(cmd)[pc])
      /\ converter' = IF Steps(cmd)[pc] = "spawn_tasks" THEN Converter(RpcRuntime(cmd)) ELSE converter
  BY DEF StartStep, StepDone
<1>2. ServiceOK
  BY TypeParts DEF PInv
<1>3. pc \in 1 .. Len(Steps(cmd)) /\ Len(Steps(cmd)) \in Nat
  <2>1. Len(Steps(cmd)) \in Nat
    BY DEF Steps, StartNodeSteps, StartDevSteps
  <2> QED BY <1>1, <2>1 DEF PInv, IInv, SpawnOrder
<1>4. Converter(RpcRuntime(cmd)) \in Features
  <2>1. CASE cmd.start_dev
    BY <2>1, FeaturesAssumption DEF Converter, RpcRuntime
  <2>2. CASE ~ cmd.start_dev
    <3>1. ForceChain(cmd) \in Features /\ Features \subseteq Runtimes
      BY <1>1, <2>2, FeaturesAssumption DEF PInv, IInv, RuntimeCompiled, Up
    <3> QED BY <2>2, <3>1 DEF Converter, RpcRuntime, Runtimes
  <2> QED BY <2>1, <2>2
<1>5. Spawned(cmd, Steps(cmd)[pc])
        \subseteq {"rpc", "collator", "network"} \cup PoolTasks \cup {"authorship"}
  BY DEF Spawned, PoolTasks
<1>6. ServiceOK'
  <2>1. pc' \in 1 .. Len(Steps(cmd')) + 1
    BY <1>1, <1>3
  <2>2. {executor', converter'} \subseteq Features \cup {"none"}
    BY <1>1, <1>2, <1>4 DEF ServiceOK
  <2> QED BY <1>1, <1>2, <1>5, <2>1, <2>2 DEF ServiceOK
<1>7. IInv'
  BY StartStepInv DEF PInv
<1> QED BY <1>6, <1>7, SamePools DEF StartStep, chain, rpc, ghosts

\* Leaving run(): the runtime of a node that starts, and of a chain operation,
\* is compiled in.
LEMMA CliPools ==
  ASSUME PInv, IInv', Launch \/ ChainOps
  PROVE  PInv'
<1>1. ServiceOK
  BY TypeParts DEF PInv
<1>2. executor' \in Features \cup {"none"}
  <2>1. CASE Launch
    BY <1>1, <2>1, FeaturesAssumption DEF Launch, Refused, Executor, ServiceOK
  <2>2. CASE ChainOps
    BY <1>1, <2>2 DEF ChainOps, NewChainOps, ServiceOK
  <2> QED BY <2>1, <2>2
<1>3. UNCHANGED <<cmd, pc, running, dead, converter>>
  BY DEF Launch, ChainOps
<1>4. ServiceOK'
  BY <1>1, <1>2, <1>3 DEF ServiceOK
<1>5. UNCHANGED <<top, best, included, submitted, inflight, pending, filters,
                  inbox, orphans>>
  BY DEF Launch, ChainOps, chain, rpc, ghosts
<1> QED BY <1>4, <1>5, SamePools

\* A task ends.
LEMMA TaskEndsPools ==
  ASSUME PInv, IInv', NEW t \in PoolTasks \cup {"authorship"}, TaskEnds(t)
  PROVE  PInv'
<1>1. ServiceOK
  BY TypeParts DEF PInv
<1>2. ServiceOK'
  BY <1>1 DEF TaskEnds, ServiceOK
<1> QED BY <1>2, SamePools DEF TaskEnds, chain, rpc, ghosts

\* The process ends, and its pools and notifications with it.
LEMMA StopPools ==
  ASSUME PInv, Stop
  PROVE  PInv'
<1>1. ServiceOK /\ PoolsOK
  BY TypeParts DEF PInv
<1>2. ServiceOK'
  BY <1>1 DEF Stop, ServiceOK
<1>3. PoolsOK'
  BY <1>1, EntriesFacts DEF Stop, PoolsOK, ghosts
<1>4. Arrived("pending")' /\ Arrived("filter")'
  BY DEF Stop, Arrived, PoolTasks
<1>5. IInv'
  BY StopInv DEF PInv
<1>6. TypeOK'
  BY <1>2, <1>3, <1>5, TypeParts, PTL
<1> QED BY <1>4, <1>5, <1>6 DEF PInv

\* A block is imported before, or as, it is notified.
LEMMA ImportPools ==
  ASSUME PInv, NEW b \in Blocks, NEW origin \in {"own", "sync", "broadcast"},
         Import(b, origin)
  PROVE  PInv'
<1>1. PoolsOK
  BY TypeParts DEF PInv
<1>2. /\ UNCHANGED <<service, inflight, submitted, pending, filters>>
      /\ top' = IF b.number > top THEN b.number ELSE top
      /\ best' = IF cmd.start_dev \/ origin = "sync" THEN top' ELSE best
      /\ b.txs \subseteq submitted /\ included' = included \cup b.txs
      /\ orphans' \subseteq orphans \cup b.txs
  BY DEF Import, rpc
<1>3. b.number \in 1 .. MaxBlock /\ b.txs \subseteq Txs /\ MaxBlock \in Nat
  BY NodeAssumption DEF Blocks
<1>4. /\ top \in Nat /\ top' \in 0 .. MaxBlock /\ top <= top' /\ b.number <= top'
      /\ best' \in 0 .. top'
  BY <1>1, <1>2, <1>3 DEF PoolsOK
<1>5. PoolsOK'
  BY <1>1, <1>2, <1>3, <1>4 DEF PoolsOK
<1>6. ASSUME NEW t \in PoolTasks, Arrived(t)
      PROVE  Arrived(t)'
  <2>1. inbox[t] \in Seq(Blocks)
    BY DEF PInv, IInv, InboxOK
  <2>2. \A i \in DOMAIN inbox[t] : inbox[t][i].number \in Nat
    <3>1. \A i \in DOMAIN inbox[t] : inbox[t][i] \in Blocks
      BY <2>1
    <3> QED BY <3>1 DEF Blocks
  <2>3. CASE inbox'[t] = inbox[t]
    BY <1>2, <1>4, <1>6, <2>2, <2>3 DEF Arrived
  <2>4. CASE inbox'[t] # inbox[t]
    <3>1. PICK n \in Blocks : /\ inbox'[t] = Append(inbox[t], n)
                              /\ n.number = b.number /\ n.txs \subseteq b.txs
      <4>1. inbox'[t] = Append(inbox[t], IF t = "filter" THEN [b EXCEPT !.txs = {}] ELSE b)
        BY <2>4 DEF Import, Notify
      <4>2. [b EXCEPT !.txs = {}] \in Blocks /\ [b EXCEPT !.txs = {}].txs = {}
            /\ [b EXCEPT !.txs = {}].number = b.number
        BY DEF Blocks
      <4>3. CASE t = "filter"
        BY <4>1, <4>2, <4>3
      <4>4. CASE t # "filter"
        BY <4>1, <4>4
      <4> QED BY <4>3, <4>4
    <3>2. ASSUME NEW i \in DOMAIN Append(inbox[t], n)
          PROVE  Append(inbox[t], n)[i] = IF i \in DOMAIN inbox[t] THEN inbox[t][i] ELSE n
      BY <2>1, <3>2
    <3>3. ASSUME NEW i \in DOMAIN inbox'[t]
          PROVE  inbox'[t][i].number <= top' /\ inbox'[t][i].txs \subseteq included'
      BY <1>2, <1>4, <1>6, <2>2, <3>1, <3>2 DEF Arrived
    <3> QED BY <3>3 DEF Arrived
  <2> QED BY <2>3, <2>4
<1>7. Arrived("pending")' /\ Arrived("filter")'
  BY <1>6 DEF PInv, PoolTasks
<1>8. IInv'
  BY ImportInv DEF PInv
<1> QED BY <1>2, <1>5, <1>7, <1>8, SameServiceOK

\* What waits in a queue after its head was taken was waiting before.
LEMMA TakenArrived ==
  ASSUME InboxOK, NEW t \in PoolTasks, Arrived("pending"), Arrived("filter"),
         inbox[t] # <<>>, inbox' = Taken(t), UNCHANGED <<top, included>>
  PROVE  Arrived("pending")' /\ Arrived("filter")'
<1>1. \A x \in PoolTasks : Arrived(x)
  BY DEF PoolTasks
<1>2. ASSUME NEW x \in PoolTasks PROVE Arrived(x)'
  <2>1. inbox[x] \in Seq(Blocks) /\ inbox[t] \in Seq(Blocks)
    BY DEF InboxOK
  <2>2. CASE x = t
    <3>1. inbox'[x] = Tail(inbox[x])
      BY <2>2 DEF Taken, InboxOK
    <3>2. \A i \in DOMAIN Tail(inbox[x]) :
            i + 1 \in DOMAIN inbox[x] /\ Tail(inbox[x])[i] = inbox[x][i + 1]
      BY <2>1, <2>2
    <3> QED BY <1>1, <3>1, <3>2 DEF Arrived
  <2>3. CASE x # t
    BY <1>1, <2>3 DEF Taken, InboxOK, Arrived
  <2> QED BY <2>2, <2>3
<1> QED BY <1>2 DEF PoolTasks

\* A task prunes its pool.
LEMMA HandlePools ==
  ASSUME PInv, HandlePending \/ HandleFilters
  PROVE  PInv'
<1>1. PoolsOK
  BY TypeParts DEF PInv
<1>2. UNCHANGED <<service, top, best, included, submitted, inflight, orphans>>
  BY DEF HandlePending, HandleFilters, rpc, ghosts
<1>3. Arrived("pending")' /\ Arrived("filter")'
  BY <1>2, TakenArrived DEF PInv, IInv, HandlePending, HandleFilters, PoolTasks
<1>4. PoolsOK'
  <2>1. CASE HandlePending
    <3>1. KeepPending(Head(inbox["pending"])) \in SUBSET DOMAIN pending
      BY DEF KeepPending
    <3> QED BY <1>1, <1>2, <2>1, <3>1, EntriesFacts DEF HandlePending, PoolsOK
  <2>2. CASE HandleFilters
    <3>1. KeepFilters(Head(inbox["filter"])) \in SUBSET DOMAIN filters
      BY DEF KeepFilters
    <3> QED BY <1>1, <1>2, <2>2, <3>1, EntriesFacts DEF HandleFilters, PoolsOK
  <2> QED BY <2>1, <2>2
<1>5. IInv'
  BY HandleInv DEF PInv
<1> QED BY <1>2, <1>3, <1>4, <1>5, SameServiceOK

\* RPC handlers insert with a block number of the chain, or remove.
LEMMA RpcPools ==
  ASSUME PInv, IInv', Rpc
  PROVE  PInv'
<1>1. PoolsOK /\ best \in 0 .. MaxBlock
  <2>1. PoolsOK
    BY TypeParts DEF PInv
  <2> QED BY <2>1, NodeAssumption DEF PoolsOK
<1>2. UNCHANGED <<service, top, best, included, inbox>>
  BY DEF Rpc, Submit, Record, CreateFilter, UninstallFilter, chain
<1>3. PoolsOK'
  <2>1. ASSUME NEW t \in Txs, Submit(t) PROVE PoolsOK'
    BY <1>1, <1>2, <2>1, EntriesFacts DEF Submit, PoolsOK, ghosts
  <2>2. ASSUME NEW t \in Txs, Record(t) PROVE PoolsOK'
    <3>1. inflight[t] \in 0 .. MaxBlock
      BY <1>1, <2>2 DEF PoolsOK, Record, Entries
    <3>2. inflight' \in Entries(Txs)
      <4>1. DOMAIN inflight \ {t} \in SUBSET DOMAIN inflight
        OBVIOUS
      <4> QED BY <1>1, <2>2, <4>1, EntriesFacts DEF PoolsOK, Record
    <3>3. pending' \in Entries(Txs)
      BY <1>1, <2>2, <3>1, EntriesFacts DEF PoolsOK, Record
    <3> QED BY <1>1, <1>2, <2>2, <3>2, <3>3 DEF PoolsOK, Record
  <2>3. ASSUME NEW f \in FilterIds, CreateFilter(f) PROVE PoolsOK'
    BY <1>1, <1>2, <2>3, EntriesFacts DEF CreateFilter, PoolsOK, rpc, ghosts
  <2>4. ASSUME NEW f \in FilterIds, UninstallFilter(f) PROVE PoolsOK'
    <3>1. DOMAIN filters \ {f} \in SUBSET DOMAIN filters
      OBVIOUS
    <3> QED BY <1>1, <1>2, <2>4, <3>1, EntriesFacts DEF UninstallFilter, PoolsOK, rpc, ghosts
  <2> QED BY <2>1, <2>2, <2>3, <2>4 DEF Rpc
<1>4. Arrived("pending")' /\ Arrived("filter")'
  BY <1>2 DEF PInv, Arrived
<1> QED BY <1>2, <1>3, <1>4, SameServiceOK

\* The relay chain chooses a best block among the imported ones.
LEMMA BestPools ==
  ASSUME PInv, IInv', NEW n \in 0 .. MaxBlock, NewBest(n)
  PROVE  PInv'
<1>1. PoolsOK
  BY TypeParts DEF PInv
<1>2. PoolsOK'
  BY <1>1 DEF NewBest, PoolsOK, rpc, ghosts
<1>3. Arrived("pending")' /\ Arrived("filter")'
  BY DEF NewBest, PInv, Arrived
<1> QED BY <1>2, <1>3, SameServiceOK DEF NewBest

LEMMA NextPools == PInv /\ [Next]_vars => PInv'
<1> SUFFICES ASSUME PInv, [Next]_vars PROVE PInv'
  OBVIOUS
<1>1. IInv'
  BY NextInv DEF PInv
<1>2. CASE Start
  BY <1>1, <1>2, CliPools, StartPools DEF Start
<1>3. CASE End
  BY <1>1, <1>3, TaskEndsPools, StopPools
     DEF End, StepFailed, Signalled, EssentialFailed
<1>4. CASE Client
  BY <1>1, <1>4, ImportPools, BestPools DEF Client
<1>5. CASE Rpc
  BY <1>1, <1>5, RpcPools
<1>6. CASE HandlePending \/ HandleFilters
  BY <1>6, HandlePools
<1>7. CASE UNCHANGED vars
  <2>1. ServiceOK'
    BY <1>7, TypeParts DEF PInv, ServiceOK, vars, service
  <2> QED BY <1>1, <1>7, <2>1, SamePools DEF vars, chain, rpc, ghosts
<1> QED BY <1>2, <1>3, <1>4, <1>5, <1>6, <1>7 DEF Next

LEMMA PoolsInductive == Spec => []PInv
BY InitPools, NextPools, PTL DEF Spec

\* The node's state keeps its types, for any command line, transactions and
\* blocks: no node runs with a runtime that is not compiled in, the pools hold
\* numbers of blocks, and what is in a block was submitted.
THEOREM TypeCorrect == Spec => []TypeOK
<1>1. PInv => TypeOK
  BY DEF PInv
<1> QED BY <1>1, PoolsInductive, PTL

\* The pending task forgets nothing that is neither in a block nor past its
\* lifespan.
LEMMA PendingKept ==
  ASSUME PInv, [Next]_vars, status' # "stopped",
         NEW t \in DOMAIN pending \ DOMAIN pending'
  PROVE  t \in included \/ pending[t] + PendingRetain <= top
<1>1. HandlePending
  <2>1. ~ UNCHANGED pending
    OBVIOUS
  <2>2. \A x \in Txs : ~ Record(x)
    BY DEF Record
  <2>3. ~ Stop
    BY DEF Stop
  <2> QED BY <2>1, <2>2, <2>3
          DEF Next, vars, Start, Launch, ChainOps, StartStep, End, TaskEnds,
              StepFailed, Signalled, EssentialFailed, Client, Import, NewBest,
              Rpc, Submit, CreateFilter, UninstallFilter, HandleFilters
<1> DEFINE b == Head(inbox["pending"])
<1>2. /\ inbox["pending"] \in Seq(Blocks) /\ inbox["pending"] # <<>>
      /\ pending' = Restrict(pending, KeepPending(b))
  BY <1>1 DEF HandlePending, PInv, IInv, InboxOK, PoolTasks
<1>3. b = inbox["pending"][1] /\ 1 \in DOMAIN inbox["pending"] /\ b \in Blocks
  BY <1>2
<1>4. b.number <= top /\ b.txs \subseteq included /\ b.number \in Nat
  BY <1>3 DEF PInv, Arrived, Blocks
<1> HIDE DEF b
<1>5. t \notin KeepPending(b)
  BY <1>2 DEF Restrict
<1>6. t \in b.txs \/ ~ (pending[t] + PendingRetain > b.number)
  BY <1>5 DEF KeepPending
<1>7. pending[t] \in Nat /\ top \in Nat /\ PendingRetain \in Nat
  <2>1. PoolsOK
    BY TypeParts DEF PInv
  <2> QED BY <2>1, NodeAssumption DEF PoolsOK, Entries
<1> QED BY <1>4, <1>6, <1>7

\* The filter task drops only filters past their lifespan.
LEMMA FiltersKept ==
  ASSUME PInv, HandleFilters, NEW f \in DOMAIN filters \ DOMAIN filters'
  PROVE  filters[f] + FilterRetain <= top
<1> DEFINE b == Head(inbox["filter"])
<1>1. /\ inbox["filter"] \in Seq(Blocks) /\ inbox["filter"] # <<>>
      /\ filters' = Restrict(filters, KeepFilters(b))
  BY DEF HandleFilters, PInv, IInv, InboxOK, PoolTasks
<1>2. b = inbox["filter"][1] /\ 1 \in DOMAIN inbox["filter"] /\ b \in Blocks
  BY <1>1
<1>3. b.number <= top /\ b.number \in Nat
  BY <1>2 DEF PInv, Arrived, Blocks
<1> HIDE DEF b
<1>4. ~ (filters[f] + FilterRetain > b.number)
  BY <1>1 DEF Restrict, KeepFilters
<1>5. filters[f] \in Nat /\ top \in Nat /\ FilterRetain \in Nat
  <2>1. PoolsOK
    BY TypeParts DEF PInv
  <2> QED BY <2>1, NodeAssumption DEF PoolsOK, Entries
<1> QED BY <1>3, <1>4, <1>5

\* Neither pool task of service.rs drops an entry before its lifespan is over,
\* however far behind the chain, and on whichever fork, the notification is
\* that it handles.
THEOREM LifespansKept == Spec => KeptForItsLifespan
<1>1. PInv /\ [Next]_vars =>
        [status' = "stopped" \/
         /\ \A t \in DOMAIN pending \ DOMAIN pending' :
              t \in included \/ pending[t] + PendingRetain <= top
         /\ HandleFilters => \A f \in DOMAIN filters \ DOMAIN filters' :
              filters[f] + FilterRetain <= top]_vars
  BY PendingKept, FiltersKept
<1> QED BY <1>1, PoolsInductive, PTL DEF Spec, KeptForItsLifespan
=============================================================================
