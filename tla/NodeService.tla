----------------------------- MODULE NodeService -----------------------------
(***************************************************************************)
(* The life of the node process: the subcommand (node/src/command.rs), the *)
(* construction of the service step by step, any of which may fail         *)
(* (new_partial and new_full in node/src/service.rs), the tasks it spawns, *)
(* which may end at any time, also while the service is being built, and   *)
(* the end of the process.                                                 *)
(*                                                                         *)
(* Subcommands differ here only in what they build and in what they wait   *)
(* for: `node` builds a full service and waits for a signal or for an      *)
(* essential task to end; `chain` (export-blocks, export-state, revert)    *)
(* builds a partial one and waits for the command or a signal, and so does *)
(* `import` (import-blocks, and check-block, which imports a block again), *)
(* which is given the import queue and needs it to get anywhere;           *)
(* `benchmark` (block, storage, overhead, extrinsic) keeps only the client *)
(* of a partial one; `offline` (key, build-spec, purge-chain, chain-info,  *)
(* benchmark pallet and machine) builds none; `stub` is a subcommand that  *)
(* is not compiled in.                                                     *)
(***************************************************************************)
EXTENDS Naturals, Sequences

Commands == {"node", "chain", "import", "benchmark", "offline", "stub"}

Configuration == [authority : BOOLEAN, grandpa : BOOLEAN, offchain : BOOLEAN,
                  telemetry : BOOLEAN]

Tasks == {"telemetry", "txpool-background", "import-queue", "network-worker",
          "offchain-workers-runner", "txpool-notifications", "rpc", "aura", "grandpa-voter"}

(* The tasks spawned through spawn_essential_handle. *)
Essential == {"txpool-background", "import-queue", "aura", "grandpa-voter"}

VARIABLES
  cmd, config,      \* what the process was started with
  pc,               \* the next step of the construction
  service,          \* starting, running, failed or stopped
  task,             \* task -> absent, running, ended (by itself) or killed
  essentialFailed,  \* the task manager has been told that an essential task ended
  signal,           \* a termination signal has arrived
  networkStarted,   \* start_network has been called
  voterKeys         \* the GRANDPA voter was given the keystore

vars == <<cmd, config, pc, service, task, essentialFailed, signal, networkStarted, voterKeys>>

------------------------------------------------------------------------------
(* The steps of the construction: whether one may fail and what it spawns. *)

Step(name, fallible, spawned) == [name |-> name, fallible |-> fallible, spawned |-> spawned]

Only(condition, step) == IF condition THEN <<step>> ELSE <<>>

PartialSteps ==
  Only(config.telemetry, Step("TelemetryWorker::new", TRUE, {}))
  \o <<Step("new_full_parts", TRUE, {})>>
  \o Only(config.telemetry, Step("spawn telemetry", FALSE, {"telemetry"}))
  \o <<Step("BasicPool::new_full", FALSE, {"txpool-background"}),
       Step("grandpa::block_import", TRUE, {}),
       Step("aura::import_queue", TRUE, {"import-queue"})>>

(* The RPC builder, which spawn_tasks calls: create_full in node/src/rpc.rs. *)
RpcSteps ==
  <<Step("merge System", TRUE, {}), Step("merge TransactionPayment", TRUE, {})>>

NetworkSteps ==
  <<Step("build_network", TRUE, {"network-worker"})>>
  \o Only(config.offchain, Step("offchain workers", FALSE, {"offchain-workers-runner"}))
  \o <<Step("spawn_tasks", TRUE, {"txpool-notifications"})>>
  \o RpcSteps
  \o <<Step("start_rpc_servers", TRUE, {"rpc"})>>

ConsensusSteps ==
  Only(config.authority, Step("slot_duration", TRUE, {}))
  \o Only(config.authority, Step("start_aura", TRUE, {"aura"}))
  \o Only(config.grandpa, Step("run_grandpa_voter", TRUE, {"grandpa-voter"}))

StartNetwork == Step("start_network", FALSE, {})

(* Slip: the network is started as soon as it is built. *)
FullStepsEager == PartialSteps \o NetworkSteps \o <<StartNetwork>> \o ConsensusSteps

FullSteps == PartialSteps \o NetworkSteps \o ConsensusSteps \o <<StartNetwork>>

Steps == CASE cmd = "node" -> FullSteps
           [] cmd \in {"chain", "import", "benchmark"} -> PartialSteps
           [] OTHER -> <<>>

(* Dropping the task manager ends every task that is still running. *)
DropTaskManager ==
  task' = [t \in Tasks |-> IF task[t] = "running" THEN "killed" ELSE task[t]]

------------------------------------------------------------------------------
Init ==
  /\ cmd \in Commands
  /\ config \in Configuration
  /\ pc = 1
  /\ service = "starting"
  /\ task = [t \in Tasks |-> "absent"]
  /\ essentialFailed = FALSE
  /\ signal = FALSE
  /\ networkStarted = FALSE
  /\ voterKeys = FALSE

(* Slip: the voter gets the keystore whatever the role. *)
GiveKeysAlways(step) == step.name = "run_grandpa_voter"

(* Whether the step hands the keystore to the GRANDPA voter. *)
GiveKeys(step) == step.name = "run_grandpa_voter" /\ config.authority

StepSucceeds ==
  /\ service = "starting"
  /\ pc \in DOMAIN Steps
  /\ LET step == Steps[pc] IN
       /\ task' = [t \in Tasks |-> IF t \in step.spawned THEN "running" ELSE task[t]]
       /\ networkStarted' = (networkStarted \/ step.name = "start_network")
       /\ voterKeys' = (voterKeys \/ GiveKeys(step))
  /\ pc' = pc + 1
  /\ UNCHANGED <<cmd, config, service, essentialFailed, signal>>

(* The `?` of a step returns, and with it goes the task manager, if any. *)
StepFails ==
  /\ service = "starting"
  /\ pc \in DOMAIN Steps
  /\ Steps[pc].fallible
  /\ service' = "failed"
  /\ DropTaskManager
  /\ UNCHANGED <<cmd, config, pc, essentialFailed, signal, networkStarted, voterKeys>>

(* try-runtime, and benchmark pallet or storage without their feature. *)
NotCompiledIn ==
  /\ service = "starting"
  /\ cmd = "stub"
  /\ service' = "failed"
  /\ UNCHANGED <<cmd, config, pc, task, essentialFailed, signal, networkStarted, voterKeys>>

(* Slip: every subcommand keeps only what its command is given. *)
BuiltKeepingClient ==
  /\ service = "starting"
  /\ cmd # "stub"
  /\ pc = Len(Steps) + 1
  /\ service' = "running"
  /\ IF cmd # "node" THEN DropTaskManager ELSE UNCHANGED task
  /\ UNCHANGED <<cmd, config, pc, essentialFailed, signal, networkStarted, voterKeys>>

(* The service is built.  A benchmark keeps the client and drops the rest. *)
Built ==
  /\ service = "starting"
  /\ cmd # "stub"
  /\ pc = Len(Steps) + 1
  /\ service' = "running"
  /\ IF cmd = "benchmark" THEN DropTaskManager ELSE UNCHANGED task
  /\ UNCHANGED <<cmd, config, pc, essentialFailed, signal, networkStarted, voterKeys>>

(* A task returns or panics; the end of an essential one is reported, to a *)
(* channel that keeps the report until somebody waits for it.              *)
TaskEnds(t) ==
  /\ task[t] = "running"
  /\ task' = [task EXCEPT ![t] = "ended"]
  /\ essentialFailed' = (essentialFailed \/ t \in Essential)
  /\ UNCHANGED <<cmd, config, pc, service, signal, networkStarted, voterKeys>>

Signal ==
  /\ ~signal
  /\ service \in {"starting", "running"}
  /\ signal' = TRUE
  /\ UNCHANGED <<cmd, config, pc, service, task, essentialFailed, networkStarted, voterKeys>>

(* Slip: as for a `chain` command, only a signal is waited for. *)
TakenDownBySignal == signal /\ cmd \in {"node", "chain", "import"}

(* What ends the wait of run_node_until_exit and of async_run. *)
TakenDown ==
  \/ signal /\ cmd \in {"node", "chain", "import"}
  \/ essentialFailed /\ cmd = "node"

TakeDown ==
  /\ service = "running"
  /\ TakenDown
  /\ service' = "stopped"
  /\ DropTaskManager
  /\ UNCHANGED <<cmd, config, pc, essentialFailed, signal, networkStarted, voterKeys>>

(* The command has returned, its result or an error. *)
CommandCompletes ==
  /\ service = "running"
  /\ cmd # "node"
  /\ service' = "stopped"
  /\ DropTaskManager
  /\ UNCHANGED <<cmd, config, pc, essentialFailed, signal, networkStarted, voterKeys>>

Next ==
  \/ StepSucceeds
  \/ StepFails
  \/ NotCompiledIn
  \/ Built
  \/ \E t \in Tasks : TaskEnds(t)
  \/ Signal
  \/ TakeDown
  \/ CommandCompletes

(* check-block and import-blocks hand blocks to the import queue and wait  *)
(* for it to be done with them.                                            *)
Served == cmd = "import" => task["import-queue"] = "running"

(***************************************************************************)
(* The construction is straight-line code, what the process waits for is   *)
(* polled by the runtime's executor, and a command that is served has      *)
(* finite work.  One that is not may still return, with an error of its    *)
(* own, but need not; tasks and signals owe nothing.                       *)
(***************************************************************************)
Fairness ==
  /\ WF_vars(StepSucceeds \/ StepFails \/ NotCompiledIn \/ Built)
  /\ WF_vars(TakeDown)
  /\ WF_vars(CommandCompletes /\ Served)

Spec == Init /\ [][Next]_vars /\ Fairness

------------------------------------------------------------------------------
(* Properties. *)

Spawned(t) == task[t] # "absent"

(* Nothing authors or votes unless the process was started for it: aura    *)
(* only for an authority, the voter only unless it is disabled, keys only  *)
(* for an authority's voter, and none of it, nor the network, in a         *)
(* subcommand that works on the database of a node.                        *)
ConsensusOnlyAsConfigured ==
  /\ Spawned("aura") => cmd = "node" /\ config.authority
  /\ Spawned("grandpa-voter") => cmd = "node" /\ config.grandpa
  /\ voterKeys => config.authority
  /\ networkStarted => cmd = "node"

(* The network starts last: by then every task that handles blocks or      *)
(* votes has been spawned, so nothing that arrives is lost on a node that  *)
(* is half built, and nothing is left that could fail, so no peer is let   *)
(* in to a node whose construction is then given up.                       *)
NetworkStartsLast ==
  networkStarted => /\ service # "failed"
                    /\ \A t \in {"txpool-background", "import-queue", "network-worker", "rpc"} :
                         Spawned(t)
                    /\ config.authority => Spawned("aura")
                    /\ config.grandpa => Spawned("grandpa-voter")

(* "if it fails we take down the service with it": also when the task ends *)
(* before anybody waits for it.                                            *)
EssentialFailureStops ==
  \A t \in {"aura", "grandpa-voter"} :
    (task[t] = "ended") ~> (service \in {"failed", "stopped"})

(* Every other process ends by itself, with one exception: a check-block   *)
(* or import-blocks whose import queue has ended.  It does not wait for    *)
(* essential tasks, so it may take a signal to end it.                     *)
SubcommandsEnd ==
  (cmd # "node")
    ~> (service \in {"failed", "stopped"} \/ (cmd = "import" /\ task["import-queue"] = "ended"))

==============================================================================
