-------------------------- MODULE NodeServiceProofs --------------------------
(***************************************************************************)
(* The life of the process, for every command and configuration and        *)
(* whatever order tasks end in.                                            *)
(***************************************************************************)
EXTENDS NodeService, SequenceTheorems, TLAPS

(* The steps but the last one. *)
Other ==
  {"TelemetryWorker::new", "new_full_parts", "spawn telemetry", "BasicPool::new_full",
   "grandpa::block_import", "aura::import_queue", "merge System", "merge TransactionPayment",
   "build_network", "offchain workers", "spawn_tasks", "start_rpc_servers", "slot_duration",
   "start_aura", "run_grandpa_voter"}

StepNames == Other \cup {"start_network"}

StepType == [name : StepNames, fallible : BOOLEAN, spawned : SUBSET Tasks]

(* The tasks that a sequence of steps spawns, and the names of its steps. *)
SpawnedBy(s) == UNION {s[i].spawned : i \in 1 .. Len(s)}
NamesOf(s) == {s[i].name : i \in 1 .. Len(s)}

(* The steps s spawn exactly T and have names in N. *)
Builds(s, T, N) ==
  /\ s \in Seq(StepType)
  /\ SpawnedBy(s) = T
  /\ NamesOf(s) \subseteq N

------------------------------------------------------------------------------
(* Sequences of steps. *)

(* One step. *)
LEMMA OneStep ==
  ASSUME NEW x \in StepType, NEW N, x.name \in N
  PROVE  Builds(<<x>>, x.spawned, N)
  <1> HIDE DEF StepType
  <1>1. <<x>> \in Seq(StepType) /\ Len(<<x>>) = 1 /\ <<x>>[1] = x
    OBVIOUS
  <1>2. QED
    BY <1>1 DEF Builds, SpawnedBy, NamesOf

(* No step. *)
LEMMA NoStep == \A N : Builds(<<>>, {}, N)
  <1>1. <<>> \in Seq(StepType) /\ Len(<<>>) = 0
    BY EmptySeq
  <1>2. QED
    BY <1>1 DEF Builds, SpawnedBy, NamesOf

(* One part of the construction after the other. *)
LEMMA BuildsOneAfterTheOther ==
  ASSUME NEW s, NEW t, NEW T, NEW U, NEW N,
         Builds(s, T, N), Builds(t, U, N)
  PROVE  Builds(s \o t, T \cup U, N)
  <1> HIDE DEF StepType
  <1>1. s \in Seq(StepType) /\ t \in Seq(StepType)
    BY DEF Builds
  <1>2. /\ s \o t \in Seq(StepType)
        /\ Len(s) \in Nat /\ Len(t) \in Nat /\ Len(s \o t) = Len(s) + Len(t)
        /\ \A i \in 1 .. Len(s) + Len(t) :
             (s \o t)[i] = IF i <= Len(s) THEN s[i] ELSE t[i - Len(s)]
    BY <1>1, ConcatProperties
  <1>3. PICK u : u = s \o t
    OBVIOUS
  <1>4. /\ \A i \in 1 .. Len(s) : i \in 1 .. Len(u) /\ u[i] = s[i]
        /\ \A i \in 1 .. Len(t) : Len(s) + i \in 1 .. Len(u) /\ u[Len(s) + i] = t[i]
        /\ \A i \in 1 .. Len(u) : \/ i \in 1 .. Len(s) /\ u[i] = s[i]
                                  \/ i - Len(s) \in 1 .. Len(t) /\ u[i] = t[i - Len(s)]
    BY <1>2, <1>3
  <1>5. SpawnedBy(u) = T \cup U /\ NamesOf(u) \subseteq N
    <2>1. SpawnedBy(u) = SpawnedBy(s) \cup SpawnedBy(t)
      BY <1>4 DEF SpawnedBy
    <2>2. NamesOf(u) \subseteq NamesOf(s) \cup NamesOf(t)
      BY <1>4 DEF NamesOf
    <2>3. QED
      BY <2>1, <2>2 DEF Builds
  <1>6. QED
    BY <1>2, <1>3, <1>5 DEF Builds

(* A step that is only taken if the configuration says so. *)
LEMMA ConditionalStep ==
  ASSUME NEW c \in BOOLEAN, NEW x \in StepType, NEW N, x.name \in N
  PROVE  Builds(Only(c, x), IF c THEN x.spawned ELSE {}, N)
  <1>1. CASE c
    BY <1>1, OneStep DEF Only
  <1>2. CASE ~c
    BY <1>2, NoStep DEF Only
  <1>3. QED
    BY <1>1, <1>2

(* Three steps in a row. *)
LEMMA ThreeSteps ==
  ASSUME NEW x \in StepType, NEW y \in StepType, NEW z \in StepType, NEW N,
         x.name \in N, y.name \in N, z.name \in N
  PROVE  Builds(<<x, y, z>>, x.spawned \cup y.spawned \cup z.spawned, N)
  <1> HIDE DEF StepType
  <1>1. PICK s : s = <<x, y, z>>
    OBVIOUS
  <1>2. s \in Seq(StepType) /\ Len(s) = 3 /\ s[1] = x /\ s[2] = y /\ s[3] = z
    BY <1>1
  <1>3. \A i : i \in 1 .. Len(s) <=> i = 1 \/ i = 2 \/ i = 3
    BY <1>2
  <1>4. SpawnedBy(s) = x.spawned \cup y.spawned \cup z.spawned
    BY <1>2, <1>3 DEF SpawnedBy
  <1>5. NamesOf(s) \subseteq N
    BY <1>2, <1>3 DEF NamesOf
  <1>6. QED
    BY <1>1, <1>2, <1>4, <1>5 DEF Builds

(* Two steps in a row. *)
LEMMA TwoSteps ==
  ASSUME NEW x \in StepType, NEW y \in StepType, NEW N, x.name \in N, y.name \in N
  PROVE  Builds(<<x, y>>, x.spawned \cup y.spawned, N)
  <1> HIDE DEF StepType
  <1>1. PICK s : s = <<x, y>>
    OBVIOUS
  <1>2. s \in Seq(StepType) /\ Len(s) = 2 /\ s[1] = x /\ s[2] = y
    BY <1>1
  <1>3. \A i : i \in 1 .. Len(s) <=> i = 1 \/ i = 2
    BY <1>2
  <1>4. SpawnedBy(s) = x.spawned \cup y.spawned
    BY <1>2, <1>3 DEF SpawnedBy
  <1>5. NamesOf(s) \subseteq N
    BY <1>2, <1>3 DEF NamesOf
  <1>6. QED
    BY <1>1, <1>2, <1>4, <1>5 DEF Builds

------------------------------------------------------------------------------
(* The construction of this service. *)

If(c, T) == IF c THEN T ELSE {}

PartialTasks == If(config.telemetry, {"telemetry"}) \cup {"txpool-background", "import-queue"}
NetworkTasks == {"network-worker", "txpool-notifications", "rpc"}
                \cup If(config.offchain, {"offchain-workers-runner"})
ConsensusTasks == If(config.authority, {"aura"}) \cup If(config.grandpa, {"grandpa-voter"})

(* A step that is not the start of the network. *)
LEMMA Plain ==
  ASSUME NEW x \in StepType, x.name \in Other
  PROVE  /\ Builds(<<x>>, x.spawned, Other)
         /\ \A c \in BOOLEAN : Builds(Only(c, x), If(c, x.spawned), Other)
  BY OneStep, ConditionalStep DEF If

(* new_partial spawns the pool's task and the import queue, once each. *)
LEMMA PartialBuilds ==
  ASSUME config \in Configuration
  PROVE  Builds(PartialSteps, PartialTasks, Other)
  <1>1. PICK w : w = Step("TelemetryWorker::new", TRUE, {})
    OBVIOUS
  <1>2. PICK p : p = Step("new_full_parts", TRUE, {})
    OBVIOUS
  <1>3. PICK t : t = Step("spawn telemetry", FALSE, {"telemetry"})
    OBVIOUS
  <1>4. PICK x : x = Step("BasicPool::new_full", FALSE, {"txpool-background"})
    OBVIOUS
  <1>5. PICK y : y = Step("grandpa::block_import", TRUE, {})
    OBVIOUS
  <1>6. PICK z : z = Step("aura::import_queue", TRUE, {"import-queue"})
    OBVIOUS
  <1>7. PICK c \in BOOLEAN : c = config.telemetry
    BY Zenon DEF Configuration
  <1>8. PICK a : a = Only(c, w)
    OBVIOUS
  <1>9. PICK b : b = Only(c, t)
    OBVIOUS
  <1>10. PICK d : d = <<x, y, z>>
    OBVIOUS
  <1>11. PartialSteps = ((a \o <<p>>) \o b) \o d
    BY <1>1, <1>2, <1>3, <1>4, <1>5, <1>6, <1>7, <1>8, <1>9, <1>10, Zenon DEF PartialSteps
  <1>12. /\ w \in StepType /\ w.name \in Other /\ w.spawned = {}
         /\ p \in StepType /\ p.name \in Other /\ p.spawned = {}
    BY <1>1, <1>2 DEF Step, StepType, StepNames, Other
  <1>13. t \in StepType /\ t.name \in Other /\ t.spawned = {"telemetry"}
    BY <1>3 DEF Step, StepType, StepNames, Other, Tasks
  <1>14. Builds(a, If(c, {}), Other) /\ Builds(<<p>>, {}, Other)
    BY <1>8, <1>12, Plain
  <1>15. Builds(b, If(c, {"telemetry"}), Other)
    BY <1>9, <1>13, Plain
  <1>16. /\ x \in StepType /\ x.name \in Other /\ x.spawned = {"txpool-background"}
         /\ y \in StepType /\ y.name \in Other /\ y.spawned = {}
         /\ z \in StepType /\ z.name \in Other /\ z.spawned = {"import-queue"}
    BY <1>4, <1>5, <1>6 DEF Step, StepType, StepNames, Other, Tasks
  <1>17. Builds(d, {"txpool-background", "import-queue"}, Other)
    <2>1. Builds(d, {"txpool-background"} \cup {} \cup {"import-queue"}, Other)
      BY <1>10, <1>16, ThreeSteps
    <2>2. QED
      BY <2>1
  <1>18. Builds(a \o <<p>>, If(c, {}) \cup {}, Other)
    BY <1>14, BuildsOneAfterTheOther
  <1>19. Builds((a \o <<p>>) \o b, If(c, {}) \cup {} \cup If(c, {"telemetry"}), Other)
    BY <1>15, <1>18, BuildsOneAfterTheOther, Zenon
  <1>20. If(c, {}) \cup {} \cup If(c, {"telemetry"}) = If(c, {"telemetry"})
    BY DEF If
  <1>21. QED
    BY <1>7, <1>11, <1>17, <1>19, <1>20, BuildsOneAfterTheOther, Zenon DEF PartialTasks

(* Up to the RPC servers, new_full spawns three or four tasks more. *)
LEMMA NetworkBuilds ==
  ASSUME config \in Configuration
  PROVE  Builds(NetworkSteps, NetworkTasks, Other)
  <1>1. PICK n : n = Step("build_network", TRUE, {"network-worker"})
    OBVIOUS
  <1>2. PICK o : o = Step("offchain workers", FALSE, {"offchain-workers-runner"})
    OBVIOUS
  <1>3. PICK t : t = Step("spawn_tasks", TRUE, {"txpool-notifications"})
    OBVIOUS
  <1>4. PICK x : x = Step("merge System", TRUE, {})
    OBVIOUS
  <1>5. PICK y : y = Step("merge TransactionPayment", TRUE, {})
    OBVIOUS
  <1>6. PICK r : r = Step("start_rpc_servers", TRUE, {"rpc"})
    OBVIOUS
  <1>7. PICK c \in BOOLEAN : c = config.offchain
    BY Zenon DEF Configuration
  <1>8. PICK b : b = Only(c, o)
    OBVIOUS
  <1>9. NetworkSteps = (((<<n>> \o b) \o <<t>>) \o <<x, y>>) \o <<r>>
    BY <1>1, <1>2, <1>3, <1>4, <1>5, <1>6, <1>7, <1>8, Zenon DEF NetworkSteps, RpcSteps
  <1>10. /\ n \in StepType /\ n.name \in Other /\ n.spawned = {"network-worker"}
         /\ o \in StepType /\ o.name \in Other /\ o.spawned = {"offchain-workers-runner"}
         /\ t \in StepType /\ t.name \in Other /\ t.spawned = {"txpool-notifications"}
    BY <1>1, <1>2, <1>3 DEF Step, StepType, StepNames, Other, Tasks
  <1>11. /\ x \in StepType /\ x.name \in Other /\ x.spawned = {}
         /\ y \in StepType /\ y.name \in Other /\ y.spawned = {}
         /\ r \in StepType /\ r.name \in Other /\ r.spawned = {"rpc"}
    BY <1>4, <1>5, <1>6 DEF Step, StepType, StepNames, Other, Tasks
  <1>12. /\ Builds(<<n>>, {"network-worker"}, Other)
         /\ Builds(b, If(c, {"offchain-workers-runner"}), Other)
         /\ Builds(<<t>>, {"txpool-notifications"}, Other)
         /\ Builds(<<r>>, {"rpc"}, Other)
    BY <1>8, <1>10, <1>11, Plain
  <1>13. Builds(<<x, y>>, {} \cup {}, Other)
    BY <1>11, TwoSteps
  <1>14. PICK A : A = {"network-worker"} \cup If(c, {"offchain-workers-runner"})
    OBVIOUS
  <1>15. Builds(<<n>> \o b, A, Other)
    BY <1>12, <1>14, BuildsOneAfterTheOther, Zenon
  <1>16. PICK B : B = A \cup {"txpool-notifications"} \cup ({} \cup {})
    OBVIOUS
  <1>17. Builds((<<n>> \o b) \o <<t>>, A \cup {"txpool-notifications"}, Other)
    BY <1>12, <1>15, BuildsOneAfterTheOther, Zenon
  <1>18. Builds(((<<n>> \o b) \o <<t>>) \o <<x, y>>, B, Other)
    BY <1>13, <1>16, <1>17, BuildsOneAfterTheOther, Zenon
  <1>19. Builds(NetworkSteps, B \cup {"rpc"}, Other)
    BY <1>9, <1>12, <1>18, BuildsOneAfterTheOther, Zenon
  <1>20. B \cup {"rpc"} = NetworkTasks
    BY <1>7, <1>14, <1>16 DEF NetworkTasks, If
  <1>21. QED
    BY <1>19, <1>20

(* Aura for an authority, the voter where it is enabled. *)
LEMMA ConsensusBuilds ==
  ASSUME config \in Configuration
  PROVE  Builds(ConsensusSteps, ConsensusTasks, Other)
  <1>1. PICK x : x = Step("slot_duration", TRUE, {})
    OBVIOUS
  <1>2. PICK y : y = Step("start_aura", TRUE, {"aura"})
    OBVIOUS
  <1>3. PICK z : z = Step("run_grandpa_voter", TRUE, {"grandpa-voter"})
    OBVIOUS
  <1>4. PICK c \in BOOLEAN : c = config.authority
    BY Zenon DEF Configuration
  <1>5. PICK g \in BOOLEAN : g = config.grandpa
    BY Zenon DEF Configuration
  <1>6. ConsensusSteps = (Only(c, x) \o Only(c, y)) \o Only(g, z)
    BY <1>1, <1>2, <1>3, <1>4, <1>5, Zenon DEF ConsensusSteps
  <1>7. /\ x \in StepType /\ x.name \in Other /\ x.spawned = {}
        /\ y \in StepType /\ y.name \in Other /\ y.spawned = {"aura"}
        /\ z \in StepType /\ z.name \in Other /\ z.spawned = {"grandpa-voter"}
    BY <1>1, <1>2, <1>3 DEF Step, StepType, StepNames, Other, Tasks
  <1>8. /\ Builds(Only(c, x), If(c, {}), Other)
        /\ Builds(Only(c, y), If(c, {"aura"}), Other)
        /\ Builds(Only(g, z), If(g, {"grandpa-voter"}), Other)
    BY <1>7, Plain
  <1>9. Builds(Only(c, x) \o Only(c, y), If(c, {}) \cup If(c, {"aura"}), Other)
    BY <1>8, BuildsOneAfterTheOther, Zenon
  <1>10. If(c, {}) \cup If(c, {"aura"}) = If(c, {"aura"})
    BY DEF If
  <1>11. QED
    BY <1>4, <1>5, <1>6, <1>8, <1>9, <1>10, BuildsOneAfterTheOther, Zenon
    DEF ConsensusTasks

(* Everything that the command's construction spawns. *)
AllTasks == CASE cmd = "node" -> PartialTasks \cup NetworkTasks \cup ConsensusTasks
              [] cmd \in {"chain", "import", "benchmark"} -> PartialTasks
              [] OTHER -> {}

(* A full service: new_partial, the network, consensus, and last of all    *)
(* the start of the network.                                               *)
LEMMA FullBuilds ==
  ASSUME config \in Configuration
  PROVE  /\ Builds(FullSteps, PartialTasks \cup NetworkTasks \cup ConsensusTasks, StepNames)
         /\ \A i \in 1 .. Len(FullSteps) :
              FullSteps[i].name = "start_network" => i = Len(FullSteps)
  <1> HIDE DEF StepType
  <1>1. PICK f : f = (PartialSteps \o NetworkSteps) \o ConsensusSteps
    OBVIOUS
  <1>2. FullSteps = f \o <<StartNetwork>>
    BY <1>1, Zenon DEF FullSteps
  <1>3. Builds(f, PartialTasks \cup NetworkTasks \cup ConsensusTasks, Other)
    <2>1. Builds(PartialSteps \o NetworkSteps, PartialTasks \cup NetworkTasks, Other)
      BY PartialBuilds, NetworkBuilds, BuildsOneAfterTheOther, Zenon
    <2>2. QED
      BY <1>1, <2>1, ConsensusBuilds, BuildsOneAfterTheOther, Zenon
  <1>4. PICK T : T = PartialTasks \cup NetworkTasks \cup ConsensusTasks
    OBVIOUS
  <1>5. StartNetwork \in StepType /\ StartNetwork.spawned = {} /\ StartNetwork.name \in StepNames
    BY DEF StartNetwork, Step, StepType, StepNames
  <1>6. Builds(f, T, StepNames)
    BY <1>3, <1>4 DEF Builds, StepNames
  <1>7. Builds(<<StartNetwork>>, {}, StepNames)
    BY <1>5, OneStep
  <1>8. Builds(FullSteps, T \cup {}, StepNames)
    BY <1>2, <1>6, <1>7, BuildsOneAfterTheOther, Zenon
  <1>9. /\ Len(f) \in Nat
        /\ Len(FullSteps) = Len(f) + 1
        /\ \A i \in 1 .. Len(f) : FullSteps[i] = f[i]
    <2>1. f \in Seq(StepType) /\ <<StartNetwork>> \in Seq(StepType) /\ Len(<<StartNetwork>>) = 1
      BY <1>3, <1>7 DEF Builds
    <2>2. QED
      BY <1>2, <2>1, ConcatProperties
  <1>10. \A i \in 1 .. Len(f) : f[i].name # "start_network"
    BY <1>3 DEF Builds, NamesOf, Other
  <1>11. \A i \in 1 .. Len(FullSteps) : FullSteps[i].name = "start_network" => i = Len(FullSteps)
    BY <1>9, <1>10
  <1>12. T \cup {} = T
    OBVIOUS
  <1>13. QED
    BY <1>4, <1>8, <1>11, <1>12

(* What the command builds, and that only a node starts a network. *)
LEMMA StepsBuild ==
  ASSUME cmd \in Commands, config \in Configuration
  PROVE  /\ Builds(Steps, AllTasks, StepNames)
         /\ \A i \in 1 .. Len(Steps) :
              Steps[i].name = "start_network" => cmd = "node" /\ i = Len(Steps)
         /\ cmd = "stub" => Len(Steps) = 0
  <1> HIDE DEF StepType
  <1>1. CASE cmd = "node"
    BY <1>1, FullBuilds DEF Steps, AllTasks
  <1>2. CASE cmd \in {"chain", "import", "benchmark"}
    <2>1. Steps = PartialSteps /\ AllTasks = PartialTasks /\ cmd # "stub"
      BY <1>2 DEF Steps, AllTasks
    <2>2. Builds(PartialSteps, PartialTasks, Other)
      BY PartialBuilds
    <2>3. Builds(PartialSteps, PartialTasks, StepNames)
      BY <2>2 DEF Builds, StepNames
    <2>4. \A i \in 1 .. Len(PartialSteps) : PartialSteps[i].name # "start_network"
      BY <2>2 DEF Builds, NamesOf, Other
    <2>5. QED
      BY <2>1, <2>3, <2>4
  <1>3. CASE cmd \in {"offline", "stub"}
    <2>1. Steps = <<>> /\ AllTasks = {}
      BY <1>3 DEF Steps, AllTasks
    <2>2. Len(Steps) = 0
      BY <2>1, EmptySeq
    <2>3. QED
      BY <2>1, <2>2, NoStep
  <1>4. QED
    BY <1>1, <1>2, <1>3 DEF Commands

(* A process is never reconfigured. *)
LEMMA StepsStay ==
  ASSUME UNCHANGED <<cmd, config>>
  PROVE  Steps' = Steps
  BY Zenon DEF Steps, FullSteps, PartialSteps, NetworkSteps, RpcSteps, ConsensusSteps, StartNetwork, Only

------------------------------------------------------------------------------
(* The invariant. *)

ServiceType ==
  /\ cmd \in Commands
  /\ config \in Configuration
  /\ pc \in 1 .. Len(Steps) + 1
  /\ service \in {"starting", "running", "failed", "stopped"}
  /\ task \in [Tasks -> {"absent", "running", "ended", "killed"}]

(* A task is absent until its step is done, and never again. *)
SpawnedByItsStep ==
  \A t \in Tasks : task[t] # "absent" <=> \E i \in 1 .. pc - 1 : t \in Steps[i].spawned

StartedByItsStep ==
  networkStarted => \E i \in 1 .. pc - 1 : Steps[i].name = "start_network"

KeysOfAuthority == voterKeys => config.authority

(* No construction fails any more once the network has been started. *)
FailsUnconnected == service = "failed" => ~networkStarted

ServiceInv ==
  /\ ServiceType
  /\ SpawnedByItsStep
  /\ StartedByItsStep
  /\ KeysOfAuthority
  /\ FailsUnconnected

(* At the start nothing has been done. *)
LEMMA InitService == Init => ServiceInv
  <1> SUFFICES ASSUME Init
               PROVE  ServiceInv
    OBVIOUS
  <1>1. cmd \in Commands /\ config \in Configuration /\ pc = 1
    BY DEF Init
  <1>2. Len(Steps) \in Nat
    BY <1>1, StepsBuild, LenProperties DEF Builds
  <1>3. ServiceType
    BY <1>1, <1>2 DEF ServiceType, Init
  <1>4. SpawnedByItsStep
    <2>1. \A i : i \notin 1 .. pc - 1
      BY <1>1
    <2>2. \A t \in Tasks : task[t] = "absent"
      BY DEF Init
    <2>3. QED
      BY <2>1, <2>2 DEF SpawnedByItsStep
  <1>5. StartedByItsStep /\ KeysOfAuthority /\ FailsUnconnected
    BY Zenon DEF Init, StartedByItsStep, KeysOfAuthority, FailsUnconnected
  <1>6. QED
    BY <1>3, <1>4, <1>5 DEF ServiceInv

(* What the end of the task manager leaves of the tasks. *)
LEMMA Dropped ==
  ASSUME task \in [Tasks -> {"absent", "running", "ended", "killed"}], DropTaskManager
  PROVE  /\ task' \in [Tasks -> {"absent", "running", "ended", "killed"}]
         /\ \A t \in Tasks : task'[t] = "absent" <=> task[t] = "absent"
  BY DEF DropTaskManager

(***************************************************************************)
(* A step that does not build anything: what is left to show is what it    *)
(* does to the tasks and to the service.                                   *)
(***************************************************************************)
LEMMA NotBuilding ==
  ASSUME ServiceInv,
         UNCHANGED <<cmd, config, pc, networkStarted, voterKeys>>,
         service' \in {"starting", "running", "failed", "stopped"},
         task' \in [Tasks -> {"absent", "running", "ended", "killed"}],
         \A t \in Tasks : task'[t] = "absent" <=> task[t] = "absent",
         service' = "failed" => ~networkStarted
  PROVE  ServiceInv'
  <1>1. Steps' = Steps
    BY StepsStay
  <1>2. ServiceType'
    BY <1>1 DEF ServiceInv, ServiceType
  <1>3. SpawnedByItsStep'
    BY <1>1 DEF ServiceInv, SpawnedByItsStep
  <1>4. StartedByItsStep' /\ KeysOfAuthority'
    BY <1>1, Zenon DEF ServiceInv, StartedByItsStep, KeysOfAuthority
  <1>5. FailsUnconnected'
    BY Zenon DEF FailsUnconnected
  <1>6. QED
    BY <1>2, <1>3, <1>4, <1>5 DEF ServiceInv

(* The start of the network is the last step, so once it has been started  *)
(* no step is left.                                                        *)
LEMMA StartedLast ==
  ASSUME ServiceInv, networkStarted
  PROVE  /\ cmd = "node"
         /\ Len(Steps) \in Nat /\ pc - 1 = Len(Steps)
         /\ pc \notin DOMAIN Steps
  <1>1. cmd \in Commands /\ config \in Configuration
    BY DEF ServiceInv, ServiceType
  <1>2. PICK s : s = Steps
    OBVIOUS
  <1>3. PICK i \in 1 .. pc - 1 : s[i].name = "start_network"
    BY <1>2 DEF ServiceInv, StartedByItsStep
  <1>4. Len(s) \in Nat /\ pc \in 1 .. Len(s) + 1 /\ DOMAIN s = 1 .. Len(s)
    BY <1>1, <1>2, StepsBuild, LenProperties DEF ServiceInv, ServiceType, Builds
  <1>5. i \in 1 .. Len(s)
    BY <1>4
  <1>6. cmd = "node" /\ i = Len(s)
    BY <1>1, <1>2, <1>3, <1>5, StepsBuild
  <1>7. pc - 1 = Len(s) /\ pc \notin 1 .. Len(s)
    BY <1>4, <1>5, <1>6
  <1>8. QED
    BY <1>2, <1>4, <1>6, <1>7

(* The task manager goes. *)
LEMMA Dropping ==
  ASSUME ServiceInv, DropTaskManager,
         UNCHANGED <<cmd, config, pc, networkStarted, voterKeys>>,
         service' \in {"starting", "running", "failed", "stopped"},
         service' = "failed" => ~networkStarted
  PROVE  ServiceInv'
  BY Dropped, NotBuilding DEF ServiceInv, ServiceType

(* The next step of the construction: its tasks are spawned. *)
LEMMA StepSucceedsInv == ServiceInv /\ StepSucceeds => ServiceInv'
  <1> SUFFICES ASSUME ServiceInv, StepSucceeds
               PROVE  ServiceInv'
    OBVIOUS
  <1> USE DEF ServiceInv
  <1>1. Steps' = Steps /\ cmd \in Commands /\ config \in Configuration
    BY StepsStay DEF StepSucceeds, ServiceType
  <1>2. PICK s : s = Steps
    OBVIOUS
  <1>3. s \in Seq(StepType)
    BY <1>1, <1>2, StepsBuild DEF Builds
  <1>4. Len(s) \in Nat /\ DOMAIN s = 1 .. Len(s)
    BY <1>3, LenProperties
  <1>5. pc \in 1 .. Len(s) /\ pc' = pc + 1
    BY <1>2, <1>4 DEF StepSucceeds
  <1>6. /\ task \in [Tasks -> {"absent", "running", "ended", "killed"}]
        /\ task' = [t \in Tasks |-> IF t \in s[pc].spawned THEN "running" ELSE task[t]]
    BY <1>2 DEF StepSucceeds, ServiceType
  <1>7. \A i : i \in 1 .. pc' - 1 <=> i \in 1 .. pc - 1 \/ i = pc
    BY <1>4, <1>5
  <1>8. ServiceType'
    <2>1. pc' \in 1 .. Len(s) + 1
      BY <1>4, <1>5
    <2>2. task' \in [Tasks -> {"absent", "running", "ended", "killed"}]
      BY <1>6
    <2>3. QED
      BY <1>1, <1>2, <2>1, <2>2 DEF ServiceType, StepSucceeds
  <1>9. SpawnedByItsStep'
    <2>1. ASSUME NEW t \in Tasks
          PROVE  task'[t] # "absent" <=> \E i \in 1 .. pc' - 1 : t \in s[i].spawned
      <3>1. task[t] # "absent" <=> \E i \in 1 .. pc - 1 : t \in s[i].spawned
        BY <1>2 DEF SpawnedByItsStep
      <3>2. task'[t] # "absent" <=> task[t] # "absent" \/ t \in s[pc].spawned
        BY <1>6
      <3>3. QED
        BY <1>7, <3>1, <3>2, Zenon
    <2>2. QED
      BY <1>1, <1>2, <2>1 DEF SpawnedByItsStep
  <1>10. StartedByItsStep'
    <2> SUFFICES ASSUME networkStarted'
                 PROVE  \E i \in 1 .. pc' - 1 : s[i].name = "start_network"
      BY <1>1, <1>2 DEF StartedByItsStep
    <2>1. networkStarted \/ s[pc].name = "start_network"
      BY <1>2, Zenon DEF StepSucceeds
    <2>2. networkStarted => \E i \in 1 .. pc - 1 : s[i].name = "start_network"
      BY <1>2 DEF StartedByItsStep
    <2>3. QED
      BY <1>7, <2>1, <2>2, Zenon
  <1>11. KeysOfAuthority'
    BY Zenon DEF StepSucceeds, GiveKeys, KeysOfAuthority
  <1>12. FailsUnconnected'
    BY DEF StepSucceeds, FailsUnconnected
  <1>13. QED
    BY <1>8, <1>9, <1>10, <1>11, <1>12

(* A task ends. *)
LEMMA TaskEndsInv ==
  ASSUME ServiceInv, NEW t \in Tasks, TaskEnds(t)
  PROVE  ServiceInv'
  <1>1. /\ task \in [Tasks -> {"absent", "running", "ended", "killed"}]
        /\ task[t] = "running"
        /\ task' = [task EXCEPT ![t] = "ended"]
        /\ UNCHANGED <<cmd, config, pc, service, networkStarted, voterKeys>>
        /\ service \in {"starting", "running", "failed", "stopped"}
    BY DEF TaskEnds, ServiceInv, ServiceType
  <1>2. /\ task' \in [Tasks -> {"absent", "running", "ended", "killed"}]
        /\ \A u \in Tasks : task'[u] = "absent" <=> task[u] = "absent"
    BY <1>1
  <1>3. service' = "failed" => ~networkStarted
    BY <1>1, Zenon DEF ServiceInv, FailsUnconnected
  <1>4. QED
    BY <1>1, <1>2, <1>3, NotBuilding

(* Every step keeps the invariant. *)
LEMMA NextService == ServiceInv /\ [Next]_vars => ServiceInv'
  <1> SUFFICES ASSUME ServiceInv, [Next]_vars
               PROVE  ServiceInv'
    OBVIOUS
  <1>1. CASE StepSucceeds
    BY <1>1, StepSucceedsInv
  <1>2. CASE StepFails
    <2>1. service' = "failed" /\ DropTaskManager /\ pc \in DOMAIN Steps
      BY <1>2 DEF StepFails
    <2>2. UNCHANGED <<cmd, config, pc, networkStarted, voterKeys>>
      BY <1>2 DEF StepFails
    <2>3. QED
      BY <2>1, <2>2, StartedLast, Dropping
  <1>3. CASE NotCompiledIn
    <2>1. UNCHANGED <<cmd, config, pc, task, networkStarted, voterKeys>>
      BY <1>3 DEF NotCompiledIn
    <2>2. service' = "failed" /\ cmd = "stub"
      BY <1>3 DEF NotCompiledIn
    <2>3. Len(Steps) = 0 /\ pc = 1
      BY <2>2, StepsBuild DEF ServiceInv, ServiceType
    <2>4. ~networkStarted
      BY <2>3 DEF ServiceInv, StartedByItsStep
    <2>5. QED
      BY <2>1, <2>2, <2>4, NotBuilding DEF ServiceInv, ServiceType
  <1>4. CASE Built
    <2>1. UNCHANGED <<cmd, config, pc, networkStarted, voterKeys>> /\ service' = "running"
      BY <1>4 DEF Built
    <2>2. CASE DropTaskManager
      BY <2>1, <2>2, Dropping
    <2>3. CASE task' = task
      BY <2>1, <2>3, NotBuilding DEF ServiceInv, ServiceType
    <2>4. QED
      BY <1>4, <2>2, <2>3 DEF Built
  <1>5. CASE \E t \in Tasks : TaskEnds(t)
    BY <1>5, TaskEndsInv
  <1>6. CASE Signal \/ UNCHANGED vars
    <2>1. UNCHANGED <<cmd, config, pc, service, task, networkStarted, voterKeys>>
      BY <1>6 DEF Signal, vars
    <2>2. service' = "failed" => ~networkStarted
      BY <2>1, Zenon DEF ServiceInv, FailsUnconnected
    <2>3. QED
      BY <2>1, <2>2, NotBuilding DEF ServiceInv, ServiceType
  <1>7. CASE TakeDown \/ CommandCompletes
    <2>1. UNCHANGED <<cmd, config, pc, networkStarted, voterKeys>>
      BY <1>7 DEF TakeDown, CommandCompletes
    <2>2. service' = "stopped" /\ DropTaskManager
      BY <1>7 DEF TakeDown, CommandCompletes
    <2>3. QED
      BY <2>1, <2>2, Dropping
  <1>8. QED
    BY <1>1, <1>2, <1>3, <1>4, <1>5, <1>6, <1>7 DEF Next

(* The invariant holds always: what is spawned is what the steps done so   *)
(* far spawn, whichever way the process comes to its end.                  *)
THEOREM ServiceInvariant == Spec => []ServiceInv
  BY InitService, NextService, PTL DEF Spec

------------------------------------------------------------------------------
(* The properties. *)

(* What has been spawned is among the tasks of the construction. *)
LEMMA SpawnedIsPlanned ==
  ASSUME ServiceInv, NEW t \in Tasks, Spawned(t)
  PROVE  t \in AllTasks
  <1>1. PICK s : s = Steps
    OBVIOUS
  <1>2. s \in Seq(StepType) /\ SpawnedBy(s) = AllTasks
    BY <1>1, StepsBuild DEF ServiceInv, ServiceType, Builds
  <1>3. Len(s) \in Nat /\ pc \in 1 .. Len(s) + 1
    BY <1>1, <1>2, LenProperties DEF ServiceInv, ServiceType
  <1>4. PICK i \in 1 .. pc - 1 : t \in s[i].spawned
    BY <1>1 DEF ServiceInv, SpawnedByItsStep, Spawned
  <1>5. i \in 1 .. Len(s)
    BY <1>3
  <1>6. QED
    BY <1>2, <1>4, <1>5 DEF SpawnedBy

(* Nothing authors, votes or joins the network unless the process was      *)
(* started for it, and only an authority's voter has the keys.             *)
THEOREM ConsensusAsConfigured == Spec => []ConsensusOnlyAsConfigured
  <1>1. ServiceInv => ConsensusOnlyAsConfigured
    <2> SUFFICES ASSUME ServiceInv
                 PROVE  ConsensusOnlyAsConfigured
      OBVIOUS
    <2>1. cmd \in Commands /\ config \in Configuration
      BY DEF ServiceInv, ServiceType
    <2>2. Spawned("aura") => cmd = "node" /\ config.authority
      <3>1. "aura" \in AllTasks => cmd = "node" /\ config.authority
        BY <2>1 DEF AllTasks, PartialTasks, NetworkTasks, ConsensusTasks, If, Commands
      <3>2. QED
        BY <3>1, SpawnedIsPlanned DEF Tasks
    <2>3. Spawned("grandpa-voter") => cmd = "node" /\ config.grandpa
      <3>1. "grandpa-voter" \in AllTasks => cmd = "node" /\ config.grandpa
        BY <2>1 DEF AllTasks, PartialTasks, NetworkTasks, ConsensusTasks, If, Commands
      <3>2. QED
        BY <3>1, SpawnedIsPlanned DEF Tasks
    <2>4. voterKeys => config.authority
      BY DEF ServiceInv, KeysOfAuthority
    <2>5. networkStarted => cmd = "node"
      BY StartedLast
    <2>6. QED
      BY <2>2, <2>3, <2>4, <2>5 DEF ConsensusOnlyAsConfigured
  <1>2. QED
    BY <1>1, ServiceInvariant, PTL

(* When the network starts, everything that handles what it delivers has   *)
(* been spawned, and the construction is not given up any more: its step   *)
(* is the last one, so all the others are done.                            *)
THEOREM TheNetworkStartsLast == Spec => []NetworkStartsLast
  <1>1. ServiceInv => NetworkStartsLast
    <2> SUFFICES ASSUME ServiceInv, networkStarted
                 PROVE  /\ service # "failed"
                        /\ \A t \in {"txpool-background", "import-queue", "network-worker", "rpc"} :
                             Spawned(t)
                        /\ config.authority => Spawned("aura")
                        /\ config.grandpa => Spawned("grandpa-voter")
      BY Zenon DEF NetworkStartsLast
    <2>1. cmd \in Commands /\ config \in Configuration
      BY DEF ServiceInv, ServiceType
    <2>2. PICK s : s = Steps
      OBVIOUS
    <2>3. cmd = "node" /\ Len(s) \in Nat /\ pc - 1 = Len(s)
      BY <2>2, StartedLast
    <2>4. ASSUME NEW t \in Tasks, t \in AllTasks
          PROVE  Spawned(t)
      <3>1. SpawnedBy(s) = AllTasks
        BY <2>1, <2>2, StepsBuild DEF Builds
      <3>2. PICK j \in 1 .. Len(s) : t \in s[j].spawned
        BY <2>4, <3>1 DEF SpawnedBy
      <3>3. QED
        BY <2>2, <2>3, <3>2 DEF ServiceInv, SpawnedByItsStep, Spawned
    <2>5. /\ {"txpool-background", "import-queue", "network-worker", "rpc"} \subseteq AllTasks
          /\ config.authority => "aura" \in AllTasks
          /\ config.grandpa => "grandpa-voter" \in AllTasks
      BY <2>3 DEF AllTasks, PartialTasks, NetworkTasks, ConsensusTasks, If
    <2>6. {"txpool-background", "import-queue", "network-worker", "rpc", "aura", "grandpa-voter"}
             \subseteq Tasks
      BY DEF Tasks
    <2>7. service # "failed"
      BY Zenon DEF ServiceInv, FailsUnconnected
    <2>8. QED
      BY <2>4, <2>5, <2>6, <2>7
  <1>2. QED
    BY <1>1, ServiceInvariant, PTL

==============================================================================
