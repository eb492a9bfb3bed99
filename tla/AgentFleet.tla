----------------------------- MODULE AgentFleet -----------------------------
(***************************************************************************)
(* The V2 agents and the two registries of the control plane.              *)
(*                                                                         *)
(* An agent (services/v2_agent/agent.py) registers once when it is started *)
(* and then sends heartbeats in a loop, over HTTP to the agents router     *)
(* (control_plane/api/v1/agents.py) or over gRPC with mutual TLS to the    *)
(* gRPC server (grpc_client.py, grpc_server.py); which of the two is fixed *)
(* when it is made.  Both registries are dictionaries of their processes.  *)
(* The router refuses heartbeats of agents it does not know, the gRPC      *)
(* server takes a heartbeat for a registration.                            *)
(*                                                                         *)
(* HTTP requests are in flight until they are delivered or lost; the agent *)
(* goes on when it has the answer, an error or its timeout, and they are   *)
(* the same to it.  A gRPC call is a step, which may fail before or after  *)
(* it has reached the server.                                              *)
(***************************************************************************)
EXTENDS CertKit

CONSTANTS
  Agent,      \* the agents, processes of their own
  Server,     \* the process of the gRPC server
  MaxFaults,  \* bound: how many deaths, deletions and failing calls
  MaxStops    \* bound: how many calls of stop()

ASSUME FleetAssumption ==
  /\ Server \notin Agent
  /\ Proc = Agent \cup {Server}
  /\ MaxFaults \in Nat /\ MaxStops \in Nat

VARIABLES
  overGrpc,   \* the agents that use gRPC
  phase,      \* off, starting, answered (gRPC: its registration is), on
  loop,       \* the agents whose heartbeat loop runs
  client,     \* the agents whose HTTP client is open
  net,        \* the HTTP requests in flight
  registry,   \* the agents the router knows
  grpcRegistry,  \* the agents the gRPC server knows
  stopped,    \* history: the agents stop() was called on, since start()
  crossed,    \* history: those of them that were starting then
  excused,    \* history: agents the router forgot, or never heard of
  faults, stops

fleetVars == <<phase, loop, client, net, registry, grpcRegistry, stopped, crossed, excused>>

vars == <<kitVars, overGrpc, fleetVars, faults, stops>>

Message == [what : {"register", "beat"}, agent : Agent]

TypeOK ==
  /\ KitTypeOK
  /\ overGrpc \subseteq Agent
  /\ phase \in [Agent -> {"off", "starting", "answered", "on"}]
  /\ loop \subseteq Agent /\ client \subseteq Agent
  /\ net \subseteq Message
  /\ registry \subseteq Agent /\ grpcRegistry \subseteq Agent
  /\ crossed \subseteq stopped /\ stopped \subseteq Agent /\ excused \subseteq Agent
  /\ faults \in 0..MaxFaults /\ stops \in 0..MaxStops

Init ==
  /\ KitInit
  /\ overGrpc \in SUBSET Agent
  /\ phase = [a \in Agent |-> "off"]
  /\ loop = {} /\ client = {} /\ net = {}
  /\ registry = {} /\ grpcRegistry = {}
  /\ stopped = {} /\ crossed = {} /\ excused = {}
  /\ faults = 0 /\ stops = 0

----------------------------------------------------------------------------
Msg(what, a) == [what |-> what, agent |-> a]

Enters(a, stage) == phase' = [phase EXCEPT ![a] = stage]

Fault == faults < MaxFaults /\ faults' = faults + 1 /\ UNCHANGED <<overGrpc, stops>>

NoFault == UNCHANGED <<overGrpc, faults, stops>>

(* The agent has no channel, and its loop or its start opens one.          *)
Connect(a) == at[a] = "off" /\ Enter(a)

----------------------------------------------------------------------------
(* start(): a new client, and the registration is sent.  start() and      *)
(* stop() are not called on an agent that is starting, except stop() once. *)
Start(a) ==
  /\ phase[a] = "off" /\ at[a] \in {"off", "up"}
  /\ Enters(a, "starting")
  /\ stopped' = stopped \ {a} /\ crossed' = crossed \ {a}
  /\ IF a \in overGrpc
       THEN Enter(a) /\ UNCHANGED <<client, net, excused>>
       ELSE /\ client' = client \cup {a}
            /\ net' = net \cup {Msg("register", a)}
            /\ excused' = excused \ {a}
            /\ UNCHANGED kitVars
  /\ UNCHANGED <<loop, registry, grpcRegistry>>
  /\ NoFault

(* _register over gRPC: the answer arrives, or the call has reached the    *)
(* server and fails.  A call that fails makes start() raise.               *)
Reaches(a) == a \in overGrpc /\ Handshake(a, Server)

RegisterRpc(a) ==
  /\ phase[a] = "starting" /\ Reaches(a)
  /\ grpcRegistry' = grpcRegistry \cup {a}
  /\ Enters(a, "answered")
  /\ UNCHANGED <<kitVars, loop, client, net, registry, stopped, crossed, excused>>
  /\ NoFault

RegisterRpcFails(a) ==
  /\ phase[a] = "starting" /\ a \in overGrpc /\ at[a] = "up"
  /\ \/ grpcRegistry' = grpcRegistry
     \/ Reaches(a) /\ grpcRegistry' = grpcRegistry \cup {a}
  /\ Enters(a, "off")
  /\ UNCHANGED <<kitVars, loop, client, net, registry, stopped, crossed, excused>>
  /\ Fault

(* start() goes on after _register: over HTTP whatever became of it, as    *)
(* every failure is caught and logged there.                               *)
Continue(a) ==
  /\ phase[a] = "answered" \/ (phase[a] = "starting" /\ a \notin overGrpc)
  /\ Enters(a, "on")
  /\ loop' = loop \cup {a}
  /\ UNCHANGED <<kitVars, client, net, registry, grpcRegistry, stopped, crossed, excused>>
  /\ NoFault

----------------------------------------------------------------------------
(* One round of _heartbeat_loop; what fails in it is caught and logged.    *)
BeatHttp(a) ==
  /\ a \in loop /\ a \notin overGrpc /\ a \in client
  /\ net' = net \cup {Msg("beat", a)}
  /\ UNCHANGED <<kitVars, phase, loop, client, registry, grpcRegistry, stopped, crossed, excused>>
  /\ NoFault

BeatConnects(a) ==
  /\ a \in loop /\ a \in overGrpc
  /\ Connect(a)
  /\ UNCHANGED fleetVars
  /\ NoFault

(* Mutant of BeatGrpc: the server keeps to what Register told it.          *)
BeatGrpcKnown(a) ==
  /\ a \in loop /\ Reaches(a)
  /\ grpcRegistry' = grpcRegistry
  /\ UNCHANGED <<kitVars, phase, loop, client, net, registry, stopped, crossed, excused>>
  /\ NoFault

(* Heartbeat of the gRPC server sets the entry, known or not.              *)
BeatGrpc(a) ==
  /\ a \in loop /\ Reaches(a)
  /\ grpcRegistry' = grpcRegistry \cup {a}
  /\ UNCHANGED <<kitVars, phase, loop, client, net, registry, stopped, crossed, excused>>
  /\ NoFault

(* Mutant of Stop: the HTTP client stays open.                             *)
StopLeavesClient(a) ==
  /\ phase[a] # "off" /\ a \notin stopped /\ at[a] \in {"off", "up"}
  /\ stops < MaxStops /\ stops' = stops + 1
  /\ loop' = loop \ {a}
  /\ client' = client
  /\ stopped' = stopped \cup {a}
  /\ crossed' = IF phase[a] = "on" THEN crossed ELSE crossed \cup {a}
  /\ IF a \in overGrpc /\ at[a] = "up" THEN Quit(a) ELSE UNCHANGED kitVars
  /\ IF phase[a] = "on" \/ (phase[a] = "starting" /\ a \in overGrpc)
       THEN Enters(a, "off") ELSE UNCHANGED phase
  /\ \/ grpcRegistry' = grpcRegistry
     \/ phase[a] = "starting" /\ Reaches(a) /\ grpcRegistry' = grpcRegistry \cup {a}
  /\ UNCHANGED <<net, registry, excused, overGrpc, faults>>

(* stop(): the loop, if there is one yet, is cancelled, and the client     *)
(* closed.  A start() that is waiting for its registration is not told: over *)
(* gRPC the call is cancelled and start() raises, unless it was answered   *)
(* already; over HTTP, or then, start() goes on.                           *)
Stop(a) ==
  /\ phase[a] # "off" /\ a \notin stopped /\ at[a] \in {"off", "up"}
  /\ stops < MaxStops /\ stops' = stops + 1
  /\ loop' = loop \ {a}
  /\ client' = client \ {a}
  /\ stopped' = stopped \cup {a}
  /\ crossed' = IF phase[a] = "on" THEN crossed ELSE crossed \cup {a}
  /\ IF a \in overGrpc /\ at[a] = "up" THEN Quit(a) ELSE UNCHANGED kitVars
  /\ IF phase[a] = "on" \/ (phase[a] = "starting" /\ a \in overGrpc)
       THEN Enters(a, "off") ELSE UNCHANGED phase
  /\ \/ grpcRegistry' = grpcRegistry
     \/ phase[a] = "starting" /\ Reaches(a) /\ grpcRegistry' = grpcRegistry \cup {a}
  /\ UNCHANGED <<net, registry, excused, overGrpc, faults>>

(* The agent's process dies, wherever it is.                               *)
AgentDies(a) ==
  /\ phase[a] # "off"
  /\ Enters(a, "off")
  /\ loop' = loop \ {a} /\ client' = client \ {a}
  /\ stopped' = stopped \ {a} /\ crossed' = crossed \ {a}
  /\ IF at[a] # "off" THEN Quit(a) ELSE UNCHANGED kitVars
  /\ UNCHANGED <<net, registry, grpcRegistry, excused>>
  /\ Fault

(* _connect of an agent, up to the channel; when the kit cannot be made it *)
(* raises, which ends a start() and is caught in the loop.                 *)
ConnectStep(a) ==
  /\ KitStep(a)
  /\ IF at'[a] = "off" /\ phase[a] = "starting" THEN Enters(a, "off") ELSE UNCHANGED phase
  /\ UNCHANGED <<loop, client, net, registry, grpcRegistry, stopped, crossed, excused>>
  /\ NoFault

----------------------------------------------------------------------------
(* Mutant of Deliver: the request is stored, not the agent's id.           *)
DeliverWhole(m) ==
  /\ m \in net
  /\ net' = net \ {m}
  /\ registry' = IF m.what = "register" THEN registry \cup {m} ELSE registry
  /\ UNCHANGED <<kitVars, phase, loop, client, grpcRegistry, stopped, crossed, excused>>
  /\ NoFault

(* Mutant of Deliver: a second registration takes the entry out.           *)
DeliverToggling(m) ==
  /\ m \in net
  /\ net' = net \ {m}
  /\ registry' = IF m.what # "register" THEN registry
                 ELSE IF m.agent \in registry THEN registry \ {m.agent}
                 ELSE registry \cup {m.agent}
  /\ UNCHANGED <<kitVars, phase, loop, client, grpcRegistry, stopped, crossed, excused>>
  /\ NoFault

(* The router: a registration makes the entry, or is answered 409 when     *)
(* there is one; a heartbeat updates the entry, or is answered 404.        *)
Deliver(m) ==
  /\ m \in net
  /\ net' = net \ {m}
  /\ registry' = IF m.what = "register" THEN registry \cup {m.agent} ELSE registry
  /\ UNCHANGED <<kitVars, phase, loop, client, grpcRegistry, stopped, crossed, excused>>
  /\ NoFault

Lose(m) ==
  /\ m \in net
  /\ net' = net \ {m}
  /\ excused' = IF m.what = "register" THEN excused \cup {m.agent} ELSE excused
  /\ UNCHANGED <<kitVars, phase, loop, client, registry, grpcRegistry, stopped, crossed>>
  /\ Fault

(* DELETE /agents/{id}, or the control plane's process is replaced.        *)
Forget(S) ==
  /\ S \cap registry # {}
  /\ registry' = registry \ S
  /\ excused' = excused \cup S
  /\ UNCHANGED <<kitVars, phase, loop, client, net, grpcRegistry, stopped, crossed>>
  /\ Fault

----------------------------------------------------------------------------
(* GRPCAgentServer.start, stop, and the death of its process.  The         *)
(* dictionary belongs to the class: stop() leaves it.                      *)
ServerStarts ==
  /\ at[Server] = "off"
  /\ Enter(Server)
  /\ UNCHANGED fleetVars
  /\ NoFault

ServerStep ==
  /\ KitStep(Server)
  /\ UNCHANGED fleetVars
  /\ NoFault

ServerEnds ==
  /\ Quit(Server)
  /\ \/ at[Server] = "up" /\ grpcRegistry' = grpcRegistry
     \/ grpcRegistry' = {}
  /\ UNCHANGED <<phase, loop, client, net, registry, stopped, crossed, excused>>
  /\ Fault

AgentStep(a) ==
  \/ RegisterRpc(a) \/ RegisterRpcFails(a) \/ Continue(a) \/ ConnectStep(a)
  \/ BeatHttp(a) \/ BeatConnects(a) \/ BeatGrpc(a)

Next ==
  \/ \E a \in Agent : Start(a) \/ Stop(a) \/ AgentDies(a) \/ AgentStep(a)
  \/ \E m \in Message : Deliver(m) \/ Lose(m)
  \/ \E S \in {Agent} \cup {{a} : a \in Agent} : Forget(S)
  \/ ServerStarts \/ ServerStep \/ ServerEnds

Spec == Init /\ [][Next]_vars

(* A loop comes round again every 30 seconds, and not every one of its     *)
(* calls fails; a process that is starting does not pause for ever.        *)
FairSpec ==
  /\ Spec
  /\ \A a \in Agent : WF_vars(BeatConnects(a)) /\ WF_vars(BeatGrpc(a)) /\ WF_vars(ConnectStep(a))

----------------------------------------------------------------------------
(* An agent whose loop runs and the router does not know has its           *)
(* registration still in flight, or it was lost, or the control plane      *)
(* forgot it since (V2Agent.start registers once and never again).         *)
UnknownIsExcused ==
  \A a \in loop \ (overGrpc \cup registry) :
    a \in excused \/ Msg("register", a) \in net

(* After stop() nothing new leaves an agent until it is started again,     *)
(* even if stop() overlapped a start() that went on after it: over gRPC    *)
(* that holds only without the overlap, as a heartbeat opens the channel   *)
(* again (V2Agent.start and stop).                                         *)
SpeaksUp(a) ==
  \/ Msg("beat", a) \in net' \ net
  \/ a \in grpcRegistry' \ grpcRegistry
  \/ a \in overGrpc /\ at[a] = "off" /\ at'[a] = "check"

SilentAfterStop ==
  [][\A a \in stopped \cap stopped' : SpeaksUp(a) => a \in overGrpc \cap crossed]_vars

(* The gRPC registry heals: an agent whose loop runs is registered again   *)
(* after every restart of the server, without a registration of its own,   *)
(* unless the kit was created twice at a time or left unreadable           *)
(* (AgentServiceServicer.Heartbeat).                                       *)
Unusable == overlapped \/ \E o \in Owner : disk[o].key = Torn

Recovers ==
  \A a \in Agent :
    a \in loop \cap overGrpc /\ at[Server] = "up"
      ~> \/ a \in grpcRegistry \/ a \notin loop
         \/ at[Server] # "up" \/ Unusable
=============================================================================
