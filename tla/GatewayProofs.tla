---------------------------- MODULE GatewayProofs ----------------------------
(***************************************************************************)
(* Theorems about Gateway, for any users, threads and ports.               *)
(***************************************************************************)
EXTENDS Gateway, TLAPS

\* No two users have the same port, and only users have one.
PortsDistinct ==
  /\ \A u, v \in Users : live_port[u] # NoPort /\ live_port[u] = live_port[v] => u = v
  /\ \A u \in Users : live_port[u] # NoPort => u \in users

\* Whatever belongs to a user who is gone is idle.
InUseByUsers ==
  /\ \A t \in Threads : request[t] # Idle => User(t) \in users
  /\ \A u \in Users : gateway[u] # Stopped => u \in users
  /\ \A u \in executor : gateway[u] # Stopped

\* A request that is about to insert has picked a port.
PortsPicked == \A t \in Threads : At(t, "insert") => request[t].port # NoPort

\* A request that is about to write the config file has the port of its user.
PortsHanded ==
  \A t \in Threads :
    At(t, "config") => request[t].port # NoPort /\ request[t].port = live_port[User(t)]

\* Files and Gateways of users have no port but the user's, and no Gateway
\* listens without one.
OwnPorts ==
  \A u \in Users :
    /\ u \in users => config[u] \in {NoPort, live_port[u]}
    /\ gateway[u].port \in {NoPort, live_port[u]}
    /\ Listening(u) => gateway[u].port # NoPort

\* What holds of any admin, and what of a careful one.
IInv == TypeOK /\ PortsDistinct /\ PortsPicked
CarefulInv == IInv /\ InUseByUsers /\ PortsHanded /\ OwnPorts

-----------------------------------------------------------------------------
\* A request under way is no idle thread, and a Gateway that runs no stopped one.
LEMMA Kinds ==
  /\ Idle \notin Request
  /\ \A port : [state |-> "login", port |-> port] # Stopped
  /\ \A port : [state |-> "up", port |-> port] # Stopped
BY DEF Idle, Request, Ops, Stopped

\* What a handler does to its own request keeps requests what they are.
LEMMA RequestsStay ==
  ASSUME ConstantsAssumption, TypeOK, NEW t \in Threads, request[t] # Idle
  PROVE  /\ Answer(t) => request' \in [Threads -> Request \union {Idle}]
         /\ \A step \in Steps : GoOn(t, step) => request' \in [Threads -> Request \union {Idle}]
         /\ \A port \in Ports : HasPort(t, port) => request' \in [Threads -> Request \union {Idle}]
<1>1. request \in [Threads -> Request \union {Idle}] /\ request[t] \in Request
  BY DEF TypeOK
<1>2. ASSUME Answer(t) PROVE request' \in [Threads -> Request \union {Idle}]
  BY <1>1, <1>2 DEF Answer
<1>3. ASSUME NEW step \in Steps, GoOn(t, step)
      PROVE  request' \in [Threads -> Request \union {Idle}]
  <2>1. [request[t] EXCEPT !.at = step] \in Request
    BY <1>1 DEF Request
  <2> QED
    BY <1>1, <1>3, <2>1 DEF GoOn
<1>4. ASSUME NEW port \in Ports, HasPort(t, port)
      PROVE  request' \in [Threads -> Request \union {Idle}]
  <2>1. [request[t] EXCEPT !.port = port, !.at = "config"] \in Request
    BY <1>1 DEF Request, Steps
  <2> QED
    BY <1>1, <1>4, <2>1 DEF HasPort
<1> QED
  BY <1>2, <1>3, <1>4

\* What a handler's request becomes: nothing else, and of itself only at and port.
LEMMA RequestBecomes ==
  ASSUME ConstantsAssumption, TypeOK, NEW t \in Threads, request[t] # Idle
  PROVE  /\ \A s \in Threads \ {t} :
              /\ Answer(t) => request'[s] = request[s]
              /\ \A step : GoOn(t, step) => request'[s] = request[s]
              /\ \A port : HasPort(t, port) => request'[s] = request[s]
         /\ Answer(t) => request'[t] = Idle
         /\ \A step : GoOn(t, step) =>
              /\ request'[t].user = request[t].user /\ request'[t].at = step
              /\ request'[t].port = request[t].port
         /\ \A port : HasPort(t, port) =>
              \/ request'[t] = Idle
              \/ /\ request'[t].user = request[t].user /\ request'[t].at = "config"
                 /\ request'[t].port = port
<1>1. request \in [Threads -> Request \union {Idle}] /\ request[t] \in Request
  BY DEF TypeOK
<1>2. \A step : GoOn(t, step) => request' = [request EXCEPT ![t] = [request[t] EXCEPT !.at = step]]
  BY <1>1 DEF GoOn
<1>3. \A port : HasPort(t, port) =>
        request' = [request EXCEPT ![t] =
          IF request[t].op = "connect" THEN [request[t] EXCEPT !.port = port, !.at = "config"]
                                       ELSE Idle]
  BY <1>1 DEF HasPort
<1>4. \A step : /\ [request[t] EXCEPT !.at = step].user = request[t].user
                /\ [request[t] EXCEPT !.at = step].at = step
                /\ [request[t] EXCEPT !.at = step].port = request[t].port
  BY <1>1 DEF Request
<1>5. \A port : /\ [request[t] EXCEPT !.port = port, !.at = "config"].user = request[t].user
                /\ [request[t] EXCEPT !.port = port, !.at = "config"].at = "config"
                /\ [request[t] EXCEPT !.port = port, !.at = "config"].port = port
  BY <1>1 DEF Request
<1>6. ASSUME Answer(t)
      PROVE  request'[t] = Idle /\ \A s \in Threads \ {t} : request'[s] = request[s]
  BY <1>1, <1>6 DEF Answer
<1>7. ASSUME NEW step, GoOn(t, step)
      PROVE  /\ \A s \in Threads \ {t} : request'[s] = request[s]
             /\ request'[t].user = request[t].user /\ request'[t].at = step
             /\ request'[t].port = request[t].port
  <2> DEFINE r == [request[t] EXCEPT !.at = step]
  <2>1. request' = [request EXCEPT ![t] = r]
    BY <1>2, <1>7
  <2>2. r.user = request[t].user /\ r.at = step /\ r.port = request[t].port
    BY <1>4
  <2> HIDE DEF r
  <2> QED
    BY <1>1, <2>1, <2>2
<1>8. ASSUME NEW port, HasPort(t, port)
      PROVE  /\ \A s \in Threads \ {t} : request'[s] = request[s]
             /\ \/ request'[t] = Idle
                \/ /\ request'[t].user = request[t].user /\ request'[t].at = "config"
                   /\ request'[t].port = port
  <2> DEFINE r == [request[t] EXCEPT !.port = port, !.at = "config"]
  <2>1. \/ request' = [request EXCEPT ![t] = r]
        \/ request' = [request EXCEPT ![t] = Idle]
    BY <1>3, <1>8
  <2>2. r.user = request[t].user /\ r.at = "config" /\ r.port = port
    BY <1>5
  <2> HIDE DEF r
  <2> QED
    BY <1>1, <2>1, <2>2
<1> QED
  BY <1>6, <1>7, <1>8

\* The tables and the request after an insert.
LEMMA InsertStep ==
  ASSUME ConstantsAssumption, TypeOK, NEW t \in Threads, InsertPort(t),
         request[t].port # NoPort
  PROVE  /\ User(t) \in users /\ live_port[User(t)] = NoPort
         /\ request[t].port \in Ports \ PortsTaken
         /\ live_port' = [live_port EXCEPT ![User(t)] = request[t].port]
         /\ HasPort(t, request[t].port)
         /\ UNCHANGED <<users, credentials, connected, config, gateway, executor>>
<1>1. request[t] \in Request
  BY DEF InsertPort, At, TypeOK
<1> QED
  BY <1>1 DEF InsertPort, Insertable, Request, systemd

\* Every step keeps the type invariant.
LEMMA TypeStep ==
  ASSUME ConstantsAssumption, TypeOK, PortsPicked, [Next]_vars
  PROVE  TypeOK'
<1> USE DEF tables, systemd
<1>1. /\ users \subseteq Users /\ credentials \subseteq users /\ connected \subseteq users
      /\ live_port \in [Users -> Ports \union {NoPort}]
      /\ config \in [Users -> Ports \union {NoPort}]
      /\ gateway \in [Users -> [state : UnitStates, port : Ports \union {NoPort}]]
      /\ executor \subseteq Users
      /\ request \in [Threads -> Request \union {Idle}]
  BY DEF TypeOK
<1>2. CASE UNCHANGED vars
  BY <1>1, <1>2 DEF vars, TypeOK
<1>3. ASSUME NEW t \in Threads, NEW op \in Ops, NEW u \in Users, Ask(t, op, u)
      PROVE  TypeOK'
  <2> DEFINE r == [op |-> op, user |-> u, at |-> FirstStep(op), port |-> NoPort]
  <2>1. r \in Request
    BY DEF Request, FirstStep, Steps, Ops
  <2>2. request' = [request EXCEPT ![t] = r]
    BY <1>3 DEF Ask
  <2> HIDE DEF r
  <2> QED
    BY <1>1, <1>3, <2>1, <2>2 DEF Ask, TypeOK
<1>4. ASSUME NEW u \in Users, SaveCredentials(u) \/ DeleteUser(u)
      PROVE  TypeOK'
  BY <1>1, <1>4 DEF SaveCredentials, DeleteUser, TypeOK
<1> DEFINE Gateways == [Users -> [state : UnitStates, port : Ports \union {NoPort}]]
<1>5. ASSUME NEW u \in Users
      PROVE  /\ gateway' = [gateway EXCEPT ![u] = [state |-> "login", port |-> config[u]]]
                  => gateway' \in Gateways
             /\ gateway' = [gateway EXCEPT ![u].state = "up"] => gateway' \in Gateways
             /\ gateway' = [gateway EXCEPT ![u] = Stopped] => gateway' \in Gateways
             /\ gateway' = Started(u) => gateway' \in Gateways
  <2>1. ASSUME gateway' = [gateway EXCEPT ![u] = [state |-> "login", port |-> config[u]]]
        PROVE  gateway' \in Gateways
    BY <1>1, <2>1 DEF UnitStates
  <2>2. ASSUME gateway' = [gateway EXCEPT ![u].state = "up"]
        PROVE  gateway' \in Gateways
    BY <1>1, <2>2 DEF UnitStates
  <2>3. ASSUME gateway' = [gateway EXCEPT ![u] = Stopped]
        PROVE  gateway' \in Gateways
    BY <1>1, <2>3 DEF UnitStates, Stopped
  <2> HIDE DEF Gateways
  <2>4. ASSUME gateway' = Started(u)
        PROVE  gateway' \in Gateways
    <3>1. gateway \in Gateways
      BY <1>1 DEF Gateways
    <3> QED
      BY <2>1, <2>4, <3>1 DEF Started
  <2> QED
    BY <2>1, <2>2, <2>3, <2>4
<1>6. ASSUME NEW u \in Users, LogsIn(u) \/ Restarts(u)
      PROVE  TypeOK'
  <2>1. gateway' \in Gateways
    <3> HIDE DEF Gateways
    <3> QED
      BY <1>5, <1>6 DEF LogsIn, Restarts
  <2> QED
    BY <1>1, <1>6, <2>1 DEF LogsIn, Restarts, TypeOK
<1>7. ASSUME NEW t \in Threads, HandlerStep(t)
      PROVE  TypeOK'
  <2>1. request[t] # Idle
    BY <1>7 DEF HandlerStep, LookPort, PickPort, InsertPort, InsertFails, WriteConfig, StartGateway,
       SetConnected, StartExecutor, StopExecutor, StopGateway, ClearConnected, SystemctlFails, At
  <2>2. request[t] \in Request /\ User(t) \in Users /\ request[t].port \in Ports \union {NoPort}
    BY <1>1, <2>1 DEF Request, User
  <2>3. /\ Answer(t) => request' \in [Threads -> Request \union {Idle}]
        /\ \A step \in Steps : GoOn(t, step) => request' \in [Threads -> Request \union {Idle}]
        /\ \A step \in Steps : GoOnInTime(t, step) => request' \in [Threads -> Request \union {Idle}]
        /\ \A port \in Ports : HasPort(t, port) => request' \in [Threads -> Request \union {Idle}]
    BY <2>1, RequestsStay DEF GoOnInTime
  <2>4. CASE LookPort(t)
    BY <1>1, <2>2, <2>3, <2>4 DEF LookPort, TypeOK, Steps
  <2>5. CASE PickPort(t)
    <3>1. PICK port \in Ports : request' = [request EXCEPT ![t].port = port, ![t].at = "insert"]
      BY <2>5 DEF PickPort
    <3>2. [request[t] EXCEPT !.port = port, !.at = "insert"] \in Request
      BY <2>2 DEF Request, Steps
    <3>3. request' \in [Threads -> Request \union {Idle}]
      BY <1>1, <3>1, <3>2
    <3> QED
      BY <1>1, <2>5, <3>3 DEF PickPort, TypeOK
  <2>6. CASE InsertPort(t)
    <3>1. request[t].port # NoPort
      BY <2>6 DEF PortsPicked, InsertPort
    <3> QED
      BY <1>1, <2>2, <2>3, <2>6, <3>1, InsertStep DEF TypeOK
  <2>7. CASE InsertFails(t) \/ SystemctlFails(t)
    BY <1>1, <2>3, <2>7 DEF InsertFails, SystemctlFails, TypeOK
  <2>8. CASE WriteConfig(t)
    BY <1>1, <2>2, <2>3, <2>8 DEF WriteConfig, TypeOK, Steps
  <2>9. CASE StartGateway(t) \/ StartExecutor(t)
    <3>1. gateway' \in Gateways
      <4> HIDE DEF Gateways
      <4> QED
        BY <1>5, <2>2, <2>9 DEF StartGateway, StartExecutor
    <3>2. request' \in [Threads -> Request \union {Idle}]
      BY <2>3, <2>9 DEF StartGateway, StartExecutor, Steps
    <3> QED
      BY <1>1, <2>2, <2>9, <3>1, <3>2 DEF StartGateway, StartExecutor, TypeOK
  <2>10. CASE SetConnected(t) \/ ClearConnected(t)
    BY <1>1, <2>3, <2>10 DEF SetConnected, ClearConnected, TypeOK
  <2>11. CASE StopExecutor(t) \/ StopGateway(t)
    <3>1. gateway' \in Gateways
      <4>1. gateway \in Gateways
        BY <1>1
      <4> HIDE DEF Gateways
      <4> QED
        BY <1>5, <2>2, <2>11, <4>1 DEF StopExecutor, StopGateway
    <3>2. request' \in [Threads -> Request \union {Idle}]
      BY <2>3, <2>11 DEF StopExecutor, StopGateway, Steps
    <3> QED
      BY <1>1, <2>11, <3>1, <3>2 DEF StopExecutor, StopGateway, TypeOK
  <2> QED
    BY <1>7, <2>4, <2>5, <2>6, <2>7, <2>8, <2>9, <2>10, <2>11 DEF HandlerStep
<1> QED
  BY <1>2, <1>3, <1>4, <1>6, <1>7 DEF Next

\* An insert has picked its port, whoever interleaves.
LEMMA PickedStep ==
  ASSUME ConstantsAssumption, TypeOK, PortsPicked, [Next]_vars
  PROVE  PortsPicked'
<1> USE DEF PortsPicked, At
<1>1. request \in [Threads -> Request \union {Idle}]
  BY DEF TypeOK
<1>2. CASE UNCHANGED request
  BY <1>2
<1>3. ASSUME NEW t \in Threads, NEW op \in Ops, NEW u \in Users, Ask(t, op, u)
      PROVE  PortsPicked'
  <2> DEFINE r == [op |-> op, user |-> u, at |-> FirstStep(op), port |-> NoPort]
  <2>1. r.at # "insert"
    BY DEF FirstStep, Ops
  <2>2. request' = [request EXCEPT ![t] = r]
    BY <1>3 DEF Ask
  <2> HIDE DEF r
  <2> QED
    BY <1>1, <2>1, <2>2
<1>4. ASSUME NEW t \in Threads, HandlerStep(t)
      PROVE  PortsPicked'
  <2>1. request[t] # Idle
    BY <1>4 DEF HandlerStep, LookPort, PickPort, InsertPort, InsertFails, WriteConfig, StartGateway,
       SetConnected, StartExecutor, StopExecutor, StopGateway, ClearConnected, SystemctlFails
  <2>2. /\ Answer(t) => PortsPicked'
        /\ \A step \in Steps \ {"insert"} : GoOn(t, step) => PortsPicked'
        /\ \A port : HasPort(t, port) => PortsPicked'
    BY <2>1, RequestBecomes
  <2>3. CASE PickPort(t)
    <3>1. PICK port \in Ports : request' = [request EXCEPT ![t].port = port, ![t].at = "insert"]
      BY <2>3 DEF PickPort
    <3>2. port # NoPort
      BY <3>1 DEF Ports, NoPort, ConstantsAssumption
    <3>3. request[t] \in Request
      BY <1>1, <2>1
    <3>4. request'[t].port = port
      BY <1>1, <3>1, <3>3 DEF Request
    <3> QED
      BY <1>1, <3>1, <3>2, <3>4
  <2>4. CASE ~PickPort(t)
    <3>1. \/ Answer(t) \/ \E port : HasPort(t, port)
          \/ \E step \in Steps \ {"insert"} : GoOn(t, step)
      BY <1>4, <2>4 DEF HandlerStep, LookPort, InsertPort, InsertFails, WriteConfig, StartGateway,
         SetConnected, StartExecutor, StopExecutor, StopGateway, ClearConnected, SystemctlFails,
         GoOnInTime, Steps
    <3> QED
      BY <2>2, <3>1
  <2> QED
    BY <2>3, <2>4
<1>5. ASSUME NEW u \in Users, SaveCredentials(u) \/ DeleteUser(u) \/ LogsIn(u) \/ Restarts(u)
      PROVE  PortsPicked'
  BY <1>2, <1>5 DEF SaveCredentials, DeleteUser, LogsIn, Restarts
<1> QED
  BY <1>2, <1>3, <1>4, <1>5 DEF Next, vars

\* The table user_gateway and the users change in these ways only.
LEMMA TableStep ==
  ASSUME ConstantsAssumption, IInv, [Next]_vars
  PROVE  \/ UNCHANGED <<live_port, users>>
         \/ \E u \in Users : DeleteUser(u)
         \/ \E t \in Threads : InsertPort(t) /\ request[t].port # NoPort
<1>1. \A t \in Threads : InsertPort(t) => request[t].port # NoPort
  BY DEF IInv, PortsPicked, InsertPort
<1>2. \A t \in Threads : \A op, u : Ask(t, op, u) => UNCHANGED <<live_port, users>>
  BY DEF Ask, tables
<1>3. \A t \in Threads : HandlerStep(t) => InsertPort(t) \/ UNCHANGED <<live_port, users>>
  BY DEF HandlerStep, LookPort, PickPort, InsertFails, WriteConfig, StartGateway,
     SetConnected, StartExecutor, StopExecutor, StopGateway, ClearConnected, SystemctlFails, tables
<1>4. \A u \in Users : SaveCredentials(u) \/ LogsIn(u) \/ Restarts(u) => UNCHANGED <<live_port, users>>
  BY DEF SaveCredentials, LogsIn, Restarts, tables
<1>5. UNCHANGED vars => UNCHANGED <<live_port, users>>
  BY DEF vars, tables
<1> QED
  BY <1>1, <1>2, <1>3, <1>4, <1>5 DEF Next

\* Ports stay distinct.
LEMMA DistinctStep ==
  ASSUME ConstantsAssumption, IInv, [Next]_vars
  PROVE  PortsDistinct'
<1>1. live_port \in [Users -> Ports \union {NoPort}] /\ PortsDistinct /\ TypeOK
  BY DEF IInv, TypeOK
<1>2. CASE UNCHANGED <<live_port, users>>
  BY <1>1, <1>2 DEF PortsDistinct
<1>3. ASSUME NEW u \in Users, DeleteUser(u)
      PROVE  PortsDistinct'
  BY <1>1, <1>3 DEF PortsDistinct, DeleteUser
<1>4. ASSUME NEW t \in Threads, InsertPort(t), request[t].port # NoPort
      PROVE  PortsDistinct'
  <2> DEFINE port == request[t].port
             u == User(t)
  <2>1. /\ u \in users /\ port \in Ports \ PortsTaken /\ users' = users
        /\ live_port' = [live_port EXCEPT ![u] = port]
    BY <1>1, <1>4, InsertStep
  <2>2. \A v \in Users : live_port[v] # port
    BY <1>4, <2>1 DEF PortsTaken
  <2> HIDE DEF port, u
  <2> QED
    BY <1>1, <2>1, <2>2 DEF PortsDistinct
<1> QED
  BY <1>2, <1>3, <1>4, TableStep

-----------------------------------------------------------------------------
(* With a careful admin.                                                   *)

\* A handler leaves the other threads alone and its own request with its user.
LEMMA HandlerKeepsUser ==
  ASSUME ConstantsAssumption, TypeOK, NEW t \in Threads, HandlerStep(t)
  PROVE  /\ request[t] # Idle /\ User(t) \in Users
         /\ \A s \in Threads : request'[s] # Idle =>
              request[s] # Idle /\ request'[s].user = request[s].user
<1>1. request \in [Threads -> Request \union {Idle}]
  BY DEF TypeOK
<1>2. request[t] # Idle
  BY DEF HandlerStep, LookPort, PickPort, InsertPort, InsertFails, WriteConfig, StartGateway,
     SetConnected, StartExecutor, StopExecutor, StopGateway, ClearConnected, SystemctlFails, At
<1>3. request[t] \in Request /\ User(t) \in Users
  BY <1>1, <1>2 DEF Request, User
<1>4. CASE PickPort(t)
  <2>1. PICK port \in Ports : request' = [request EXCEPT ![t].port = port, ![t].at = "insert"]
    BY <1>4 DEF PickPort
  <2>2. [request[t] EXCEPT !.port = port, !.at = "insert"].user = request[t].user
    BY <1>3 DEF Request
  <2>3. request' = [request EXCEPT ![t] = [request[t] EXCEPT !.port = port, !.at = "insert"]]
    BY <1>1, <2>1
  <2> DEFINE r == [request[t] EXCEPT !.port = port, !.at = "insert"]
  <2>4. r.user = request[t].user /\ request' = [request EXCEPT ![t] = r]
    BY <2>2, <2>3
  <2> HIDE DEF r
  <2> QED
    BY <1>1, <1>2, <1>3, <2>4
<1>5. CASE ~PickPort(t)
  <2>1. \/ Answer(t) \/ \E port : HasPort(t, port)
        \/ \E step : GoOn(t, step)
    BY <1>5 DEF HandlerStep, LookPort, InsertPort, InsertFails, WriteConfig, StartGateway,
       SetConnected, StartExecutor, StopExecutor, StopGateway, ClearConnected, SystemctlFails,
       GoOnInTime
  <2>2. /\ \A s \in Threads \ {t} : request'[s] = request[s]
        /\ request'[t] = Idle \/ request'[t].user = request[t].user
    BY <1>2, <2>1, RequestBecomes
  <2> QED
    BY <1>2, <1>3, <2>2
<1> QED
  BY <1>2, <1>3, <1>4, <1>5

\* Only users who exist have requests and Gateways, as long as the admin is
\* careful, and Executors have their Gateway.
LEMMA UseStep ==
  ASSUME ConstantsAssumption, CarefulAdmin, CarefulInv, [Next]_vars
  PROVE  InUseByUsers'
<1> USE DEF InUseByUsers, User
<1>1. /\ TypeOK /\ InUseByUsers
      /\ request \in [Threads -> Request \union {Idle}]
      /\ gateway \in [Users -> [state : UnitStates, port : Ports \union {NoPort}]]
      /\ executor \subseteq Users
  BY DEF CarefulInv, IInv, TypeOK
<1>2. CASE UNCHANGED <<users, request, gateway, executor>>
  BY <1>1, <1>2
<1>3. ASSUME NEW t \in Threads, NEW op \in Ops, NEW u \in Users, Ask(t, op, u)
      PROVE  InUseByUsers'
  <2>1. u \in users
    BY <1>1, <1>3 DEF Ask, MayAsk
  <2> DEFINE r == [op |-> op, user |-> u, at |-> FirstStep(op), port |-> NoPort]
  <2>2. r.user = u /\ request' = [request EXCEPT ![t] = r]
    BY <1>3 DEF Ask
  <2>3. UNCHANGED <<users, gateway, executor>>
    BY <1>3 DEF Ask, tables, systemd
  <2> HIDE DEF r
  <2> QED
    BY <1>1, <2>1, <2>2, <2>3
<1>4. ASSUME NEW u \in Users, DeleteUser(u)
      PROVE  InUseByUsers'
  <2>1. ~InUse(u) /\ users' = users \ {u} /\ UNCHANGED <<request, gateway, executor>>
    BY <1>4 DEF DeleteUser, systemd
  <2> QED
    BY <1>1, <2>1 DEF InUse
<1>5. ASSUME NEW u \in Users, u \in users,
             \/ gateway' = [gateway EXCEPT ![u] = [state |-> "login", port |-> config[u]]]
             \/ gateway' = [gateway EXCEPT ![u].state = "up"] /\ gateway[u] # Stopped
             \/ gateway' = gateway
      PROVE  /\ \A v \in Users : gateway'[v] # Stopped => v \in users
             /\ \A v \in Users : gateway[v] # Stopped => gateway'[v] # Stopped
  <2>1. \A v \in Users : v # u => gateway'[v] = gateway[v]
    BY <1>1, <1>5
  <2>2. gateway'[u] # Stopped \/ gateway'[u] = gateway[u]
    BY <1>1, <1>5, Kinds DEF Stopped
  <2> QED
    BY <1>1, <1>5, <2>1, <2>2
<1>6. ASSUME NEW u \in Users, LogsIn(u) \/ Restarts(u)
      PROVE  InUseByUsers'
  <2>1. gateway[u] # Stopped /\ UNCHANGED <<users, request, executor>>
    BY <1>6 DEF LogsIn, Restarts, tables, Stopped
  <2>2. u \in users
    BY <1>1, <2>1
  <2>3. \/ gateway' = [gateway EXCEPT ![u] = [state |-> "login", port |-> config[u]]]
        \/ gateway' = [gateway EXCEPT ![u].state = "up"]
    BY <1>6 DEF LogsIn, Restarts
  <2> QED
    BY <1>1, <1>5, <2>1, <2>2, <2>3
<1>7. ASSUME NEW t \in Threads, HandlerStep(t)
      PROVE  InUseByUsers'
  <2> DEFINE u == User(t)
  <2>1. u \in Users /\ u \in users
    BY <1>1, <1>7, HandlerKeepsUser
  <2>2. users' = users
    BY <1>7 DEF HandlerStep, LookPort, PickPort, InsertPort, InsertFails, WriteConfig, StartGateway,
       SetConnected, StartExecutor, StopExecutor, StopGateway, ClearConnected, SystemctlFails, tables
  <2>3. \A s \in Threads : request'[s] # Idle => request'[s].user \in users'
    BY <1>1, <1>7, <2>2, HandlerKeepsUser
  <2>4. CASE StartGateway(t) \/ StartExecutor(t)
    <3>1. gateway' = Started(u) /\ executor' \subseteq executor \union {u}
          /\ (executor' = executor \/ StartExecutor(t))
      BY <2>4 DEF StartGateway, StartExecutor
    <3>2. \/ gateway' = [gateway EXCEPT ![u] = [state |-> "login", port |-> config[u]]]
          \/ gateway' = gateway
      BY <3>1 DEF Started
    <3>3. gateway'[u] # Stopped
      BY <1>1, <2>1, <3>1, Kinds DEF Started
    <3> HIDE DEF u
    <3> QED
      BY <1>1, <1>5, <2>1, <2>2, <2>3, <3>1, <3>2, <3>3
  <2>5. CASE StopExecutor(t)
    <3>1. gateway' = gateway /\ executor' \subseteq executor
      BY <2>5 DEF StopExecutor
    <3> QED
      BY <1>1, <2>2, <2>3, <3>1
  <2>6. CASE StopGateway(t)
    <3>1. gateway' = [gateway EXCEPT ![u] = Stopped] /\ executor' = executor \ {u}
      BY <2>6 DEF StopGateway
    <3> HIDE DEF u
    <3> QED
      BY <1>1, <2>1, <2>2, <2>3, <3>1
  <2>7. CASE UNCHANGED <<gateway, executor>>
    BY <1>1, <2>2, <2>3, <2>7
  <2> QED
    BY <1>7, <2>4, <2>5, <2>6, <2>7 DEF HandlerStep, LookPort, PickPort, InsertPort, InsertFails,
       WriteConfig, SetConnected, ClearConnected, SystemctlFails, systemd
<1> QED
  BY <1>2, <1>3, <1>4, <1>6, <1>7 DEF Next, vars, tables, systemd, SaveCredentials

\* A port handed on to the config file stays the user's.
LEMMA HandedStep ==
  ASSUME ConstantsAssumption, CarefulAdmin, CarefulInv, [Next]_vars
  PROVE  PortsHanded'
<1> USE DEF PortsHanded, At, User
<1>1. /\ TypeOK /\ PortsHanded /\ PortsPicked /\ InUseByUsers
      /\ request \in [Threads -> Request \union {Idle}]
      /\ live_port \in [Users -> Ports \union {NoPort}]
  BY DEF CarefulInv, IInv, TypeOK
<1>2. CASE UNCHANGED <<live_port, request>>
  BY <1>1, <1>2
<1>3. ASSUME NEW t \in Threads, NEW op \in Ops, NEW u \in Users, Ask(t, op, u)
      PROVE  PortsHanded'
  <2> DEFINE r == [op |-> op, user |-> u, at |-> FirstStep(op), port |-> NoPort]
  <2>1. r.at # "config"
    BY DEF FirstStep, Ops
  <2>2. request' = [request EXCEPT ![t] = r] /\ live_port' = live_port
    BY <1>3 DEF Ask, tables
  <2> HIDE DEF r
  <2> QED
    BY <1>1, <2>1, <2>2
<1>4. ASSUME NEW u \in Users, DeleteUser(u)
      PROVE  PortsHanded'
  <2>1. /\ \A t \in Threads : request[t] # Idle => request[t].user # u
        /\ request' = request /\ live_port' = [live_port EXCEPT ![u] = NoPort]
    BY <1>4 DEF DeleteUser, InUse
  <2>2. \A t \in Threads : request[t] # Idle => request[t].user \in Users
    BY <1>1 DEF Request
  <2> QED
    BY <1>1, <2>1, <2>2
<1>5. ASSUME NEW t \in Threads, InsertPort(t)
      PROVE  PortsHanded'
  <2> DEFINE port == request[t].port
             u == User(t)
  <2>1. /\ request[t] # Idle /\ port # NoPort /\ u \in Users
        /\ live_port[u] = NoPort /\ live_port' = [live_port EXCEPT ![u] = port]
        /\ HasPort(t, port)
    <3>1. request[t] # Idle /\ port # NoPort
      BY <1>1, <1>5 DEF InsertPort, PortsPicked
    <3>2. u \in Users
      BY <1>1, <3>1 DEF Request
    <3> QED
      BY <1>1, <1>5, <3>1, <3>2, InsertStep
  <2>2. /\ \A s \in Threads \ {t} : request'[s] = request[s]
        /\ request'[t] = Idle \/ (request'[t].user = u /\ request'[t].port = port)
    BY <1>1, <2>1, RequestBecomes
  <2>3. \A s \in Threads : request[s] # Idle => request[s].user \in Users
    BY <1>1 DEF Request
  <2> HIDE DEF port, u
  <2>4. ASSUME NEW s \in Threads, At(s, "config")'
        PROVE  request'[s].port # NoPort /\ request'[s].port = live_port'[request'[s].user]
    <3>1. CASE s = t
      BY <1>1, <2>1, <2>2, <2>4, <3>1
    <3>2. CASE s # t
      <4>1. request[s] # Idle /\ request[s].at = "config" /\ request'[s] = request[s]
        BY <2>2, <2>4, <3>2
      <4>2. request[s].port # NoPort /\ request[s].port = live_port[request[s].user]
        BY <1>1, <4>1
      <4> QED
        BY <1>1, <2>1, <2>3, <4>1, <4>2
    <3> QED
      BY <3>1, <3>2
  <2> QED
    BY <2>4
<1>6. ASSUME NEW t \in Threads, HandlerStep(t), ~InsertPort(t)
      PROVE  PortsHanded'
  <2>1. live_port' = live_port
    BY <1>6 DEF HandlerStep, LookPort, PickPort, InsertFails, WriteConfig, StartGateway,
       SetConnected, StartExecutor, StopExecutor, StopGateway, ClearConnected, SystemctlFails, tables
  <2>2. request[t] # Idle
    BY <1>1, <1>6, HandlerKeepsUser
  <2>3. CASE LookPort(t) /\ live_port[User(t)] # NoPort
    <3>1. HasPort(t, live_port[User(t)])
      BY <2>3 DEF LookPort
    <3>2. /\ \A s \in Threads \ {t} : request'[s] = request[s]
          /\ \/ request'[t] = Idle
             \/ request'[t].user = User(t) /\ request'[t].port = live_port[User(t)]
      BY <1>1, <2>2, <3>1, RequestBecomes
    <3> QED
      BY <1>1, <2>1, <2>3, <3>2
  <2>4. CASE PickPort(t)
    <3>1. PICK port \in Ports : request' = [request EXCEPT ![t].port = port, ![t].at = "insert"]
      BY <2>4 DEF PickPort
    <3>2. request[t] \in Request
      BY <1>1, <2>2
    <3>3. request'[t].at = "insert" /\ \A s \in Threads \ {t} : request'[s] = request[s]
      BY <1>1, <3>1, <3>2 DEF Request
    <3> QED
      BY <1>1, <2>1, <3>3
  <2>5. CASE Answer(t) \/ \E step \in Steps \ {"config"} : GoOn(t, step)
    <3>1. /\ \A s \in Threads \ {t} : request'[s] = request[s]
          /\ request'[t] = Idle \/ request'[t].at # "config"
      BY <1>1, <2>2, <2>5, RequestBecomes
    <3> QED
      BY <1>1, <2>1, <3>1
  <2> QED
    BY <1>6, <2>3, <2>4, <2>5 DEF HandlerStep, LookPort, InsertFails, WriteConfig, StartGateway,
       SetConnected, StartExecutor, StopExecutor, StopGateway, ClearConnected, SystemctlFails,
       GoOnInTime, Steps
<1> QED
  BY <1>2, <1>3, <1>4, <1>5, <1>6 DEF Next, vars, tables, SaveCredentials, LogsIn, Restarts

\* Files and Gateways keep to the ports of their users.
LEMMA OwnStep ==
  ASSUME ConstantsAssumption, CarefulAdmin, CarefulInv, [Next]_vars
  PROVE  OwnPorts'
<1> USE DEF OwnPorts, Listening
<1>1. /\ TypeOK /\ OwnPorts /\ InUseByUsers /\ PortsHanded
      /\ live_port \in [Users -> Ports \union {NoPort}]
      /\ config \in [Users -> Ports \union {NoPort}]
      /\ gateway \in [Users -> [state : UnitStates, port : Ports \union {NoPort}]]
  BY DEF CarefulInv, IInv, TypeOK
<1>2. CASE UNCHANGED <<users, live_port, config, gateway>>
  BY <1>1, <1>2
<1>3. ASSUME NEW u \in Users, DeleteUser(u)
      PROVE  OwnPorts'
  <2>1. /\ gateway[u] = Stopped /\ users' = users \ {u} /\ UNCHANGED <<config, gateway>>
        /\ live_port' = [live_port EXCEPT ![u] = NoPort]
    BY <1>3 DEF DeleteUser, InUse, systemd
  <2>2. gateway[u].port = NoPort
    BY <2>1 DEF Stopped
  <2> QED
    BY <1>1, <2>1, <2>2
<1>4. ASSUME NEW t \in Threads, InsertPort(t), request[t].port # NoPort
      PROVE  OwnPorts'
  <2>1. /\ User(t) \in users /\ live_port[User(t)] = NoPort
        /\ live_port' = [live_port EXCEPT ![User(t)] = request[t].port]
        /\ UNCHANGED <<users, config, gateway>>
    BY <1>1, <1>4, InsertStep
  <2> QED
    BY <1>1, <2>1
<1>5. ASSUME NEW u \in users, UNCHANGED <<users, live_port, config>>,
             gateway' = [gateway EXCEPT ![u] = [state |-> "login", port |-> config[u]]]
      PROVE  OwnPorts'
  <2>1. gateway'[u].port = config[u] /\ gateway'[u].state = "login"
    BY <1>1, <1>5 DEF TypeOK
  <2>2. \A v \in Users : v # u => gateway'[v] = gateway[v]
    BY <1>1, <1>5
  <2> QED
    BY <1>1, <1>5, <2>1, <2>2
<1>6. ASSUME NEW u \in Users, LogsIn(u)
      PROVE  OwnPorts'
  <2>1. /\ gateway' = [gateway EXCEPT ![u].state = "up"] /\ gateway[u].port # NoPort
        /\ UNCHANGED <<users, live_port, config>>
    BY <1>6 DEF LogsIn, tables
  <2>2. \A v \in Users : gateway'[v].port = gateway[v].port
    BY <1>1, <2>1
  <2>3. \A v \in Users : v # u => gateway'[v] = gateway[v]
    BY <1>1, <2>1
  <2> QED
    BY <1>1, <2>1, <2>2, <2>3
<1>7. ASSUME NEW u \in Users, Restarts(u)
      PROVE  OwnPorts'
  BY <1>1, <1>5, <1>7 DEF Restarts, tables, InUseByUsers
<1>8. ASSUME NEW t \in Threads, HandlerStep(t), ~InsertPort(t)
      PROVE  OwnPorts'
  <2>1. request[t] # Idle /\ User(t) \in users /\ User(t) \in Users
    BY <1>1, <1>8, HandlerKeepsUser DEF InUseByUsers
  <2>2. UNCHANGED <<users, live_port>>
    BY <1>8 DEF HandlerStep, LookPort, PickPort, InsertFails, WriteConfig, StartGateway,
       SetConnected, StartExecutor, StopExecutor, StopGateway, ClearConnected, SystemctlFails, tables
  <2>3. CASE WriteConfig(t)
    <3>1. /\ config' = [config EXCEPT ![User(t)] = request[t].port] /\ gateway' = gateway
          /\ request[t].port = live_port[User(t)]
      BY <1>1, <2>3 DEF WriteConfig, systemd, PortsHanded
    <3> QED
      BY <1>1, <2>1, <2>2, <3>1
  <2>4. CASE StartGateway(t) \/ StartExecutor(t)
    <3>1. config' = config /\ gateway' = Started(User(t))
      BY <2>4 DEF StartGateway, StartExecutor
    <3>2. \/ gateway' = [gateway EXCEPT ![User(t)] = [state |-> "login", port |-> config[User(t)]]]
          \/ gateway' = gateway
      BY <3>1 DEF Started
    <3> QED
      BY <1>2, <1>5, <2>1, <2>2, <3>1, <3>2
  <2>5. CASE StopGateway(t)
    <3>1. config' = config /\ gateway' = [gateway EXCEPT ![User(t)] = Stopped]
      BY <2>5 DEF StopGateway
    <3>2. Stopped.port = NoPort /\ Stopped.state # "up"
      BY DEF Stopped
    <3> QED
      BY <1>1, <2>1, <2>2, <3>1, <3>2
  <2>6. CASE UNCHANGED <<config, gateway>>
    BY <1>2, <2>2, <2>6
  <2> QED
    BY <1>8, <2>3, <2>4, <2>5, <2>6 DEF HandlerStep, LookPort, PickPort, InsertFails,
       SetConnected, StopExecutor, ClearConnected, SystemctlFails, systemd
<1>9. \A t \in Threads : InsertPort(t) => request[t].port # NoPort
  BY DEF CarefulInv, IInv, PortsPicked, InsertPort
<1> QED
  BY <1>2, <1>3, <1>4, <1>6, <1>7, <1>8, <1>9
     DEF Next, vars, tables, systemd, SaveCredentials, Ask

-----------------------------------------------------------------------------
\* What holds of any admin is inductive.
LEMMA Invariance == Spec => []IInv
<1>1. Init => IInv
  <2> SUFFICES ASSUME Init PROVE IInv
    OBVIOUS
  <2>1. TypeOK
    BY DEF Init, TypeOK, UnitStates, Stopped
  <2>2. PortsDistinct /\ PortsPicked
    BY DEF Init, PortsDistinct, PortsPicked, At
  <2> QED
    BY <2>1, <2>2 DEF IInv
<1>2. IInv /\ [Next]_vars => IInv'
  BY ConstantsAssumption, TypeStep, PickedStep, DistinctStep DEF IInv
<1> QED
  BY <1>1, <1>2, PTL DEF Spec

\* So is what holds of a careful one.
LEMMA CarefulInvariance ==
  ASSUME CarefulAdmin
  PROVE  Spec => []CarefulInv
<1>1. Init => InUseByUsers /\ PortsHanded /\ OwnPorts
  BY DEF Init, InUseByUsers, PortsHanded, OwnPorts, At, Listening, Stopped
<1>2. CarefulInv /\ [Next]_vars => (InUseByUsers /\ PortsHanded /\ OwnPorts)'
  BY ConstantsAssumption, UseStep, HandedStep, OwnStep
<1>3. CarefulInv <=> IInv /\ InUseByUsers /\ PortsHanded /\ OwnPorts
  BY DEF CarefulInv
<1> QED
  BY <1>1, <1>2, <1>3, Invariance, PTL DEF Spec

\* Every variable of the model keeps its type; no credentials outlive their user.
THEOREM GatewayTypeCorrect == Spec => []TypeOK
<1>1. IInv => TypeOK
  BY DEF IInv
<1> QED
  BY <1>1, Invariance, PTL

\* A user's port is permanent, for any number of requests and cycles that
\* assign ports at once, and whatever users are deleted: the keys of
\* user_gateway see to it.
THEOREM PortsPermanent == Spec => PortPermanent
<1>1. ASSUME IInv, [Next]_vars, NEW u \in Users, live_port[u] # NoPort, u \in users'
      PROVE  live_port'[u] = live_port[u]
  <2>1. TypeOK /\ live_port \in [Users -> Ports \union {NoPort}]
    BY <1>1 DEF IInv, TypeOK
  <2>2. CASE UNCHANGED <<live_port, users>>
    BY <2>2
  <2>3. CASE \E v \in Users : DeleteUser(v)
    BY <1>1, <2>1, <2>3 DEF DeleteUser
  <2>4. CASE \E t \in Threads : InsertPort(t) /\ request[t].port # NoPort
    <3>1. PICK t \in Threads : InsertPort(t) /\ request[t].port # NoPort
      BY <2>4
    <3>2. live_port[User(t)] = NoPort /\ live_port' = [live_port EXCEPT ![User(t)] = request[t].port]
      BY <2>1, <3>1, ConstantsAssumption, InsertStep
    <3> QED
      BY <1>1, <2>1, <3>2
  <2> QED
    BY <1>1, <2>2, <2>3, <2>4, ConstantsAssumption, TableStep
<1>2. IInv /\ [Next]_vars =>
        [\A u \in Users :
           live_port[u] # NoPort /\ u \in users' => live_port'[u] = live_port[u]]_vars
  BY <1>1
<1> QED
  BY <1>2, Invariance, PTL DEF Spec, PortPermanent

\* As long as the admin deletes only users whose Gateway is stopped and whom no
\* request is about, an Executor reaches no account but its user's. (Without
\* that assumption it does: the run gateway_delete.)
THEOREM OwnAccountOnly ==
  ASSUME CarefulAdmin
  PROVE  Spec => []OwnAccount
<1>1. ASSUME CarefulInv, NEW u \in executor, NEW v \in Users,
             Listening(v), gateway[v].port = live_port[u]
      PROVE  v = u
  <2>1. u \in Users /\ gateway[v].port # NoPort /\ gateway[v].port = live_port[v]
    BY <1>1 DEF CarefulInv, IInv, TypeOK, OwnPorts
  <2> QED
    BY <1>1, <2>1 DEF CarefulInv, IInv, PortsDistinct
<1>2. CarefulInv => OwnAccount
  BY <1>1 DEF OwnAccount
<1> QED
  BY <1>2, CarefulInvariance, PTL

\* Under the same assumption an Executor always finds its Gateway once that is
\* up: it listens on the port the table holds.
THEOREM GatewayOnOwnPort ==
  ASSUME CarefulAdmin
  PROVE  Spec => []OwnPort
<1>1. CarefulInv => OwnPort
  BY DEF CarefulInv, OwnPorts, OwnPort, Listening
<1> QED
  BY <1>1, CarefulInvariance, PTL

-----------------------------------------------------------------------------
(* The abstract registry of ports.                                         *)

\* The steps of a connect that work with the port it was given.
Holding == {"config", "start_gateway", "set_connected"}

\* The variable handed of the registry, and an entry of it.
Handed == [t \in Threads |-> HandedTo(t)]
Given(u, port) == [user |-> u, port |-> port]
Nothing == [port |-> NoPort]

\* What a thread does to its request is seen in the registry in its entry alone.
LEMMA OnlyItsEntry ==
  ASSUME TypeOK, NEW t \in Threads, NEW r, request' = [request EXCEPT ![t] = r]
  PROVE  Handed' = [Handed EXCEPT ![t] =
           IF r # Idle /\ r.at \in Holding THEN Given(r.user, r.port) ELSE Nothing]
<1>1. request \in [Threads -> Request \union {Idle}]
  BY DEF TypeOK
<1>2. \A s \in Threads : request'[s] = IF s = t THEN r ELSE request[s]
  BY <1>1
<1>3. \A s \in Threads :
        HandedTo(s)' = IF s = t
                         THEN IF r # Idle /\ r.at \in Holding THEN Given(r.user, r.port)
                                                              ELSE Nothing
                         ELSE HandedTo(s)
  BY <1>2 DEF HandedTo, User, Given, Nothing, Holding
<1> QED
  BY <1>3 DEF Handed

\* An answer gives the port back, a further step keeps it while it is needed,
\* and get_or_assign_gateway_port hands it out, or its caller keeps nothing.
LEMMA HandedBecomes ==
  ASSUME TypeOK, NEW t \in Threads, request[t] # Idle
  PROVE  /\ Answer(t) => Handed' = [Handed EXCEPT ![t] = Nothing]
         /\ \A step \in Steps : GoOn(t, step) =>
              Handed' = [Handed EXCEPT ![t] =
                IF step \in Holding THEN Given(User(t), request[t].port) ELSE Nothing]
         /\ \A port : HasPort(t, port) =>
              \/ Handed' = [Handed EXCEPT ![t] = Nothing]
              \/ Handed' = [Handed EXCEPT ![t] = Given(User(t), port)]
<1>1. request \in [Threads -> Request \union {Idle}] /\ request[t] \in Request
  BY DEF TypeOK
<1>2. Answer(t) => Handed' = [Handed EXCEPT ![t] = Nothing]
  BY OnlyItsEntry DEF Answer
<1>3. ASSUME NEW step \in Steps, GoOn(t, step)
      PROVE  Handed' = [Handed EXCEPT ![t] =
               IF step \in Holding THEN Given(User(t), request[t].port) ELSE Nothing]
  <2> DEFINE r == [request[t] EXCEPT !.at = step]
  <2>1. r # Idle /\ r.at = step /\ r.user = User(t) /\ r.port = request[t].port
    <3>1. r \in Request
      BY <1>1 DEF Request
    <3> QED
      BY <1>1, <3>1, Kinds DEF Request, User
  <2>2. request' = [request EXCEPT ![t] = r]
    BY <1>1, <1>3 DEF GoOn
  <2> HIDE DEF r
  <2> QED
    BY <2>1, <2>2, OnlyItsEntry
<1>4. ASSUME NEW port, HasPort(t, port)
      PROVE  \/ Handed' = [Handed EXCEPT ![t] = Nothing]
             \/ Handed' = [Handed EXCEPT ![t] = Given(User(t), port)]
  <2> DEFINE r == [request[t] EXCEPT !.port = port, !.at = "config"]
  <2>1. r.op \in Ops /\ r.at = "config" /\ r.user = User(t) /\ r.port = port
    BY <1>1 DEF Request, User
  <2>2. r # Idle
    BY <2>1 DEF Idle, Ops
  <2>3. \/ request' = [request EXCEPT ![t] = r]
        \/ request' = [request EXCEPT ![t] = Idle]
    BY <1>1, <1>4 DEF HasPort
  <2> HIDE DEF r
  <2> QED
    BY <2>1, <2>2, <2>3, OnlyItsEntry DEF Holding
<1> QED
  BY <1>2, <1>3, <1>4

\* The entry of a thread that holds no port, or does.
LEMMA EntryOf ==
  ASSUME TypeOK, NEW t \in Threads
  PROVE  /\ DOMAIN Handed = Threads
         /\ request[t] = Idle \/ request[t].at \notin Holding => Handed[t] = Nothing
         /\ request[t] # Idle /\ request[t].at \in Holding =>
              Handed[t] = Given(User(t), request[t].port) /\ Handed[t] # Nothing
<1>1. \A u, port : Given(u, port) # Nothing
  BY DEF Given, Nothing
<1> QED
  BY <1>1 DEF Handed, HandedTo, Holding, Given, Nothing


\* What happens in the registry when the threads' entries change so.
LEMMA RegistryActions ==
  /\ Handed' = Handed /\ UNCHANGED <<users, live_port>> => UNCHANGED Registry!vars
  /\ \A t \in Threads :
       Handed[t] # Nothing /\ Handed' = [Handed EXCEPT ![t] = Nothing]
         /\ UNCHANGED <<users, live_port>> => Registry!Finish(t)
  /\ \A t \in Threads : \A u, port :
       \/ Handed' = Handed
       \/ Handed[t] = Nothing /\ Handed' = [Handed EXCEPT ![t] = Given(u, port)]
       => Registry!Hand(u, port)
<1>1. Handed' = Handed /\ UNCHANGED <<users, live_port>> => UNCHANGED Registry!vars
  BY DEF Handed, Registry!vars
<1>2. ASSUME NEW t \in Threads, Handed[t] # Nothing, UNCHANGED <<users, live_port>>,
             Handed' = [Handed EXCEPT ![t] = Nothing]
      PROVE  Registry!Finish(t)
  BY <1>2 DEF Handed, Nothing, NoPort, Registry!Finish, Registry!Nothing, Registry!NoPort
<1>3. ASSUME NEW t \in Threads, NEW u, NEW port,
             \/ Handed' = Handed
             \/ Handed[t] = Nothing /\ Handed' = [Handed EXCEPT ![t] = Given(u, port)]
      PROVE  Registry!Hand(u, port)
  BY <1>3 DEF Handed, Nothing, Given, NoPort, Registry!Hand, Registry!Nothing, Registry!NoPort
<1> QED
  BY <1>1, <1>2, <1>3

\* A handler that leaves the tables alone gives a port back, or nothing
\* happens; the two that ask the table for a port look it up or assign it.
LEMMA HandlerInRegistry ==
  ASSUME ConstantsAssumption, IInv, NEW t \in Threads, HandlerStep(t)
  PROVE  [Registry!Next]_(Registry!vars)
<1>1. TypeOK /\ request[t] # Idle /\ User(t) \in Users
  BY HandlerKeepsUser DEF IInv
<1>2. /\ DOMAIN Handed = Threads
      /\ request[t].at \notin Holding => Handed[t] = Nothing
      /\ request[t].at \in Holding =>
           Handed[t] = Given(User(t), request[t].port) /\ Handed[t] # Nothing
  BY <1>1, EntryOf
<1>3. /\ Answer(t) => Handed' = [Handed EXCEPT ![t] = Nothing]
      /\ \A step \in Steps : GoOn(t, step) =>
           Handed' = [Handed EXCEPT ![t] =
             IF step \in Holding THEN Given(User(t), request[t].port) ELSE Nothing]
      /\ \A port : HasPort(t, port) =>
           \/ Handed' = [Handed EXCEPT ![t] = Nothing]
           \/ Handed' = [Handed EXCEPT ![t] = Given(User(t), port)]
  BY <1>1, HandedBecomes
<1>4. ASSUME UNCHANGED <<users, live_port>>,
             Handed' = Handed \/ (Handed[t] # Nothing /\ Handed' = [Handed EXCEPT ![t] = Nothing])
      PROVE  [Registry!Next]_(Registry!vars)
  BY <1>4, RegistryActions DEF Registry!Next
<1>same. \A e : Handed[t] = e /\ Handed' = [Handed EXCEPT ![t] = e] => Handed' = Handed
  BY DEF Handed
<1>5. CASE LookPort(t)
  <2>1. request[t].at \notin Holding
    BY <1>5 DEF LookPort, At, Holding
  <2>2. UNCHANGED <<users, live_port>>
    BY <1>5 DEF LookPort, tables
  <2>3. CASE live_port[User(t)] # NoPort
    <3>1. HasPort(t, live_port[User(t)])
      BY <1>5, <2>3 DEF LookPort
    <3>2. Registry!Hand(User(t), live_port[User(t)])
      BY <1>2, <1>3, <1>same, <2>1, <3>1, RegistryActions
    <3>3. Registry!Look(User(t))
      BY <2>2, <2>3, <3>2 DEF Registry!Look, Registry!NoPort, NoPort
    <3> QED
      BY <1>1, <3>3 DEF Registry!Next
  <2>4. CASE live_port[User(t)] = NoPort
    <3>1. GoOn(t, "pick")
      BY <1>5, <2>4 DEF LookPort
    <3>2. Handed' = [Handed EXCEPT ![t] = Nothing]
      BY <1>3, <3>1 DEF Steps, Holding
    <3> QED
      BY <1>2, <1>4, <1>same, <2>1, <2>2, <3>2
  <2> QED
    BY <2>3, <2>4
<1>6. CASE PickPort(t)
  <2>1. PICK port \in Ports :
          request' = [request EXCEPT ![t].port = port, ![t].at = "insert"]
    BY <1>6 DEF PickPort
  <2> DEFINE r == [request[t] EXCEPT !.port = port, !.at = "insert"]
  <2>2. request[t] \in Request /\ request[t].at \notin Holding
    BY <1>1, <1>6 DEF PickPort, At, Holding, TypeOK
  <2>3. r.at = "insert"
    BY <2>2 DEF Request
  <2>4. request' = [request EXCEPT ![t] = r]
    BY <1>1, <2>1 DEF TypeOK
  <2> HIDE DEF r
  <2>5. Handed' = [Handed EXCEPT ![t] = Nothing]
    BY <1>1, <2>3, <2>4, OnlyItsEntry DEF Holding
  <2> QED
    BY <1>2, <1>4, <1>6, <1>same, <2>2, <2>5 DEF PickPort, tables
<1>7. CASE InsertPort(t)
  <2>1. request[t].at \notin Holding /\ request[t].port # NoPort
    BY <1>1, <1>7 DEF InsertPort, At, Holding, IInv, PortsPicked
  <2>2. /\ User(t) \in users /\ live_port[User(t)] = NoPort
        /\ request[t].port \in Ports \ PortsTaken
        /\ live_port' = [live_port EXCEPT ![User(t)] = request[t].port]
        /\ HasPort(t, request[t].port) /\ UNCHANGED users
    BY <1>1, <1>7, <2>1, InsertStep
  <2>3. Registry!Hand(User(t), request[t].port)
    BY <1>2, <1>3, <1>same, <2>1, <2>2, RegistryActions
  <2>4. \A v \in Users : live_port[v] # request[t].port
    BY <2>1, <2>2 DEF PortsTaken
  <2>5. Registry!Assign(User(t))
    BY <2>2, <2>3, <2>4 DEF Registry!Assign, Registry!Ports, Registry!NoPort, Ports, NoPort
  <2> QED
    BY <1>1, <2>5 DEF Registry!Next
<1>8. CASE InsertFails(t)
  BY <1>2, <1>3, <1>4, <1>8, <1>same DEF InsertFails, At, Holding, tables
<1>9. CASE WriteConfig(t)
  <2>1. GoOn(t, "start_gateway") /\ request[t].at \in Holding /\ UNCHANGED <<users, live_port>>
    BY <1>9 DEF WriteConfig, At, Holding, tables
  <2>2. Handed' = [Handed EXCEPT ![t] = Given(User(t), request[t].port)]
    BY <1>3, <2>1 DEF Steps, Holding
  <2> QED
    BY <1>2, <1>4, <1>same, <2>1, <2>2
<1>10. CASE StartGateway(t)
  <2>1. /\ GoOn(t, "set_connected") \/ Answer(t)
        /\ request[t].at \in Holding /\ UNCHANGED <<users, live_port>>
    BY <1>10 DEF StartGateway, GoOnInTime, At, Holding, tables
  <2>2. \/ Handed' = [Handed EXCEPT ![t] = Given(User(t), request[t].port)]
        \/ Handed' = [Handed EXCEPT ![t] = Nothing]
    BY <1>3, <2>1 DEF Steps, Holding
  <2> QED
    BY <1>2, <1>4, <1>same, <2>1, <2>2
<1>11. CASE SetConnected(t)
  <2>1. Answer(t) /\ request[t].at \in Holding /\ UNCHANGED <<users, live_port>>
    BY <1>11 DEF SetConnected, At, Holding
  <2> QED
    BY <1>2, <1>3, <1>4, <2>1
<1>12. CASE StartExecutor(t) \/ StopExecutor(t) \/ StopGateway(t) \/ ClearConnected(t)
  <2>1. /\ request[t].at \notin Holding /\ UNCHANGED <<users, live_port>>
        /\ \/ Answer(t)
           \/ \E step \in Steps \ Holding : GoOn(t, step)
    BY <1>12 DEF StartExecutor, StopExecutor, StopGateway, ClearConnected, GoOnInTime,
       At, Holding, Steps, tables
  <2>2. Handed' = [Handed EXCEPT ![t] = Nothing]
    BY <1>3, <2>1
  <2> QED
    BY <1>2, <1>4, <1>same, <2>1, <2>2
<1>13. CASE SystemctlFails(t)
  <2>1. Answer(t) /\ UNCHANGED <<users, live_port>>
    BY <1>13 DEF SystemctlFails, tables
  <2> QED
    BY <1>2, <1>3, <1>4, <1>same, <2>1
<1> QED
  BY <1>5, <1>6, <1>7, <1>8, <1>9, <1>10, <1>11, <1>12, <1>13 DEF HandlerStep

\* Every call of get_or_assign_gateway_port, by any number of requests and
\* cycles at once and with users deleted meanwhile, is as good as one step of
\* the registry: what it returns is then the user's own and only port.
THEOREM ImplementsRegistry == Spec => RegistrySpec
<1>1. Init => Registry!Init
  BY DEF Init, HandedTo, Registry!Init, Registry!Nothing, Registry!NoPort, NoPort
<1>2. IInv /\ [Next]_vars => [Registry!Next]_(Registry!vars)
  <2> SUFFICES ASSUME IInv, [Next]_vars PROVE [Registry!Next]_(Registry!vars)
    OBVIOUS
  <2>1. TypeOK
    BY DEF IInv
  <2>2. UNCHANGED request => Handed' = Handed
    BY DEF Handed, HandedTo, User
  <2>3. CASE UNCHANGED vars
    BY <2>2, <2>3, RegistryActions DEF vars, tables
  <2>4. ASSUME NEW u \in Users, SaveCredentials(u) \/ LogsIn(u) \/ Restarts(u)
        PROVE  [Registry!Next]_(Registry!vars)
    BY <2>2, <2>4, RegistryActions DEF SaveCredentials, LogsIn, Restarts, tables
  <2>5. ASSUME NEW u \in Users, DeleteUser(u)
        PROVE  [Registry!Next]_(Registry!vars)
    <3>1. /\ u \in users /\ users' = users \ {u} /\ live_port' = [live_port EXCEPT ![u] = NoPort]
          /\ UNCHANGED request
      BY <2>5 DEF DeleteUser
    <3>2. ASSUME CarefulAdmin, NEW t \in Threads
          PROVE  Handed[t] = Nothing \/ Handed[t].user # u
      <4>1. request[t] = Idle \/ User(t) # u
        BY <2>5, <3>2 DEF DeleteUser, InUse
      <4>2. Handed[t] = Nothing \/ (Handed[t] = Given(User(t), request[t].port) /\ User(t) # u)
        BY <2>1, <4>1, EntryOf
      <4>3. \A v, port : Given(v, port).user = v
        BY DEF Given
      <4> QED
        BY <4>2, <4>3
    <3>3. Registry!Delete(u)
      BY <2>2, <3>1, <3>2 DEF Registry!Delete, Registry!Nothing, Registry!NoPort, Handed,
         Nothing, NoPort
    <3> QED
      BY <3>3 DEF Registry!Next
  <2>6. ASSUME NEW t \in Threads, NEW op \in Ops, NEW u \in Users, Ask(t, op, u)
        PROVE  [Registry!Next]_(Registry!vars)
    <3> DEFINE r == [op |-> op, user |-> u, at |-> FirstStep(op), port |-> NoPort]
    <3>1. request[t] = Idle /\ request' = [request EXCEPT ![t] = r] /\ UNCHANGED <<users, live_port>>
      BY <2>6 DEF Ask, tables
    <3>2. r.at \notin Holding
      BY DEF FirstStep, Ops, Holding
    <3> HIDE DEF r
    <3>3. Handed' = [Handed EXCEPT ![t] = Nothing]
      BY <2>1, <3>1, <3>2, OnlyItsEntry
    <3>4. Handed[t] = Nothing
      BY <2>1, <3>1, EntryOf
    <3>5. Handed' = Handed
      BY <3>3, <3>4 DEF Handed
    <3> QED
      BY <3>1, <3>5, RegistryActions
  <2> QED
    BY <2>3, <2>4, <2>5, <2>6, ConstantsAssumption, HandlerInRegistry DEF Next
<1> QED
  BY <1>1, <1>2, Invariance, PTL DEF Spec, RegistrySpec, Registry!Spec

=============================================================================
