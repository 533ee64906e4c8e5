------------------------------- MODULE Gateway -------------------------------
(***************************************************************************)
(* How the dashboard gives every user a Gateway and an Executor of their   *)
(* own: the request handlers of web/app.py that provision, start and stop  *)
(* them (gateway_provisioning.py), the tables they share (db.py), and the  *)
(* systemd units.  The handlers run in threads, one step here for each     *)
(* transaction, file or systemctl call, so any two requests interleave.    *)
(*                                                                         *)
(* A Gateway is known by the port it listens on: an Executor reaches the   *)
(* broker account of whichever Gateway listens on the port the table       *)
(* user_gateway holds for its own user.                                    *)
(*                                                                         *)
(* Left out: passwords, roles and deactivation (no step here reads them    *)
(* after the request was admitted), and the texts of errors.               *)
(***************************************************************************)
EXTENDS Integers, FiniteSets

CONSTANTS
  Users,         \* the ids of the users created so far; ids are never reused
  Admin,         \* the one who deletes users, but never themself
  Threads,       \* bound: requests the dashboard serves at once
  MaxPort,       \* bound: highest port number tried, counted from 1
  CarefulAdmin   \* the admin deletes only users whose Gateway is stopped

ASSUME ConstantsAssumption ==
  /\ IsFiniteSet(Users) /\ Admin \in Users
  /\ MaxPort \in Nat /\ MaxPort > Cardinality(Users)
  /\ CarefulAdmin \in BOOLEAN

VARIABLES
  \* tables
  users,        \* the users that exist
  credentials,  \* those with a row in ibkr_credentials
  live_port,    \* user_gateway: user -> port, NoPort when there is no row
  connected,    \* user_settings.connected
  \* files and units
  config,       \* config-<user>-live.ini: the port it names, NoPort: no file
  gateway,      \* ibgateway-live@<user>: its state and the port it was started on
  executor,     \* the users whose executor@<user> runs
  \* the dashboard
  request       \* what each thread is doing

tables  == <<users, credentials, live_port, connected>>
systemd == <<gateway, executor>>
vars    == <<tables, config, systemd, request>>

NoPort == 0
Ports == 1 .. MaxPort

UnitStates == {"stopped", "login", "up"}
Stopped == [state |-> "stopped", port |-> NoPort]

Ops == {"connect", "status", "resume", "disconnect"}
Steps == {"look", "pick", "insert", "config", "start_gateway", "set_connected",
          "start_executor", "stop_executor", "stop_gateway", "clear_connected"}
Idle == [op |-> "none"]
Request == [op : Ops, user : Users, at : Steps, port : Ports \union {NoPort}]

PortsTaken == {live_port[u] : u \in Users} \ {NoPort}

At(t, step) == request[t] # Idle /\ request[t].at = step
User(t) == request[t].user

\* thread t goes on to its next step, or answers
GoOn(t, step) == request' = [request EXCEPT ![t].at = step]
Answer(t) == request' = [request EXCEPT ![t] = Idle]

\* systemd has done its job; systemctl may have been given up on (after 20 s)
\* before that, which fails the request
GoOnInTime(t, step) == GoOn(t, step) \/ Answer(t)

Init ==
  /\ users = Users
  /\ credentials = {}
  /\ live_port = [u \in Users |-> NoPort]
  /\ connected = {}
  /\ config = [u \in Users |-> NoPort]
  /\ gateway = [u \in Users |-> Stopped]
  /\ executor = {}
  /\ request = [t \in Threads |-> Idle]

-----------------------------------------------------------------------------
(* Requests of users, and of the admin.                                    *)

SaveCredentials(u) ==
  /\ u \in users
  /\ credentials' = credentials \union {u}
  /\ UNCHANGED <<users, live_port, connected, config, systemd, request>>

\* A running Executor asks for its port in every cycle, as a status poll does.
MayAsk(op, u) ==
  CASE op = "connect" -> u \in users /\ u \in credentials
    [] op = "status" -> (u \in users /\ u \in credentials) \/ u \in executor
    [] OTHER -> u \in users

FirstStep(op) ==
  CASE op \in {"connect", "status"} -> "look"
    [] op = "resume" -> "start_executor"
    [] op = "disconnect" -> "stop_executor"

Ask(t, op, u) ==
  /\ request[t] = Idle /\ MayAsk(op, u)
  /\ request' = [request EXCEPT ![t] =
                   [op |-> op, user |-> u, at |-> FirstStep(op), port |-> NoPort]]
  /\ UNCHANGED <<tables, config, systemd>>

InUse(u) == gateway[u] # Stopped \/ \E t \in Threads : request[t] # Idle /\ User(t) = u

DeleteUserKeepsCredentials(u) ==
  /\ u \in users /\ u # Admin /\ (CarefulAdmin => ~InUse(u))
  /\ users' = users \ {u} /\ connected' = connected \ {u}
  /\ live_port' = [live_port EXCEPT ![u] = NoPort]
  /\ UNCHANGED <<credentials, config, systemd, request>>

\* delete_user cascades to every row of the user, and to nothing else
DeleteUser(u) ==
  /\ u \in users /\ u # Admin /\ (CarefulAdmin => ~InUse(u))
  /\ users' = users \ {u} /\ credentials' = credentials \ {u} /\ connected' = connected \ {u}
  /\ live_port' = [live_port EXCEPT ![u] = NoPort]
  /\ UNCHANGED <<config, systemd, request>>

-----------------------------------------------------------------------------
(* get_or_assign_gateway_port: no transaction spans its three statements.  *)

\* connect goes on to the config file; a status poll has what it wants
HasPort(t, port) ==
  request' = [request EXCEPT ![t] =
    IF @.op = "connect" THEN [@ EXCEPT !.port = port, !.at = "config"] ELSE Idle]

LookPort(t) ==
  /\ At(t, "look")
  /\ IF live_port[User(t)] # NoPort THEN HasPort(t, live_port[User(t)])
                                    ELSE GoOn(t, "pick")
  /\ UNCHANGED <<tables, config, systemd>>

PickPort(t) ==
  /\ At(t, "pick")
  /\ \E port \in Ports \ PortsTaken :
       /\ \A p \in 1 .. port - 1 : p \in PortsTaken
       /\ request' = [request EXCEPT ![t].port = port, ![t].at = "insert"]
  /\ UNCHANGED <<tables, config, systemd>>

InsertableNotUnique(u, port) == u \in users /\ live_port[u] = NoPort
InsertableReplacing(u, port) == u \in users /\ (port \notin PortsTaken \/ live_port[u] = port)

\* REFERENCES users, PRIMARY KEY user_id, live_port UNIQUE
Insertable(u, port) == u \in users /\ live_port[u] = NoPort /\ port \notin PortsTaken

InsertPort(t) ==
  /\ At(t, "insert") /\ Insertable(User(t), request[t].port)
  /\ live_port' = [live_port EXCEPT ![User(t)] = request[t].port]
  /\ HasPort(t, request[t].port)
  /\ UNCHANGED <<users, credentials, connected, config, systemd>>

InsertIgnored(t) ==
  /\ At(t, "insert") /\ ~Insertable(User(t), request[t].port)
  /\ HasPort(t, request[t].port)
  /\ UNCHANGED <<tables, config, systemd>>

\* IntegrityError: the request fails, or the cycle does
InsertFails(t) ==
  /\ At(t, "insert") /\ ~Insertable(User(t), request[t].port)
  /\ Answer(t)
  /\ UNCHANGED <<tables, config, systemd>>

-----------------------------------------------------------------------------
(* provision_and_connect, resume_executor, disconnect.                     *)

\* systemctl start: an active unit is left as it is, a stopped one starts on
\* the port its config file names now
Started(u) ==
  IF gateway[u] = Stopped THEN [gateway EXCEPT ![u] = [state |-> "login", port |-> config[u]]]
                          ELSE gateway

WriteConfig(t) ==
  /\ At(t, "config")
  /\ config' = [config EXCEPT ![User(t)] = request[t].port]
  /\ GoOn(t, "start_gateway")
  /\ UNCHANGED <<tables, systemd>>

StartGateway(t) ==
  /\ At(t, "start_gateway")
  /\ gateway' = Started(User(t))
  /\ GoOnInTime(t, "set_connected")
  /\ UNCHANGED <<tables, config, executor>>

\* for a user deleted meanwhile the row cannot be inserted, and this raises
SetConnected(t) ==
  /\ At(t, "set_connected")
  /\ connected' = connected \union ({User(t)} \intersect users)
  /\ Answer(t)
  /\ UNCHANGED <<users, credentials, live_port, config, systemd>>

\* Requires=ibgateway-live@%i: the Gateway is started along with the Executor
StartExecutor(t) ==
  /\ At(t, "start_executor")
  /\ gateway' = Started(User(t))
  /\ executor' = executor \union {User(t)}
  /\ Answer(t)
  /\ UNCHANGED <<tables, config>>

StopExecutor(t) ==
  /\ At(t, "stop_executor")
  /\ executor' = executor \ {User(t)}
  /\ GoOnInTime(t, "stop_gateway")
  /\ UNCHANGED <<tables, config, gateway>>

\* Requires=: stopping a Gateway stops the Executor of the user along with it
StopGateway(t) ==
  /\ At(t, "stop_gateway")
  /\ gateway' = [gateway EXCEPT ![User(t)] = Stopped]
  /\ executor' = executor \ {User(t)}
  /\ GoOnInTime(t, "clear_connected")
  /\ UNCHANGED <<tables, config>>

ClearConnected(t) ==
  /\ At(t, "clear_connected")
  /\ connected' = connected \ {User(t)}
  /\ Answer(t)
  /\ UNCHANGED <<users, credentials, live_port, config, systemd>>

\* systemctl says no: the unit stays as it is and nothing after it is done
SystemctlFails(t) ==
  /\ \E step \in {"start_gateway", "start_executor", "stop_executor", "stop_gateway"} : At(t, step)
  /\ Answer(t)
  /\ UNCHANGED <<tables, config, systemd>>

-----------------------------------------------------------------------------
(* The Gateway processes.                                                  *)

Listening(u) == gateway[u].state = "up"

\* the login is approved on the phone and the port is free to listen on
LogsIn(u) ==
  /\ gateway[u].state = "login" /\ gateway[u].port # NoPort
  /\ \A v \in Users : Listening(v) => gateway[v].port # gateway[u].port
  /\ gateway' = [gateway EXCEPT ![u].state = "up"]
  /\ UNCHANGED <<tables, config, executor, request>>

\* Restart=always: a process that ends is started again on its config file
Restarts(u) ==
  /\ gateway[u] # Stopped
  /\ gateway' = [gateway EXCEPT ![u] = [state |-> "login", port |-> config[u]]]
  /\ UNCHANGED <<tables, config, executor, request>>

HandlerStep(t) ==
  \/ LookPort(t) \/ PickPort(t) \/ InsertPort(t) \/ InsertFails(t)
  \/ WriteConfig(t) \/ StartGateway(t) \/ SetConnected(t)
  \/ StartExecutor(t) \/ StopExecutor(t) \/ StopGateway(t) \/ ClearConnected(t)
  \/ SystemctlFails(t)

Next ==
  \/ \E t \in Threads : HandlerStep(t) \/ \E op \in Ops, u \in Users : Ask(t, op, u)
  \/ \E u \in Users : SaveCredentials(u) \/ DeleteUser(u) \/ LogsIn(u) \/ Restarts(u)

Spec == Init /\ [][Next]_vars

-----------------------------------------------------------------------------
(* Properties.                                                             *)

\* Every variable stays within its type.
TypeOK ==
  /\ users \subseteq Users /\ credentials \subseteq users /\ connected \subseteq users
  /\ live_port \in [Users -> Ports \union {NoPort}]
  /\ config \in [Users -> Ports \union {NoPort}]
  /\ gateway \in [Users -> [state : UnitStates, port : Ports \union {NoPort}]]
  /\ executor \subseteq Users
  /\ request \in [Threads -> Request \union {Idle}]

\* An Executor reaches no broker account but its own user's ("trades only
\* that user's own account"), however requests interleave.
OwnAccount ==
  \A u \in executor, v \in Users :
    Listening(v) /\ gateway[v].port = live_port[u] => v = u

\* A user's port, once given, stays theirs as long as the user exists
\* ("assigned once on first use and reused forever after"), although any
\* number of status polls, cycles and connects may be assigning it at once.
PortPermanent ==
  [][\A u \in Users :
       live_port[u] # NoPort /\ u \in users' => live_port'[u] = live_port[u]]_vars

\* A Gateway that is up listens on the port its user's Executor looks for, so
\* that the Executor finds it - whatever file an earlier connect left behind,
\* whoever took the port meanwhile, and however often the unit was restarted.
OwnPort == \A u \in Users : Listening(u) => gateway[u].port = live_port[u]

-----------------------------------------------------------------------------
\* what a connect works with once get_or_assign_gateway_port has returned
HandedTo(t) ==
  IF request[t] # Idle /\ request[t].at \in {"config", "start_gateway", "set_connected"}
    THEN [user |-> User(t), port |-> request[t].port]
    ELSE [port |-> NoPort]

\* The table user_gateway and its callers, seen as the abstract registry.
Registry == INSTANCE PortRegistry WITH
  known <- users,
  lease <- live_port,
  handed <- [t \in Threads |-> HandedTo(t)]

\* Although its three statements interleave with those of other calls and with
\* deletions, get_or_assign_gateway_port is as good as one step: every call that
\* returns has the port the table holds for its user at that moment, and
\* assigns one only where there is none.
RegistrySpec == Registry!Spec

=============================================================================
