------------------------------- MODULE Accounts -------------------------------
(***************************************************************************)
(* Who may do what: the tables users and user_settings (db.py), the        *)
(* dashboard's sessions (web/auth.py) and its handlers that create, switch *)
(* off, promote and delete users and save settings (web/app.py), and what  *)
(* a user's Executor reads of them in every cycle (executor.py).           *)
(*                                                                         *)
(* Handlers run in threads and every db function is a transaction of its   *)
(* own, one step here.  A cookie carries a name and nothing else; a request*)
(* reads the row of that name once, when it is admitted, and goes on with  *)
(* the id it found there.                                                  *)
(*                                                                         *)
(* Left out: passwords, requests that only read, and that the units of a   *)
(* deleted user go on (see Gateway, whose requests also start and stop     *)
(* them); of the settings, all but trading_enabled.                        *)
(***************************************************************************)
EXTENDS Integers, FiniteSets

CONSTANTS
  Names,     \* bound: usernames tried
  Threads,   \* bound: requests served at once
  MaxId,     \* bound: users ever created
  Engines,   \* bound: ids whose Executor is followed
  MaxBusy    \* bound: requests and cycles under way at once

NoName == ""

ASSUME AccountsAssumption ==
  /\ NoName \notin Names
  /\ MaxId \in Nat \ {0} /\ Engines \subseteq 1 .. MaxId /\ MaxBusy \in Nat

VARIABLES
  users,     \* id -> its row, or NoUser
  settings,  \* id -> trading_enabled of its row: "on", "off" or "none"
  sequence,  \* the highest id given so far (AUTOINCREMENT)
  cookies,   \* the names some browser holds a valid cookie for
  request,   \* what each thread is doing
  engine     \* id -> the process of executor@<id>

vars == <<users, settings, sequence, cookies, request, engine>>

Ids == 1 .. MaxId
Nobody == 0
Roles == {"admin", "trader"}
NoUser == [name |-> NoName, role |-> "", active |-> FALSE]
UserRow == [name : Names, role : Roles, active : BOOLEAN]

Exists(u) == u \in Ids /\ users[u] # NoUser
Existing == {u \in Ids : Exists(u)}
Named(n) == {u \in Existing : users[u].name = n}

AdminOps == {"create", "toggle", "role", "delete"}
UserOps == {"settings"}
Idle == [op |-> "none"]

\* entitled is history: might the one who asks have changed the table users at
\* some time since the request came in?
Request == [op : AdminOps \union UserOps \union {"setup"}, name : Names \union {NoName},
            at : {"admit", "check", "write"}, user : Ids \union {Nobody},
            target : Ids \union {Nobody}, value : BOOLEAN, entitled : BOOLEAN]

At(t, op, step) == request[t] # Idle /\ request[t].op = op /\ request[t].at = step
Answer(t) == request' = [request EXCEPT ![t] = Idle]

ActiveAdmins(rows) == {u \in Ids : rows[u].role = "admin" /\ rows[u].active}

\* an active admin may; while there are no users, whoever sets the system up
Entitled(rows, op, n) ==
  CASE op \in AdminOps -> \E u \in ActiveAdmins(rows) : rows[u].name = n
    [] op = "setup" -> \A u \in Ids : rows[u] = NoUser
    [] OTHER -> FALSE

Off == [at |-> "off"]
\* trading is history: was it enabled at some time since the cycle began?
Running == [at : {"sleep", "cycle", "entries"}, username : Names, trading : BOOLEAN]

EngineAt(u, step) == engine[u] # Off /\ engine[u].at = step

Busy == {t \in Threads : request[t] # Idle}
          \union {u \in Engines : EngineAt(u, "cycle") \/ EngineAt(u, "entries")}

Init ==
  /\ users = [u \in Ids |-> NoUser]
  /\ settings = [u \in Ids |-> "none"]
  /\ sequence = 0
  /\ cookies = {}
  /\ request = [t \in Threads |-> Idle]
  /\ engine = [u \in Engines |-> Off]

-----------------------------------------------------------------------------
(* Sessions.                                                               *)

Login(n) ==
  /\ \E u \in Named(n) : users[u].active
  /\ cookies' = cookies \union {n}
  /\ UNCHANGED <<users, settings, sequence, request, engine>>

\* logout, or MAX_AGE_SECONDS are over
SessionEnds(n) ==
  /\ n \in cookies
  /\ cookies' = cookies \ {n}
  /\ UNCHANGED <<users, settings, sequence, request, engine>>

\* a request arrives; its cookie is read, its user is not yet
Ask(t, op, n) ==
  /\ request[t] = Idle /\ Cardinality(Busy) < MaxBusy
  /\ IF op = "setup" THEN n = NoName ELSE n \in cookies
  /\ request' = [request EXCEPT ![t] =
       [op |-> op, name |-> n, at |-> "admit", user |-> Nobody, target |-> Nobody,
        value |-> FALSE, entitled |-> Entitled(users, op, n)]]
  /\ UNCHANGED <<users, settings, sequence, cookies, engine>>

require_user(u) == users[u].active
require_user_alone(u) == require_user(u)
require_admin(u) == require_user(u) /\ users[u].role = "admin"

Admitted(op, u) == IF op \in AdminOps THEN require_admin(u) ELSE require_user(u)

Admit(t) ==
  /\ request[t] # Idle /\ request[t].at = "admit" /\ request[t].op # "setup"
  /\ \E u \in Named(request[t].name) :
       /\ Admitted(request[t].op, u)
       /\ request' = [request EXCEPT ![t].user = u, ![t].name = NoName, ![t].at =
            IF request[t].op \in {"create", "toggle"} THEN "check" ELSE "write"]
  /\ UNCHANGED <<users, settings, sequence, cookies, engine>>

\* 401 or 403
Refuse(t) ==
  /\ request[t] # Idle /\ request[t].at = "admit" /\ request[t].op # "setup"
  /\ ~\E u \in Named(request[t].name) : Admitted(request[t].op, u)
  /\ Answer(t)
  /\ UNCHANGED <<users, settings, sequence, cookies, engine>>

-----------------------------------------------------------------------------
(* Changing the table users.                                               *)

\* the transaction that ends thread t's request, as the other requests see it
Commit(t, rows) ==
  /\ users' = rows
  /\ request' = [s \in Threads |->
       IF s = t \/ request[s] = Idle THEN Idle
       ELSE IF request[s].at # "admit" THEN request[s]
       ELSE [request[s] EXCEPT !.entitled = @ \/ Entitled(rows, request[s].op, request[s].name)]]

\* any_users_exist, at the start of setup_submit
CheckSetup(t) ==
  /\ At(t, "setup", "admit")
  /\ IF Existing = {} THEN request' = [request EXCEPT ![t].at = "write"] ELSE Answer(t)
  /\ UNCHANGED <<users, settings, sequence, cookies, engine>>

\* get_user_by_username, before the password is hashed
CheckName(t) ==
  /\ At(t, "create", "check")
  /\ \E n \in Names :
       IF Named(n) = {} THEN request' = [request EXCEPT ![t].name = n, ![t].at = "write"]
                        ELSE Answer(t)
  /\ UNCHANGED <<users, settings, sequence, cookies, engine>>

InsertableUnchecked(n) == TRUE

\* username UNIQUE
Insertable(n) == Named(n) = {}

NewIdReusing == Cardinality(Existing) + 1

\* AUTOINCREMENT: the ids of deleted users are never given again
NewId == sequence + 1

RolesUnchecked == {"admin", "trader", "owner"}

\* create_user and set_user_role raise on any other role
RolesAccepted == Roles

\* create_user: the row and its settings, in one transaction
Creates(t, n, role) ==
  /\ sequence < MaxId
  /\ IF Insertable(n)
       THEN /\ Commit(t, [users EXCEPT ![NewId] =
                            [name |-> n, role |-> role, active |-> TRUE]])
            /\ settings' = [settings EXCEPT ![NewId] = "off"]
            /\ sequence' = NewId
            /\ cookies' = IF request[t].op = "setup" THEN cookies \union {n} ELSE cookies
       ELSE Answer(t) /\ UNCHANGED <<users, settings, sequence, cookies>>
  /\ UNCHANGED engine

Setup(t) == At(t, "setup", "write") /\ \E n \in Names : Creates(t, n, "admin")

Create(t) ==
  /\ At(t, "create", "write")
  /\ \E role \in RolesAccepted : Creates(t, request[t].name, role)

\* an UPDATE of a row that is gone changes nothing
Updated(u, row) == IF Exists(u) THEN [users EXCEPT ![u] = row] ELSE users

\* toggle_active reads the target, 404 if there is none, and writes back the
\* negation of what it read
ReadTarget(t) ==
  /\ At(t, "toggle", "check")
  /\ \E u \in Ids :
       IF Exists(u)
         THEN request' = [request EXCEPT ![t].at = "write", ![t].target = u,
                                         ![t].value = ~users[u].active]
         ELSE Answer(t)
  /\ UNCHANGED <<users, settings, sequence, cookies, engine>>

SetActive(t) ==
  /\ At(t, "toggle", "write")
  /\ LET u == request[t].target IN
     Commit(t, Updated(u, [users[u] EXCEPT !.active = request[t].value]))
  /\ UNCHANGED <<settings, sequence, cookies, engine>>

SetRole(t) ==
  /\ At(t, "role", "write")
  /\ \E u \in Ids, role \in RolesAccepted :
       Commit(t, Updated(u, [users[u] EXCEPT !.role = role]))
  /\ UNCHANGED <<settings, sequence, cookies, engine>>

AnyTarget(t) == Ids

\* nobody deletes themself
MayDelete(t) == Ids \ {request[t].user}

\* the settings go with the row (ON DELETE CASCADE)
Delete(t) ==
  /\ At(t, "delete", "write")
  /\ \E u \in MayDelete(t) :
       /\ Commit(t, Updated(u, NoUser))
       /\ settings' = [settings EXCEPT ![u] = "none"]
  /\ UNCHANGED <<sequence, cookies, engine>>

\* any other role (ValueError), one's own account (400), or a database that
\* stays locked
Fails(t) ==
  /\ request[t] # Idle /\ request[t].at = "write"
  /\ Answer(t)
  /\ UNCHANGED <<users, settings, sequence, cookies, engine>>

-----------------------------------------------------------------------------
(* A user's own requests.                                                  *)

HasOwnerUnchecked(u) == TRUE

\* user_id REFERENCES users: for a user who is gone the INSERT raises, also
\* as INSERT OR IGNORE
HasOwner(u) == Exists(u)

\* update_user_settings; an engine in the middle of a cycle may or may not
\* see it
SaveSettings(t) ==
  /\ At(t, "settings", "write")
  /\ Answer(t)
  /\ LET u == request[t].user IN
     \/ ~HasOwner(u) /\ UNCHANGED <<settings, engine>>
     \/ HasOwner(u) /\ \E enabled \in {"on", "off"} :
          /\ settings' = [settings EXCEPT ![u] = enabled]
          /\ engine' = IF enabled = "on" /\ u \in Engines /\ engine[u] # Off
                         THEN [engine EXCEPT ![u].trading = TRUE] ELSE engine
  /\ UNCHANGED <<users, sequence, cookies>>

\* get_user_settings, which inserts a row when there is none
RowRead(u) == IF HasOwner(u) /\ settings[u] = "none" THEN [settings EXCEPT ![u] = "off"] ELSE settings

-----------------------------------------------------------------------------
(* The Executor of user u: main and run_cycle.                             *)

\* The unit is started by a request (see Gateway) or again by systemd; main
\* reads the user once, and exits when there is none.
EngineStarts(u) ==
  /\ engine[u] = Off /\ Exists(u)
  /\ engine' = [engine EXCEPT ![u] =
                  [at |-> "sleep", username |-> users[u].name, trading |-> FALSE]]
  /\ UNCHANGED <<users, settings, sequence, cookies, request>>

\* stopped by a request, or crashed
EngineStops(u) ==
  /\ engine[u] # Off
  /\ engine' = [engine EXCEPT ![u] = Off]
  /\ UNCHANGED <<users, settings, sequence, cookies, request>>

CycleBegins(u) ==
  /\ EngineAt(u, "sleep") /\ Cardinality(Busy) < MaxBusy
  /\ engine' = [engine EXCEPT ![u].at = "cycle", ![u].trading = settings[u] = "on"]
  /\ UNCHANGED <<users, settings, sequence, cookies, request>>

GoesOnAnyway(u) == TRUE

\* if settings["trading_enabled"]
GoesOn(u) == settings[u] = "on"

\* after the open positions were managed, which takes its time
ReadSettings(u) ==
  /\ EngineAt(u, "cycle")
  /\ settings' = RowRead(u)
  /\ engine' = [engine EXCEPT ![u].at = IF HasOwner(u) /\ GoesOn(u) THEN "entries" ELSE "sleep"]
  /\ UNCHANGED <<users, sequence, cookies, request>>

\* entries made or not; or the cycle fails, or is not in the entry window
CycleEnds(u) ==
  /\ EngineAt(u, "cycle") \/ EngineAt(u, "entries")
  /\ engine' = [engine EXCEPT ![u].at = "sleep", ![u].trading = FALSE]
  /\ UNCHANGED <<users, settings, sequence, cookies, request>>

-----------------------------------------------------------------------------
Handler(t) ==
  \/ Admit(t) \/ Refuse(t) \/ CheckSetup(t) \/ Setup(t) \/ CheckName(t) \/ Create(t)
  \/ ReadTarget(t) \/ SetActive(t) \/ SetRole(t) \/ Delete(t) \/ Fails(t)
  \/ SaveSettings(t)

Engine(u) ==
  EngineStarts(u) \/ EngineStops(u) \/ CycleBegins(u) \/ ReadSettings(u) \/ CycleEnds(u)

Next ==
  \/ \E n \in Names : Login(n) \/ SessionEnds(n)
  \/ \E t \in Threads :
       Handler(t) \/ \E op \in AdminOps \union UserOps \union {"setup"}, n \in Names \union {NoName} : Ask(t, op, n)
  \/ \E u \in Engines : Engine(u)

Spec == Init /\ [][Next]_vars

-----------------------------------------------------------------------------
(* Properties.                                                             *)

\* Every variable stays within its type; no id beyond the last one given has
\* a row.
TypeOK ==
  /\ users \in [Ids -> UserRow \union {NoUser}]
  /\ settings \in [Ids -> {"on", "off", "none"}]
  /\ sequence \in 0 .. MaxId /\ Existing \subseteq 1 .. sequence
  /\ cookies \subseteq Names
  /\ request \in [Threads -> Request \union {Idle}]
  /\ engine \in [Engines -> Running \union {Off}]

\* A name leads to one user, although names are checked in one transaction
\* and inserted in another, by any number of admins and setups at once.
NamesUnique == \A u, v \in Existing : users[u].name = users[v].name => u = v

\* A user has settings and settings have a user, although requests and cycles
\* that were let in before a user was deleted write them after.
SettingsFollowUsers == \A u \in Ids : Exists(u) <=> settings[u] # "none"

\* "an admin demotion (or deactivation) takes effect on the very next
\* request": whoever changes the table users was an active admin, or found
\* the table empty, at some time since the request came in.
DemotionIsPrompt ==
  [][users' # users =>
       \E t \in Threads : request[t] # Idle /\ request'[t] = Idle
                            /\ request[t].entitled]_vars

\* The last active admin is lost only by their own doing, switched off or
\* demoted by themself, or by one who was no longer an active admin when
\* their request was carried out; deleting one after the other never does it.
LastAdminLost ==
  [][ActiveAdmins(users) # {} /\ ActiveAdmins(users') = {} =>
       \E t \in Threads :
         /\ request[t] # Idle /\ request'[t] = Idle
         /\ \/ request[t].user \notin ActiveAdmins(users)
            \/ request[t].op \in {"toggle", "role"} /\ ActiveAdmins(users) = {request[t].user}]_vars

\* An Executor that outlives its user never trades for another: as long as
\* there is a user of its id, it is the one it was started for.
EngineKeepsItsUser ==
  \A u \in Engines : engine[u] # Off /\ Exists(u) => engine[u].username = users[u].name

\* Entries are made only in a cycle in which trading was enabled at some time
\* for a user who existed: switching it off, or deleting the user, is seen by
\* the next cycle, while a cycle under way may miss it.
PauseIsPrompt == \A u \in Engines : EngineAt(u, "entries") => engine[u].trading

=============================================================================
