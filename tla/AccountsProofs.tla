---------------------------- MODULE AccountsProofs ----------------------------
(***************************************************************************)
(* Theorems about Accounts, for any names, threads, engines and bounds.    *)
(***************************************************************************)
EXTENDS Accounts, TLAPS

\* A request is entitled when it has been admitted to change users, and while
\* it waits to be, as soon as it could be admitted; a user is created under a
\* name.
RequestsInOrder ==
  \A t \in Threads : request[t] # Idle =>
    /\ request[t].at = "admit" /\ Entitled(users, request[t].op, request[t].name) =>
         request[t].entitled
    /\ request[t].at # "admit" /\ request[t].op \notin UserOps => request[t].entitled
    /\ At(t, "create", "write") => request[t].name \in Names

\* An engine runs only for an id that was given.
EnginesGiven == \A u \in Engines : engine[u] # Off => u <= sequence

\* While trading is enabled, a cycle under way has had the chance to see it.
CycleSees ==
  \A u \in Engines :
    (EngineAt(u, "cycle") \/ EngineAt(u, "entries")) /\ settings[u] = "on" => engine[u].trading

IInv ==
  /\ TypeOK /\ RequestsInOrder /\ EnginesGiven /\ CycleSees
  /\ NamesUnique /\ SettingsFollowUsers /\ EngineKeepsItsUser /\ PauseIsPrompt

\* What a step may do to the tables.
Created(t, n, role) ==
  /\ n \in Names /\ role \in Roles /\ NewId \in Ids /\ Insertable(n)
  /\ Commit(t, [users EXCEPT ![NewId] = [name |-> n, role |-> role, active |-> TRUE]])
  /\ settings' = [settings EXCEPT ![NewId] = "off"]
  /\ sequence' = NewId /\ UNCHANGED engine

Changed(t, u, row) ==
  /\ Exists(u) /\ row \in UserRow /\ row.name = users[u].name
  /\ Commit(t, [users EXCEPT ![u] = row])
  /\ UNCHANGED <<settings, sequence, engine>>

Removed(t, u) ==
  /\ u \in Ids /\ u # request[t].user
  /\ Commit(t, Updated(u, NoUser))
  /\ settings' = [settings EXCEPT ![u] = "none"]
  /\ UNCHANGED <<sequence, engine>>

Kept == UNCHANGED <<users, sequence>>

-----------------------------------------------------------------------------
\* A row is either a user's or none.
LEMMA RowTypes ==
  ASSUME AccountsAssumption
  PROVE  /\ NoUser \notin UserRow
         /\ Idle \notin Request
         /\ Off \notin Running
BY DEF AccountsAssumption, NoUser, UserRow, Idle, Request, Off, Running, AdminOps, UserOps

\* Entitlement is true or false.
LEMMA EntitledBoolean ==
  ASSUME NEW rows, NEW op, NEW n
  PROVE  Entitled(rows, op, n) \in BOOLEAN
BY DEF Entitled

\* The empty tables, with nobody logged in and no engine, satisfy the invariant.
LEMMA InitInv == AccountsAssumption /\ Init => IInv
<1> SUFFICES ASSUME AccountsAssumption, Init PROVE IInv
  OBVIOUS
<1> USE DEF AccountsAssumption, Init, Ids
<1>1. Existing = {}
  BY DEF Existing, Exists
<1>2. TypeOK
  BY <1>1 DEF TypeOK
<1>3. RequestsInOrder
  BY DEF RequestsInOrder
<1>4. EnginesGiven /\ CycleSees /\ EngineKeepsItsUser /\ PauseIsPrompt
  BY DEF EnginesGiven, CycleSees, EngineKeepsItsUser, PauseIsPrompt, EngineAt
<1>5. NamesUnique /\ SettingsFollowUsers
  BY <1>1 DEF NamesUnique, SettingsFollowUsers, Exists
<1> QED
  BY <1>2, <1>3, <1>4, <1>5 DEF IInv

\* Committing rows of the right type leaves users and requests in order.
LEMMA CommitType ==
  ASSUME TypeOK, NEW t \in Threads, NEW rows \in [Ids -> UserRow \union {NoUser}],
         Commit(t, rows)
  PROVE  /\ users' \in [Ids -> UserRow \union {NoUser}]
         /\ request' \in [Threads -> Request \union {Idle}]
<1>1. ASSUME NEW s \in Threads
      PROVE  request'[s] \in Request \union {Idle}
  <2>1. CASE s = t \/ request[s] = Idle
    BY <2>1 DEF Commit
  <2>2. CASE ~(s = t \/ request[s] = Idle) /\ request[s].at # "admit"
    BY <2>2 DEF Commit, TypeOK
  <2>3. CASE ~(s = t \/ request[s] = Idle) /\ request[s].at = "admit"
    <3> DEFINE e == request[s].entitled \/ Entitled(rows, request[s].op, request[s].name)
    <3>1. request[s] \in Request
      BY <2>3 DEF TypeOK
    <3>2. e \in BOOLEAN
      BY EntitledBoolean
    <3>3. request'[s] = [request[s] EXCEPT !.entitled = e]
      BY <2>3 DEF Commit
    <3> HIDE DEF e
    <3> QED
      BY <3>1, <3>2, <3>3 DEF Request
  <2> QED
    BY <2>1, <2>2, <2>3
<1>2. request' = [s \in Threads |-> request'[s]]
  BY DEF Commit
<1> QED
  BY <1>1, <1>2 DEF Commit

\* A creation inserts a row that is new in every respect, or fails.
LEMMA CreationStep ==
  ASSUME AccountsAssumption, IInv, NEW t \in Threads, Setup(t) \/ Create(t)
  PROVE  \/ \E n, role : Created(t, n, role)
         \/ Answer(t) /\ UNCHANGED <<users, settings, sequence, cookies, engine>>
<1>1. sequence \in Nat /\ MaxId \in Nat
  BY DEF IInv, TypeOK, AccountsAssumption
<1>2. ASSUME NEW n \in Names, NEW role \in Roles, Creates(t, n, role)
      PROVE  \/ Created(t, n, role)
             \/ Answer(t) /\ UNCHANGED <<users, settings, sequence, cookies, engine>>
  <2>1. NewId \in Ids
    BY <1>1, <1>2 DEF Creates, NewId, Ids
  <2>2. CASE Insertable(n)
    <3>1. Commit(t, [users EXCEPT ![NewId] = [name |-> n, role |-> role, active |-> TRUE]])
      BY <1>2, <2>2, Zenon DEF Creates
    <3>2. settings' = [settings EXCEPT ![NewId] = "off"] /\ sequence' = NewId /\ UNCHANGED engine
      BY <1>2, <2>2, Zenon DEF Creates
    <3> QED
      BY <2>1, <2>2, <3>1, <3>2, Zenon DEF Created
  <2>3. CASE ~Insertable(n)
    BY <1>2, <2>3, Zenon DEF Creates
  <2> QED
    BY <2>2, <2>3
<1>3. CASE Setup(t)
  <2>1. PICK n \in Names : Creates(t, n, "admin")
    BY <1>3 DEF Setup
  <2>2. "admin" \in Roles
    BY DEF Roles
  <2> QED
    BY <2>1, <2>2, <1>2, Zenon
<1>4. CASE Create(t)
  <2>1. PICK role \in Roles : Creates(t, request[t].name, role)
    BY <1>4 DEF Create, RolesAccepted
  <2>2. request[t].name \in Names
    BY <1>4 DEF Create, IInv, RequestsInOrder, At
  <2> QED
    BY <2>1, <2>2, <1>2, Zenon
<1> QED
  BY <1>3, <1>4

\* Activation and roles change one row and not its name.
LEMMA ChangeStep ==
  ASSUME AccountsAssumption, IInv, NEW t \in Threads, SetActive(t) \/ SetRole(t)
  PROVE  \/ \E u, row : Changed(t, u, row)
         \/ Commit(t, users) /\ UNCHANGED <<settings, sequence, engine>>
<1>1. ASSUME NEW u, Exists(u)
      PROVE  users[u] \in UserRow
  BY <1>1 DEF Exists, IInv, TypeOK
<1>2. CASE SetActive(t)
  <2> DEFINE u == request[t].target
             row == [users[u] EXCEPT !.active = request[t].value]
  <2>1. Commit(t, Updated(u, row)) /\ UNCHANGED <<settings, sequence, engine>>
    BY <1>2 DEF SetActive
  <2>2. request[t] \in Request
    BY <1>2 DEF SetActive, At, IInv, TypeOK
  <2>3. request[t].value \in BOOLEAN
    BY <2>2 DEF Request
  <2>4. CASE Exists(u)
    <3>1. users[u] \in UserRow
      BY <2>4, <1>1
    <3>2. row \in UserRow /\ row.name = users[u].name
      BY <3>1, <2>3 DEF UserRow
    <3>3. Commit(t, [users EXCEPT ![u] = row])
      BY <2>1, <2>4 DEF Updated
    <3> QED
      BY <2>1, <2>4, <3>2, <3>3 DEF Changed
  <2>5. CASE ~Exists(u)
    BY <2>1, <2>5 DEF Updated
  <2> QED
    BY <2>4, <2>5
<1>3. CASE SetRole(t)
  <2>1. PICK u \in Ids, role \in Roles :
          Commit(t, Updated(u, [users[u] EXCEPT !.role = role]))
    BY <1>3 DEF SetRole, RolesAccepted
  <2>2. UNCHANGED <<settings, sequence, engine>>
    BY <1>3 DEF SetRole
  <2> DEFINE row == [users[u] EXCEPT !.role = role]
  <2>3. CASE Exists(u)
    <3>1. row \in UserRow /\ row.name = users[u].name
      BY <2>3, <1>1 DEF UserRow
    <3>2. Commit(t, [users EXCEPT ![u] = row])
      BY <2>1, <2>3 DEF Updated
    <3> QED
      BY <2>2, <2>3, <3>1, <3>2 DEF Changed
  <2>4. CASE ~Exists(u)
    BY <2>1, <2>2, <2>4 DEF Updated
  <2> QED
    BY <2>3, <2>4
<1> QED
  BY <1>2, <1>3

\* A deletion is of another than the one who asks, and takes the settings along.
LEMMA RemovalStep ==
  ASSUME NEW t \in Threads, Delete(t)
  PROVE  \E u : Removed(t, u)
BY DEF Delete, MayDelete, Removed

\* Every step keeps the type invariant.
LEMMA TypeStep ==
  ASSUME AccountsAssumption, IInv, [Next]_vars
  PROVE  TypeOK'
<1> USE DEF Ids
<1>1. /\ users \in [Ids -> UserRow \union {NoUser}] /\ settings \in [Ids -> {"on", "off", "none"}]
      /\ sequence \in 0 .. MaxId /\ MaxId \in Nat /\ Existing \subseteq 1 .. sequence
      /\ cookies \subseteq Names /\ request \in [Threads -> Request \union {Idle}]
      /\ engine \in [Engines -> Running \union {Off}] /\ TypeOK
  BY DEF IInv, TypeOK, AccountsAssumption
<1>2. CASE UNCHANGED vars
  BY <1>1, <1>2 DEF vars, TypeOK, Existing, Exists
<1>3. ASSUME NEW n \in Names, Login(n) \/ SessionEnds(n)
      PROVE  TypeOK'
  BY <1>1, <1>3 DEF Login, SessionEnds, TypeOK, Existing, Exists
<1>4. ASSUME NEW t \in Threads, NEW op \in AdminOps \union UserOps \union {"setup"},
             NEW n \in Names \union {NoName}, Ask(t, op, n)
      PROVE  TypeOK'
  <2> DEFINE e == Entitled(users, op, n)
             r == [op |-> op, name |-> n, at |-> "admit", user |-> Nobody, target |-> Nobody,
                   value |-> FALSE, entitled |-> e]
  <2>1. e \in BOOLEAN
    BY EntitledBoolean
  <2>2. request' = [request EXCEPT ![t] = r]
    BY <1>4, Zenon DEF Ask
  <2> HIDE DEF e
  <2>3. r \in Request
    BY <2>1 DEF Request
  <2>4. request' \in [Threads -> Request \union {Idle}]
    <3> HIDE DEF r
    <3> QED
      BY <1>1, <2>2, <2>3
  <2>5. UNCHANGED <<users, settings, sequence, cookies, engine>>
    BY <1>4 DEF Ask
  <2> QED
    BY <1>1, <2>4, <2>5 DEF TypeOK, Existing, Exists
<1>5. ASSUME NEW t \in Threads, Answer(t)
      PROVE  request' \in [Threads -> Request \union {Idle}]
  BY <1>1, <1>5 DEF Answer
<1>6. ASSUME NEW t \in Threads,
             Admit(t) \/ Refuse(t) \/ CheckSetup(t) \/ CheckName(t) \/ ReadTarget(t) \/ Fails(t)
      PROVE  TypeOK'
  <2>1. UNCHANGED <<users, settings, sequence, cookies, engine>>
    BY <1>6 DEF Admit, Refuse, CheckSetup, CheckName, ReadTarget, Fails
  <2>2. request[t] \in Request
    BY <1>1, <1>6 DEF Admit, Refuse, CheckSetup, CheckName, ReadTarget, Fails, At
  <2>3. CASE Answer(t)
    BY <1>1, <1>5, <2>1, <2>3 DEF TypeOK, Existing, Exists
  <2>4. CASE Admit(t)
    <3>1. PICK u \in Named(request[t].name) :
            request' = [request EXCEPT ![t].user = u, ![t].name = NoName, ![t].at =
              IF request[t].op \in {"create", "toggle"} THEN "check" ELSE "write"]
      BY <2>4, Zenon DEF Admit
    <3>2. u \in Ids
      BY <3>1 DEF Named, Existing
    <3>3. request' \in [Threads -> Request \union {Idle}]
      BY <1>1, <2>2, <3>1, <3>2 DEF Request
    <3> QED
      BY <1>1, <2>1, <3>3 DEF TypeOK, Existing, Exists
  <2>5. CASE CheckSetup(t) /\ ~Answer(t)
    <3>1. request' = [request EXCEPT ![t].at = "write"]
      BY <2>5, Zenon DEF CheckSetup
    <3>2. request' \in [Threads -> Request \union {Idle}]
      BY <1>1, <2>2, <3>1 DEF Request
    <3> QED
      BY <1>1, <2>1, <3>2 DEF TypeOK, Existing, Exists
  <2>6. CASE CheckName(t) /\ ~Answer(t)
    <3>1. PICK n \in Names : request' = [request EXCEPT ![t].name = n, ![t].at = "write"]
      BY <2>6, Zenon DEF CheckName
    <3>2. request' \in [Threads -> Request \union {Idle}]
      BY <1>1, <2>2, <3>1 DEF Request
    <3> QED
      BY <1>1, <2>1, <3>2 DEF TypeOK, Existing, Exists
  <2>7. CASE ReadTarget(t) /\ ~Answer(t)
    <3>1. PICK u \in Ids : /\ Exists(u)
                           /\ request' = [request EXCEPT ![t].at = "write", ![t].target = u,
                                                         ![t].value = ~users[u].active]
      BY <2>7, Zenon DEF ReadTarget
    <3> DEFINE v == ~users[u].active
    <3>2. v \in BOOLEAN
      OBVIOUS
    <3>3. request' = [request EXCEPT ![t].at = "write", ![t].target = u, ![t].value = v]
      BY <3>1, Zenon
    <3> HIDE DEF v
    <3>4. request' \in [Threads -> Request \union {Idle}]
      BY <1>1, <2>2, <3>2, <3>3 DEF Request
    <3> QED
      BY <1>1, <2>1, <3>4 DEF TypeOK, Existing, Exists
  <2> QED
    BY <1>6, <2>3, <2>4, <2>5, <2>6, <2>7 DEF Refuse, Fails
<1>7. ASSUME NEW t \in Threads, Setup(t) \/ Create(t)
      PROVE  TypeOK'
  <2>1. cookies' \subseteq Names
    BY <1>1, <1>7 DEF Setup, Create, Creates, IInv, RequestsInOrder, At
  <2>2. CASE Answer(t) /\ UNCHANGED <<users, settings, sequence, cookies, engine>>
    BY <1>1, <1>5, <2>2 DEF TypeOK, Existing, Exists
  <2>3. ASSUME NEW n, NEW role, Created(t, n, role)
        PROVE  TypeOK'
    <3> DEFINE row == [name |-> n, role |-> role, active |-> TRUE]
               rows == [users EXCEPT ![NewId] = row]
    <3>1. row \in UserRow /\ NewId \in Ids /\ Commit(t, rows)
      BY <2>3 DEF Created, UserRow
    <3>2. rows \in [Ids -> UserRow \union {NoUser}]
      BY <1>1, <3>1
    <3>3. /\ users' \in [Ids -> UserRow \union {NoUser}]
          /\ request' \in [Threads -> Request \union {Idle}]
      BY <1>1, <3>1, <3>2, CommitType
    <3>4. /\ settings' \in [Ids -> {"on", "off", "none"}]
          /\ sequence' = sequence + 1 /\ sequence' \in 0 .. MaxId /\ engine' = engine
      BY <1>1, <2>3 DEF Created, NewId
    <3>5. users' = rows
      BY <3>1 DEF Commit
    <3>6. Existing' \subseteq 1 .. sequence'
      BY <1>1, <3>4, <3>5 DEF Existing, Exists, NewId
    <3> QED
      BY <1>1, <2>1, <3>3, <3>4, <3>6 DEF TypeOK
  <2> QED
    BY <1>7, <2>2, <2>3, CreationStep
<1>8. ASSUME NEW t \in Threads, SetActive(t) \/ SetRole(t)
      PROVE  TypeOK'
  <2>1. UNCHANGED <<settings, sequence, cookies, engine>>
    BY <1>8 DEF SetActive, SetRole
  <2>2. ASSUME NEW rows \in [Ids -> UserRow \union {NoUser}], Commit(t, rows),
               \A v \in Ids : rows[v] # NoUser => users[v] # NoUser
        PROVE  TypeOK'
    <3>1. /\ users' \in [Ids -> UserRow \union {NoUser}]
          /\ request' \in [Threads -> Request \union {Idle}]
      BY <1>1, <2>2, CommitType
    <3>2. Existing' \subseteq Existing
      BY <2>2 DEF Existing, Exists, Commit
    <3> QED
      BY <1>1, <2>1, <3>1, <3>2 DEF TypeOK
  <2>3. CASE Commit(t, users)
    BY <1>1, <2>2, <2>3
  <2>4. ASSUME NEW u, NEW row, Changed(t, u, row)
        PROVE  TypeOK'
    <3>1. /\ row \in UserRow /\ u \in Ids /\ users[u] # NoUser
          /\ Commit(t, [users EXCEPT ![u] = row])
      BY <2>4 DEF Changed, Exists
    <3>2. [users EXCEPT ![u] = row] \in [Ids -> UserRow \union {NoUser}]
      BY <1>1, <3>1
    <3>3. \A v \in Ids : [users EXCEPT ![u] = row][v] # NoUser => users[v] # NoUser
      BY <1>1, <3>1
    <3> QED
      BY <2>2, <3>1, <3>2, <3>3
  <2> QED
    BY <1>8, <2>3, <2>4, ChangeStep
<1>9. ASSUME NEW t \in Threads, Delete(t)
      PROVE  TypeOK'
  <2>1. PICK u : Removed(t, u)
    BY <1>9, RemovalStep
  <2>2. u \in Ids /\ Commit(t, Updated(u, NoUser)) /\ UNCHANGED <<sequence, engine>>
        /\ settings' = [settings EXCEPT ![u] = "none"]
    BY <2>1 DEF Removed
  <2>3. Updated(u, NoUser) \in [Ids -> UserRow \union {NoUser}]
    BY <1>1, <2>2 DEF Updated
  <2>4. /\ users' \in [Ids -> UserRow \union {NoUser}]
        /\ request' \in [Threads -> Request \union {Idle}]
    BY <1>1, <2>2, <2>3, CommitType
  <2>5. \A v \in Ids : users'[v] # NoUser => users[v] # NoUser
    BY <1>1, <2>2 DEF Commit, Updated
  <2>6. Existing' \subseteq Existing
    BY <2>5 DEF Existing, Exists
  <2>7. cookies' = cookies
    BY <1>9 DEF Delete
  <2> QED
    BY <1>1, <2>2, <2>4, <2>6, <2>7 DEF TypeOK
<1>10. ASSUME NEW t \in Threads, SaveSettings(t)
       PROVE  TypeOK'
  <2>1. request' \in [Threads -> Request \union {Idle}] /\ UNCHANGED <<users, sequence, cookies>>
    BY <1>5, <1>10 DEF SaveSettings
  <2>2. settings' \in [Ids -> {"on", "off", "none"}]
    BY <1>1, <1>10 DEF SaveSettings
  <2>3. engine' \in [Engines -> Running \union {Off}]
    <3> DEFINE u == request[t].user
    <3>1. CASE engine' = engine
      BY <1>1, <3>1
    <3>2. CASE u \in Engines /\ engine[u] # Off /\ engine' = [engine EXCEPT ![u].trading = TRUE]
      <4>1. engine[u] \in Running
        BY <1>1, <3>2
      <4>2. [engine[u] EXCEPT !.trading = TRUE] \in Running
        BY <4>1 DEF Running
      <4> QED
        BY <1>1, <3>2, <4>2
    <3> QED
      BY <1>10, <3>1, <3>2 DEF SaveSettings
  <2> QED
    BY <1>1, <2>1, <2>2, <2>3 DEF TypeOK, Existing, Exists
<1>11. ASSUME NEW u \in Engines, Engine(u)
       PROVE  TypeOK'
  <2>1. UNCHANGED <<users, sequence, cookies, request>>
    BY <1>11 DEF Engine, EngineStarts, EngineStops, CycleBegins, ReadSettings, CycleEnds
  <2>2. settings' \in [Ids -> {"on", "off", "none"}]
    BY <1>1, <1>11 DEF Engine, EngineStarts, EngineStops, CycleBegins, ReadSettings, CycleEnds, RowRead
  <2>3. engine' \in [Engines -> Running \union {Off}]
    <3>1. CASE EngineStarts(u)
      <4>1. users[u] \in UserRow
        BY <1>1, <3>1 DEF EngineStarts, Exists
      <4> QED
        BY <1>1, <3>1, <4>1 DEF EngineStarts, Running, UserRow
    <3>2. CASE EngineStops(u)
      BY <1>1, <3>2 DEF EngineStops
    <3>3. CASE CycleBegins(u)
      <4> DEFINE on == settings[u] = "on"
      <4>1. engine' = [engine EXCEPT ![u].at = "cycle", ![u].trading = on] /\ engine[u] \in Running
        BY <1>1, <3>3 DEF CycleBegins, EngineAt
      <4>2. on \in BOOLEAN
        OBVIOUS
      <4> HIDE DEF on
      <4> QED
        BY <1>1, <4>1, <4>2 DEF Running
    <3>4. CASE ReadSettings(u)
      BY <1>1, <3>4 DEF ReadSettings, EngineAt, Running
    <3>5. CASE CycleEnds(u)
      BY <1>1, <3>5 DEF CycleEnds, EngineAt, Running
    <3> QED
      BY <1>11, <3>1, <3>2, <3>3, <3>4, <3>5 DEF Engine
  <2> QED
    BY <1>1, <2>1, <2>2, <2>3 DEF TypeOK, Existing, Exists
<1> QED
  BY <1>2, <1>3, <1>4, <1>6, <1>7, <1>8, <1>9, <1>10, <1>11 DEF Next, Handler

\* What RequestsInOrder says of one request.
InOrder(r, rows) ==
  r # Idle =>
    /\ r.at = "admit" /\ Entitled(rows, r.op, r.name) => r.entitled
    /\ r.at # "admit" /\ r.op \notin UserOps => r.entitled
    /\ r.op = "create" /\ r.at = "write" => r.name \in Names

\* RequestsInOrder, thread by thread.
LEMMA InOrderAll == RequestsInOrder <=> \A t \in Threads : InOrder(request[t], users)
BY DEF RequestsInOrder, InOrder, At

\* The same of the next state.
LEMMA InOrderAllNext == RequestsInOrder' <=> \A t \in Threads : InOrder(request'[t], users')
BY DEF RequestsInOrder, InOrder, At, Entitled, ActiveAdmins

\* The transaction that may entitle a waiting request says so.
LEMMA CommitOrder ==
  ASSUME TypeOK, RequestsInOrder, NEW t \in Threads, NEW rows, Commit(t, rows)
  PROVE  RequestsInOrder'
<1>1. SUFFICES ASSUME NEW s \in Threads PROVE InOrder(request'[s], users')
  BY InOrderAllNext
<1>2. users' = rows
  BY DEF Commit
<1>3. InOrder(request[s], users)
  BY InOrderAll
<1>4. CASE s = t \/ request[s] = Idle
  BY <1>4 DEF Commit, InOrder
<1>5. CASE ~(s = t \/ request[s] = Idle) /\ request[s].at # "admit"
  <2>1. request'[s] = request[s]
    BY <1>5 DEF Commit
  <2> QED
    BY <1>3, <1>5, <2>1 DEF InOrder
<1>6. CASE ~(s = t \/ request[s] = Idle) /\ request[s].at = "admit"
  <2> DEFINE e == request[s].entitled \/ Entitled(rows, request[s].op, request[s].name)
  <2>1. request[s] \in Request
    BY <1>6 DEF TypeOK
  <2>2. request'[s] = [request[s] EXCEPT !.entitled = e]
    BY <1>6 DEF Commit
  <2>3. Entitled(rows, request[s].op, request[s].name) => e
    OBVIOUS
  <2> HIDE DEF e
  <2>4. /\ request'[s].at = "admit" /\ request'[s].entitled = e
        /\ request'[s].op = request[s].op /\ request'[s].name = request[s].name
    BY <1>6, <2>1, <2>2 DEF Request
  <2> QED
    BY <1>2, <2>3, <2>4, Zenon DEF InOrder
<1> QED
  BY <1>4, <1>5, <1>6

\* Requests stay in order.
LEMMA OrderStep ==
  ASSUME AccountsAssumption, IInv, [Next]_vars
  PROVE  RequestsInOrder'
<1>1. TypeOK /\ RequestsInOrder /\ request \in [Threads -> Request \union {Idle}]
  BY DEF IInv, TypeOK
<1>2. CASE UNCHANGED <<users, request>>
  BY <1>1, <1>2, InOrderAll, InOrderAllNext
<1>3. ASSUME NEW t \in Threads, NEW r, users' = users, request' = [request EXCEPT ![t] = r],
             InOrder(r, users)
      PROVE  RequestsInOrder'
  <2> SUFFICES ASSUME NEW s \in Threads PROVE InOrder(request'[s], users')
    BY InOrderAllNext
  <2>1. CASE s = t
    BY <1>1, <1>3, <2>1
  <2>2. CASE s # t
    BY <1>1, <1>3, <2>2, InOrderAll
  <2> QED
    BY <2>1, <2>2
<1>4. ASSUME NEW t \in Threads, users' = users, Answer(t)
      PROVE  RequestsInOrder'
  BY <1>3, <1>4 DEF Answer, InOrder
<1>5. ASSUME NEW t \in Threads, NEW op \in AdminOps \union UserOps \union {"setup"},
             NEW n \in Names \union {NoName}, Ask(t, op, n)
      PROVE  RequestsInOrder'
  <2> DEFINE r == [op |-> op, name |-> n, at |-> "admit", user |-> Nobody, target |-> Nobody,
                   value |-> FALSE, entitled |-> Entitled(users, op, n)]
  <2>1. users' = users /\ request' = [request EXCEPT ![t] = r]
    BY <1>5, Zenon DEF Ask
  <2>2. InOrder(r, users)
    BY Zenon DEF InOrder
  <2> HIDE DEF r
  <2> QED
    BY <1>3, <2>1, <2>2
<1>6. ASSUME NEW t \in Threads, Admit(t)
      PROVE  RequestsInOrder'
  <2>1. PICK u \in Named(request[t].name) :
          /\ Admitted(request[t].op, u)
          /\ request' = [request EXCEPT ![t].user = u, ![t].name = NoName, ![t].at =
               IF request[t].op \in {"create", "toggle"} THEN "check" ELSE "write"]
    BY <1>6, Zenon DEF Admit
  <2>2. request[t] \in Request /\ request[t].at = "admit" /\ request[t].op # "setup" /\ users' = users
    BY <1>1, <1>6 DEF Admit
  <2>3. request[t].op \in AdminOps => request[t].entitled
    <3>1. CASE request[t].op \in AdminOps
      <4>1. u \in ActiveAdmins(users) /\ users[u].name = request[t].name
        BY <2>1, <3>1 DEF Admitted, require_admin, require_user, ActiveAdmins, Named, Existing, Exists
      <4>2. Entitled(users, request[t].op, request[t].name)
        BY <3>1, <4>1 DEF Entitled, AdminOps
      <4>3. InOrder(request[t], users) /\ request[t] # Idle
        BY <1>1, <1>6, InOrderAll DEF Admit
      <4> QED
        BY <2>2, <4>2, <4>3, Zenon DEF InOrder
    <3> QED
      BY <3>1
  <2> DEFINE r == [request[t] EXCEPT !.user = u, !.name = NoName, !.at =
                     IF request[t].op \in {"create", "toggle"} THEN "check" ELSE "write"]
  <2>4. request' = [request EXCEPT ![t] = r]
    BY <1>1, <2>1
  <2>5. /\ r.at = IF request[t].op \in {"create", "toggle"} THEN "check" ELSE "write"
        /\ r.op = request[t].op /\ r.entitled = request[t].entitled
    BY <2>2 DEF Request
  <2>6. request[t].op \notin UserOps => request[t].op \in AdminOps
    BY <2>2 DEF Request
  <2> HIDE DEF r
  <2>7. InOrder(r, users)
    BY <2>3, <2>5, <2>6, Zenon DEF InOrder
  <2> QED
    BY <1>3, <2>2, <2>4, <2>7
<1>7. ASSUME NEW t \in Threads, CheckSetup(t) \/ CheckName(t) \/ ReadTarget(t), ~Answer(t)
      PROVE  RequestsInOrder'
  <2>1. users' = users /\ request[t] \in Request /\ request[t].op \notin UserOps
    BY <1>1, <1>7 DEF CheckSetup, CheckName, ReadTarget, At, UserOps
  <2>2. InOrder(request[t], users) /\ request[t] # Idle
    BY <1>1, <1>7, InOrderAll DEF CheckSetup, CheckName, ReadTarget, At
  <2>3. CASE CheckSetup(t)
    <3>1. request' = [request EXCEPT ![t].at = "write"] /\ Existing = {}
      BY <1>7, <2>3, Zenon DEF CheckSetup
    <3>2. request[t].op = "setup" /\ request[t].at = "admit"
      BY <2>3 DEF CheckSetup, At
    <3>3. \A u \in Ids : users[u] = NoUser
      BY <3>1 DEF Existing, Exists
    <3>4. Entitled(users, request[t].op, request[t].name)
      BY <3>2, <3>3 DEF Entitled, AdminOps
    <3>5. request[t].entitled
      BY <2>2, <3>2, <3>4 DEF InOrder
    <3> DEFINE r == [request[t] EXCEPT !.at = "write"]
    <3>6. r.op = "setup" /\ r.at = "write" /\ r.entitled = request[t].entitled
      BY <2>1, <3>2 DEF Request
    <3>7. request' = [request EXCEPT ![t] = r]
      BY <1>1, <3>1
    <3> HIDE DEF r
    <3>8. InOrder(r, users)
      BY <3>5, <3>6 DEF InOrder
    <3> QED
      BY <1>3, <2>1, <3>7, <3>8
  <2>4. CASE CheckName(t)
    <3>1. PICK n \in Names : request' = [request EXCEPT ![t].name = n, ![t].at = "write"]
      BY <1>7, <2>4, Zenon DEF CheckName
    <3>2. request[t].op = "create" /\ request[t].at = "check"
      BY <2>4 DEF CheckName, At
    <3>3. request[t].entitled
      BY <2>1, <2>2, <3>2 DEF InOrder
    <3> DEFINE r == [request[t] EXCEPT !.name = n, !.at = "write"]
    <3>4. r.name = n /\ r.at = "write" /\ r.entitled = request[t].entitled
      BY <2>1 DEF Request
    <3>5. request' = [request EXCEPT ![t] = r]
      BY <1>1, <3>1
    <3> HIDE DEF r
    <3>6. InOrder(r, users)
      BY <3>3, <3>4 DEF InOrder
    <3> QED
      BY <1>3, <2>1, <3>5, <3>6
  <2>5. CASE ReadTarget(t)
    <3>1. PICK u \in Ids : request' = [request EXCEPT ![t].at = "write", ![t].target = u,
                                                      ![t].value = ~users[u].active]
      BY <1>7, <2>5, Zenon DEF ReadTarget
    <3>2. request[t].op = "toggle" /\ request[t].at = "check"
      BY <2>5 DEF ReadTarget, At
    <3>3. request[t].entitled
      BY <2>1, <2>2, <3>2 DEF InOrder
    <3> DEFINE v == ~users[u].active
    <3>4. request' = [request EXCEPT ![t].at = "write", ![t].target = u, ![t].value = v]
      BY <3>1, Zenon
    <3> HIDE DEF v
    <3> DEFINE r == [request[t] EXCEPT !.at = "write", !.target = u, !.value = v]
    <3>5. r.op = "toggle" /\ r.at = "write" /\ r.entitled = request[t].entitled
      BY <2>1, <3>2 DEF Request
    <3>6. request' = [request EXCEPT ![t] = r]
      BY <1>1, <3>4
    <3> HIDE DEF r
    <3>7. InOrder(r, users)
      BY <3>3, <3>5 DEF InOrder
    <3> QED
      BY <1>3, <2>1, <3>6, <3>7
  <2> QED
    BY <1>7, <2>3, <2>4, <2>5
<1>8. ASSUME NEW t \in Threads, Handler(t)
      PROVE  RequestsInOrder'
  <2>1. CASE Refuse(t) \/ Fails(t) \/ SaveSettings(t)
    BY <1>4, <2>1 DEF Refuse, Fails, SaveSettings
  <2>2. CASE CheckSetup(t) \/ CheckName(t) \/ ReadTarget(t)
    BY <1>4, <1>7, <2>2 DEF CheckSetup, CheckName, ReadTarget
  <2>3. CASE Setup(t) \/ Create(t)
    BY <1>1, <1>4, <2>3, CreationStep, CommitOrder DEF Created
  <2>4. CASE SetActive(t) \/ SetRole(t)
    BY <1>1, <2>4, CommitOrder DEF SetActive, SetRole
  <2>5. CASE Delete(t)
    BY <1>1, <2>5, CommitOrder DEF Delete
  <2> QED
    BY <1>6, <1>8, <2>1, <2>2, <2>3, <2>4, <2>5 DEF Handler
<1>9. ASSUME NEW n \in Names, Login(n) \/ SessionEnds(n)
      PROVE  RequestsInOrder'
  BY <1>2, <1>9 DEF Login, SessionEnds
<1>10. ASSUME NEW u \in Engines, Engine(u)
       PROVE  RequestsInOrder'
  BY <1>2, <1>10 DEF Engine, EngineStarts, EngineStops, CycleBegins, ReadSettings, CycleEnds
<1> QED
  BY <1>2, <1>5, <1>8, <1>9, <1>10 DEF Next, vars

\* Whatever happens, the tables users and user_settings change in one of these
\* ways, and an engine only while users stay as they are.
LEMMA TableStep ==
  ASSUME AccountsAssumption, IInv, [Next]_vars
  PROVE  \/ Kept /\ UNCHANGED settings
         \/ Kept /\ \E u \in Existing, on \in {"on", "off"} : settings' = [settings EXCEPT ![u] = on]
         \/ \E t \in Threads : \E n, role : Created(t, n, role)
         \/ \E t \in Threads : \E u, row : Changed(t, u, row)
         \/ \E t \in Threads : \E u : Removed(t, u)
<1>1. CASE UNCHANGED vars
  BY <1>1 DEF Kept, vars
<1>2. ASSUME NEW n \in Names, Login(n) \/ SessionEnds(n)
      PROVE  Kept /\ UNCHANGED settings
  BY <1>2 DEF Login, SessionEnds, Kept
<1>3. ASSUME NEW t \in Threads, NEW op, NEW n, Ask(t, op, n)
      PROVE  Kept /\ UNCHANGED settings
  BY <1>3 DEF Ask, Kept
<1>4. ASSUME NEW t \in Threads, Handler(t)
      PROVE  \/ Kept /\ UNCHANGED settings
             \/ Kept /\ \E u \in Existing, on \in {"on", "off"} : settings' = [settings EXCEPT ![u] = on]
             \/ \E n, role : Created(t, n, role)
             \/ \E u, row : Changed(t, u, row)
             \/ \E u : Removed(t, u)
  <2>1. CASE Admit(t) \/ Refuse(t) \/ CheckSetup(t) \/ CheckName(t) \/ ReadTarget(t) \/ Fails(t)
    BY <2>1 DEF Kept, Admit, Refuse, CheckSetup, CheckName, ReadTarget, Fails
  <2>2. CASE Setup(t) \/ Create(t)
    BY <2>2, CreationStep DEF Kept
  <2>3. CASE SetActive(t) \/ SetRole(t)
    BY <2>3, ChangeStep DEF Kept, Commit
  <2>4. CASE Delete(t)
    BY <2>4, RemovalStep
  <2>5. CASE SaveSettings(t)
    BY <2>5 DEF SaveSettings, HasOwner, Kept, Existing, Exists
  <2> QED
    BY <1>4, <2>1, <2>2, <2>3, <2>4, <2>5 DEF Handler
<1>5. ASSUME NEW u \in Engines, Engine(u)
      PROVE  \/ Kept /\ UNCHANGED settings
             \/ Kept /\ \E v \in Existing, on \in {"on", "off"} : settings' = [settings EXCEPT ![v] = on]
  BY <1>5 DEF Engine, EngineStarts, EngineStops, CycleBegins, ReadSettings, CycleEnds, RowRead,
              HasOwner, Kept, Existing, Exists
<1> QED
  BY <1>1, <1>2, <1>3, <1>4, <1>5 DEF Next

\* Names stay unique and settings stay with their users.
LEMMA TablesStep ==
  ASSUME AccountsAssumption, IInv, [Next]_vars
  PROVE  NamesUnique' /\ SettingsFollowUsers'
<1> USE DEF NamesUnique, SettingsFollowUsers, Existing, Exists
<1>1. /\ users \in [Ids -> UserRow \union {NoUser}] /\ settings \in [Ids -> {"on", "off", "none"}]
      /\ NamesUnique /\ SettingsFollowUsers /\ NoUser \notin UserRow
  BY RowTypes DEF IInv, TypeOK
<1>2. CASE Kept /\ UNCHANGED settings
  BY <1>1, <1>2 DEF Kept
<1>3. CASE Kept /\ \E u \in Existing, on \in {"on", "off"} : settings' = [settings EXCEPT ![u] = on]
  BY <1>1, <1>3 DEF Kept
<1>4. ASSUME NEW t \in Threads, NEW n, NEW role, Created(t, n, role)
      PROVE  NamesUnique' /\ SettingsFollowUsers'
  <2> DEFINE row == [name |-> n, role |-> role, active |-> TRUE]
  <2>1. NewId \in Ids /\ users' = [users EXCEPT ![NewId] = row]
        /\ settings' = [settings EXCEPT ![NewId] = "off"]
    BY <1>4 DEF Created, Commit
  <2>2. row \in UserRow /\ row.name = n
    BY <1>4 DEF Created, UserRow
  <2>3. \A u \in Ids : users[u] # NoUser => users[u].name # n
    BY <1>4 DEF Created, Insertable, Named
  <2> HIDE DEF row
  <2> QED
    BY <1>1, <2>1, <2>2, <2>3
<1>5. ASSUME NEW t \in Threads, NEW u, NEW row, Changed(t, u, row)
      PROVE  NamesUnique' /\ SettingsFollowUsers'
  <2>1. /\ u \in Ids /\ users[u] # NoUser /\ row \in UserRow /\ row.name = users[u].name
        /\ users' = [users EXCEPT ![u] = row] /\ settings' = settings
    BY <1>5 DEF Changed, Commit
  <2> QED
    BY <1>1, <2>1
<1>6. ASSUME NEW t \in Threads, NEW u, Removed(t, u)
      PROVE  NamesUnique' /\ SettingsFollowUsers'
  <2>1. /\ u \in Ids /\ users' = Updated(u, NoUser)
        /\ settings' = [settings EXCEPT ![u] = "none"]
    BY <1>6 DEF Removed, Commit
  <2>2. users' = [users EXCEPT ![u] = NoUser]
    BY <1>1, <2>1 DEF Updated
  <2> QED
    BY <1>1, <2>1, <2>2
<1> QED
  BY <1>2, <1>3, <1>4, <1>5, <1>6, TableStep

\* An engine keeps the user it was started for, and its cycles see the settings.
LEMMA EngineStep ==
  ASSUME AccountsAssumption, IInv, [Next]_vars
  PROVE  EnginesGiven' /\ EngineKeepsItsUser' /\ CycleSees' /\ PauseIsPrompt'
<1> USE DEF EnginesGiven, EngineKeepsItsUser, CycleSees, PauseIsPrompt, EngineAt
<1>1. /\ users \in [Ids -> UserRow \union {NoUser}] /\ settings \in [Ids -> {"on", "off", "none"}]
      /\ sequence \in Nat /\ Existing \subseteq 1 .. sequence /\ Engines \subseteq Ids
      /\ engine \in [Engines -> Running \union {Off}]
      /\ EnginesGiven /\ EngineKeepsItsUser /\ CycleSees /\ PauseIsPrompt
  BY DEF IInv, TypeOK, AccountsAssumption, Ids
<1>2. ASSUME NEW t \in Threads, NEW n, NEW role, Created(t, n, role)
      PROVE  EnginesGiven' /\ EngineKeepsItsUser' /\ CycleSees' /\ PauseIsPrompt'
  <2>1. /\ users' = [users EXCEPT ![NewId] = [name |-> n, role |-> role, active |-> TRUE]]
        /\ settings' = [settings EXCEPT ![NewId] = "off"]
        /\ sequence' = sequence + 1 /\ NewId = sequence + 1 /\ NewId \in Ids /\ engine' = engine
    BY <1>2 DEF Created, Commit, NewId
  <2>2. \A u \in Engines : engine[u] # Off => u # NewId
    BY <1>1, <2>1 DEF Ids
  <2>3. \A u \in Engines : u # NewId => users'[u] = users[u] /\ settings'[u] = settings[u]
    BY <1>1, <2>1
  <2>4. EnginesGiven'
    BY <1>1, <2>1 DEF Ids
  <2> QED
    BY <1>1, <2>1, <2>2, <2>3, <2>4 DEF Exists
<1>3. ASSUME NEW t \in Threads, NEW u, NEW row, Changed(t, u, row)
      PROVE  EnginesGiven' /\ EngineKeepsItsUser' /\ CycleSees' /\ PauseIsPrompt'
  <2>1. /\ Exists(u) /\ row.name = users[u].name /\ users' = [users EXCEPT ![u] = row]
        /\ UNCHANGED <<settings, sequence, engine>>
    BY <1>3 DEF Changed, Commit
  <2> QED
    BY <1>1, <2>1 DEF Exists
<1>4. ASSUME NEW t \in Threads, NEW u, Removed(t, u)
      PROVE  EnginesGiven' /\ EngineKeepsItsUser' /\ CycleSees' /\ PauseIsPrompt'
  <2>1. /\ u \in Ids /\ users' = Updated(u, NoUser) /\ UNCHANGED <<sequence, engine>>
        /\ settings' = [settings EXCEPT ![u] = "none"]
    BY <1>4 DEF Removed, Commit
  <2> QED
    BY <1>1, <2>1 DEF Exists, Updated
<1>5. CASE UNCHANGED <<users, sequence, settings, engine>>
  BY <1>1, <1>5 DEF Exists
<1>6. ASSUME NEW t \in Threads, SaveSettings(t)
      PROVE  EnginesGiven' /\ EngineKeepsItsUser' /\ CycleSees' /\ PauseIsPrompt'
  <2> DEFINE u == request[t].user
  <2>1. UNCHANGED <<users, sequence>>
    BY <1>6 DEF SaveSettings
  <2>2. CASE UNCHANGED <<settings, engine>>
    BY <1>5, <2>1, <2>2
  <2>3. ASSUME NEW on \in {"on", "off"}, settings' = [settings EXCEPT ![u] = on],
               engine' = IF on = "on" /\ u \in Engines /\ engine[u] # Off
                           THEN [engine EXCEPT ![u].trading = TRUE] ELSE engine
        PROVE  EnginesGiven' /\ EngineKeepsItsUser' /\ CycleSees' /\ PauseIsPrompt'
    <3>1. ASSUME NEW v \in Engines
          PROVE  /\ engine'[v] = Off <=> engine[v] = Off
                 /\ engine[v] # Off => /\ engine'[v].at = engine[v].at
                                       /\ engine'[v].username = engine[v].username
                                       /\ engine[v].trading => engine'[v].trading
                                       /\ settings'[v] = "on" => settings[v] = "on" \/ engine'[v].trading
      <4> HIDE DEF u
      <4>1. CASE v = u /\ on = "on" /\ engine[v] # Off
        <5>1. engine[v] \in Running
          BY <1>1, <4>1
        <5>2. engine'[v] = [engine[v] EXCEPT !.trading = TRUE]
          BY <1>1, <2>3, <4>1
        <5>3. /\ engine'[v].at = engine[v].at /\ engine'[v].username = engine[v].username
              /\ engine'[v].trading
          BY <5>1, <5>2 DEF Running
        <5>4. engine'[v] # Off
          BY <5>1, <5>3 DEF Running, Off
        <5> QED
          BY <4>1, <5>3, <5>4
      <4>2. CASE ~(v = u /\ on = "on" /\ engine[v] # Off)
        <5>1. engine'[v] = engine[v]
          BY <1>1, <2>3, <4>2
        <5>2. settings'[v] = "on" => settings[v] = "on" \/ engine[v] = Off
          BY <1>1, <2>3, <4>2
        <5> QED
          BY <5>1, <5>2
      <4> QED
        BY <4>1, <4>2
    <3>2. \A v \in Engines : Exists(v)' <=> Exists(v)
      BY <2>1 DEF Exists
    <3>3. EnginesGiven' /\ EngineKeepsItsUser'
      BY <1>1, <2>1, <3>1, <3>2
    <3>4. CycleSees' /\ PauseIsPrompt'
      BY <1>1, <3>1
    <3> QED
      BY <3>3, <3>4
  <2> QED
    BY <1>6, <2>2, <2>3 DEF SaveSettings
<1>7. ASSUME NEW u \in Engines, Engine(u)
      PROVE  EnginesGiven' /\ EngineKeepsItsUser' /\ CycleSees' /\ PauseIsPrompt'
  <2>1. UNCHANGED <<users, sequence>>
    BY <1>7 DEF Engine, EngineStarts, EngineStops, CycleBegins, ReadSettings, CycleEnds
  <2>2. \A v \in Engines : v # u => engine'[v] = engine[v]
    BY <1>1, <1>7 DEF Engine, EngineStarts, EngineStops, CycleBegins, ReadSettings, CycleEnds
  <2>3. \A v \in Engines : settings'[v] = "on" => settings[v] = "on"
    BY <1>1, <1>7 DEF Engine, EngineStarts, EngineStops, CycleBegins, ReadSettings, CycleEnds, RowRead
  <2>4. /\ engine'[u] # Off => u <= sequence
        /\ engine'[u] # Off /\ Exists(u) => engine'[u].username = users[u].name
        /\ engine'[u] # Off /\ engine'[u].at \in {"cycle", "entries"} /\ settings'[u] = "on" => engine'[u].trading
        /\ engine'[u] # Off /\ engine'[u].at = "entries" => engine'[u].trading
    <3>1. CASE EngineStarts(u)
      <4>1. engine'[u] = [at |-> "sleep", username |-> users[u].name, trading |-> FALSE]
        BY <1>1, <3>1 DEF EngineStarts
      <4>2. u \in Existing
        BY <3>1 DEF EngineStarts, Existing, Exists
      <4> QED
        BY <1>1, <4>1, <4>2
    <3>2. CASE EngineStops(u)
      BY <1>1, <3>2 DEF EngineStops
    <3>3. CASE CycleBegins(u)
      <4> DEFINE on == settings[u] = "on"
      <4>1. /\ engine' = [engine EXCEPT ![u].at = "cycle", ![u].trading = on]
            /\ engine[u] \in Running /\ settings' = settings
        BY <1>1, <3>3 DEF CycleBegins
      <4>2. settings[u] = "on" => on
        OBVIOUS
      <4> HIDE DEF on
      <4>3. engine'[u].at = "cycle" /\ engine'[u].trading = on /\ engine'[u].username = engine[u].username
        BY <1>1, <4>1 DEF Running
      <4>4. engine[u] # Off
        BY <3>3 DEF CycleBegins
      <4> QED
        BY <1>1, <4>1, <4>2, <4>3, <4>4
    <3>4. CASE ReadSettings(u)
      <4>1. /\ engine' = [engine EXCEPT ![u].at = IF HasOwner(u) /\ GoesOn(u) THEN "entries" ELSE "sleep"]
            /\ engine[u] \in Running /\ engine[u] # Off /\ engine[u].at = "cycle"
        BY <1>1, <3>4 DEF ReadSettings
      <4>2. /\ engine'[u].at = IF HasOwner(u) /\ GoesOn(u) THEN "entries" ELSE "sleep"
            /\ engine'[u].trading = engine[u].trading /\ engine'[u].username = engine[u].username
        BY <1>1, <4>1 DEF Running
      <4>3. GoesOn(u) => engine[u].trading
        BY <1>1, <4>1 DEF GoesOn
      <4> QED
        BY <1>1, <4>1, <4>2, <4>3
    <3>5. CASE CycleEnds(u)
      <4>1. /\ engine' = [engine EXCEPT ![u].at = "sleep", ![u].trading = FALSE]
            /\ engine[u] \in Running /\ engine[u] # Off
        BY <1>1, <3>5 DEF CycleEnds
      <4>2. engine'[u].at = "sleep" /\ engine'[u].username = engine[u].username
        BY <1>1, <4>1 DEF Running
      <4> QED
        BY <1>1, <4>1, <4>2
    <3> QED
      BY <1>7, <3>1, <3>2, <3>3, <3>4, <3>5 DEF Engine
  <2> QED
    BY <1>1, <2>1, <2>2, <2>3, <2>4 DEF Exists
<1> QED
  <2>1. \A n \in Names : Login(n) \/ SessionEnds(n) => UNCHANGED <<users, sequence, settings, engine>>
    BY DEF Login, SessionEnds
  <2>2. \A t \in Threads : \A op, n : Ask(t, op, n) => UNCHANGED <<users, sequence, settings, engine>>
    BY DEF Ask
  <2>3. ASSUME NEW t \in Threads, Handler(t)
        PROVE  EnginesGiven' /\ EngineKeepsItsUser' /\ CycleSees' /\ PauseIsPrompt'
    <3>1. CASE Admit(t) \/ Refuse(t) \/ CheckSetup(t) \/ CheckName(t) \/ ReadTarget(t) \/ Fails(t)
      BY <1>5, <3>1 DEF Admit, Refuse, CheckSetup, CheckName, ReadTarget, Fails
    <3>2. CASE Setup(t) \/ Create(t)
      BY <1>2, <1>5, <3>2, CreationStep
    <3>3. CASE SetActive(t) \/ SetRole(t)
      BY <1>3, <1>5, <3>3, ChangeStep DEF Commit
    <3>4. CASE Delete(t)
      BY <1>4, <3>4, RemovalStep
    <3> QED
      BY <1>6, <2>3, <3>1, <3>2, <3>3, <3>4 DEF Handler
  <2>4. CASE UNCHANGED vars
    BY <1>5, <2>4 DEF vars
  <2> QED
    BY <1>5, <1>7, <2>1, <2>2, <2>3, <2>4 DEF Next

-----------------------------------------------------------------------------
\* A step that changes the table users is the end of the request of a thread
\* that was admitted to write, creates, changes or deletes.
LEMMA WriteStep ==
  ASSUME AccountsAssumption, IInv, [Next]_vars, users' # users
  PROVE  \E t \in Threads :
           /\ Setup(t) \/ Create(t) \/ SetActive(t) \/ SetRole(t) \/ Delete(t)
           /\ request[t] # Idle /\ request[t].at = "write"
           /\ request[t].op \in AdminOps \union {"setup"}
           /\ request'[t] = Idle
<1>1. PICK t \in Threads : Handler(t)
  <2>1. ~UNCHANGED vars
    BY DEF vars
  <2>2. \A n \in Names : ~Login(n) /\ ~SessionEnds(n)
    BY DEF Login, SessionEnds
  <2>3. \A t \in Threads : \A op, n : ~Ask(t, op, n)
    BY DEF Ask
  <2>4. \A u \in Engines : ~Engine(u)
    BY DEF Engine, EngineStarts, EngineStops, CycleBegins, ReadSettings, CycleEnds
  <2> QED
    BY <2>1, <2>2, <2>3, <2>4 DEF Next
<1>2. Setup(t) \/ Create(t) \/ SetActive(t) \/ SetRole(t) \/ Delete(t)
  BY <1>1 DEF Handler, Admit, Refuse, CheckSetup, CheckName, ReadTarget, Fails, SaveSettings
<1>3. /\ request[t] # Idle /\ request[t].at = "write"
      /\ request[t].op \in {"setup", "create", "toggle", "role", "delete"}
  BY <1>2 DEF Setup, Create, SetActive, SetRole, Delete, At
<1>4. ASSUME NEW rows, Commit(t, rows)
      PROVE  request'[t] = Idle
  BY <1>4 DEF Commit
<1>5. request'[t] = Idle
  <2>1. CASE Setup(t) \/ Create(t)
    BY <1>4, <2>1, CreationStep DEF Created
  <2>2. CASE SetActive(t) \/ SetRole(t)
    BY <1>4, <2>2 DEF SetActive, SetRole
  <2>3. CASE Delete(t)
    BY <1>4, <2>3 DEF Delete
  <2> QED
    BY <1>2, <2>1, <2>2, <2>3
<1> QED
  BY <1>2, <1>3, <1>5 DEF AdminOps

\* What DemotionIsPrompt says of a step.
LEMMA RightsStep ==
  ASSUME AccountsAssumption, IInv, [Next]_vars, users' # users
  PROVE  \E t \in Threads : request[t] # Idle /\ request'[t] = Idle /\ request[t].entitled
<1>1. PICK t \in Threads :
        /\ request[t] # Idle /\ request[t].at = "write"
        /\ request[t].op \in AdminOps \union {"setup"}
        /\ request'[t] = Idle
  BY WriteStep
<1>2. request[t].entitled
  BY <1>1 DEF IInv, RequestsInOrder, AdminOps, UserOps
<1> QED
  BY <1>1, <1>2

\* What LastAdminLost says of a step.
LEMMA LastAdminStep ==
  ASSUME AccountsAssumption, IInv, [Next]_vars,
         ActiveAdmins(users) # {}, ActiveAdmins(users') = {}
  PROVE  \E t \in Threads :
           /\ request[t] # Idle /\ request'[t] = Idle
           /\ \/ request[t].user \notin ActiveAdmins(users)
              \/ request[t].op \in {"toggle", "role"} /\ ActiveAdmins(users) = {request[t].user}
<1>1. users' # users
  OBVIOUS
<1>2. PICK t \in Threads :
        /\ Setup(t) \/ Create(t) \/ SetActive(t) \/ SetRole(t) \/ Delete(t)
        /\ request[t] # Idle /\ request'[t] = Idle
  BY <1>1, WriteStep
<1>3. users \in [Ids -> UserRow \union {NoUser}] /\ Existing \subseteq 1 .. sequence /\ sequence \in Nat
  BY DEF IInv, TypeOK, AccountsAssumption
<1>4. ASSUME NEW u, NEW row, u \in Ids, users' = [users EXCEPT ![u] = row]
      PROVE  ActiveAdmins(users) = {u}
  BY <1>3, <1>4 DEF ActiveAdmins
<1>5. ASSUME NEW n, NEW role, Created(t, n, role)
      PROVE  FALSE
  <2>1. NewId \in Ids /\ users' = [users EXCEPT ![NewId] = [name |-> n, role |-> role, active |-> TRUE]]
    BY <1>5 DEF Created, Commit
  <2>2. NewId \in ActiveAdmins(users)
    BY <1>4, <2>1
  <2>3. NewId \in Existing
    <3>1. ~NoUser.active
      BY DEF NoUser
    <3>2. NewId \in Ids /\ users[NewId].active
      BY <2>2 DEF ActiveAdmins
    <3> QED
      BY <3>1, <3>2 DEF Existing, Exists
  <2> QED
    BY <1>3, <2>3 DEF NewId
<1>6. CASE Setup(t) \/ Create(t)
  BY <1>1, <1>5, <1>6, CreationStep
<1>7. CASE SetActive(t) \/ SetRole(t)
  <2>1. PICK u, row : Changed(t, u, row)
    BY <1>1, <1>7, ChangeStep DEF Commit
  <2>2. ActiveAdmins(users) = {u}
    BY <1>4, <2>1 DEF Changed, Commit, Exists
  <2>3. request[t].op \in {"toggle", "role"}
    BY <1>7 DEF SetActive, SetRole, At
  <2> QED
    BY <1>2, <2>2, <2>3
<1>8. CASE Delete(t)
  <2>1. PICK u : Removed(t, u)
    BY <1>8, RemovalStep
  <2>2. u \in Ids /\ u # request[t].user /\ users' = [users EXCEPT ![u] = NoUser]
    BY <1>1, <2>1 DEF Removed, Commit, Updated
  <2>3. ActiveAdmins(users) = {u}
    BY <1>4, <2>2
  <2> QED
    BY <1>2, <2>2, <2>3
<1> QED
  BY <1>2, <1>6, <1>7, <1>8

-----------------------------------------------------------------------------
\* Every step of any request, user or engine preserves the invariant.
LEMMA InvStep ==
  ASSUME AccountsAssumption, IInv, [Next]_vars
  PROVE  IInv'
BY TypeStep, OrderStep, TablesStep, EngineStep DEF IInv

\* The invariant holds in every state the tables and processes can reach.
LEMMA Invariance == Spec => []IInv
<1>1. Init => IInv
  BY AccountsAssumption, InitInv
<1>2. IInv /\ [Next]_vars => IInv'
  BY AccountsAssumption, InvStep
<1> QED
  BY <1>1, <1>2, PTL DEF Spec

\* Every variable of the model keeps its type; ids are given upwards.
THEOREM AccountsTypeCorrect == Spec => []TypeOK
<1>1. IInv => TypeOK
  BY DEF IInv
<1> QED
  BY <1>1, Invariance, PTL

\* A name leads to one user: the UNIQUE key makes up for a check and an insert
\* in two transactions, for any number of requests.
THEOREM UniqueNames == Spec => []NamesUnique
<1>1. IInv => NamesUnique
  BY DEF IInv
<1> QED
  BY <1>1, Invariance, PTL

\* Settings and users come and go together, whoever still writes settings.
THEOREM SettingsKept == Spec => []SettingsFollowUsers
<1>1. IInv => SettingsFollowUsers
  BY DEF IInv
<1> QED
  BY <1>1, Invariance, PTL

\* An Executor never trades for a user other than the one main read: ids are
\* not given twice and names do not change.
THEOREM EngineOwned == Spec => []EngineKeepsItsUser
<1>1. IInv => EngineKeepsItsUser
  BY DEF IInv
<1> QED
  BY <1>1, Invariance, PTL

\* No cycle makes entries unless trading was enabled at some time in it.
THEOREM PausePrompt == Spec => []PauseIsPrompt
<1>1. IInv => PauseIsPrompt
  BY DEF IInv
<1> QED
  BY <1>1, Invariance, PTL

\* Users are changed only by requests that were, at some time since they came
\* in, an active admin's or those of an empty system.
THEOREM RightsOfTheMoment == Spec => DemotionIsPrompt
<1>1. IInv /\ [Next]_vars =>
        [users' # users =>
           \E t \in Threads : request[t] # Idle /\ request'[t] = Idle
                                /\ request[t].entitled]_vars
  BY AccountsAssumption, RightsStep
<1> QED
  BY <1>1, Invariance, PTL DEF Spec, DemotionIsPrompt

\* The last active admin goes only by their own hand or by that of one who had
\* lost the right since.
THEOREM LastAdmin == Spec => LastAdminLost
<1>1. IInv /\ [Next]_vars =>
        [ActiveAdmins(users) # {} /\ ActiveAdmins(users') = {} =>
           \E t \in Threads :
             /\ request[t] # Idle /\ request'[t] = Idle
             /\ \/ request[t].user \notin ActiveAdmins(users)
                \/ request[t].op \in {"toggle", "role"} /\ ActiveAdmins(users) = {request[t].user}]_vars
  BY AccountsAssumption, LastAdminStep
<1> QED
  BY <1>1, Invariance, PTL DEF Spec, LastAdminLost

=============================================================================
