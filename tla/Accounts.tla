------------------------------ MODULE Accounts ------------------------------
(***************************************************************************)
(* Who administers the gateway: users with their roles, login sessions,    *)
(* the first start and every later one (ensureAdmin), user administration, *)
(* and the export and import of the whole configuration.  The browsers of  *)
(* administrators work concurrently; every SQL statement is one step, an   *)
(* import is one transaction.                                              *)
(***************************************************************************)
EXTENDS Integers, Sequences, FiniteSetsExt

CONSTANTS
    Browser,
    Name, AdminName,    \* user names, the one configured for the first start
    Uid, Tid,           \* bounds: row ids of users and tokens
    Channel,
    KeepsSessions,      \* a session_secret is configured
    InitDB,
    MaxOps              \* bound: requests, changes of channels and stops

None == [none |-> TRUE]
Role == {"admin", "user"}
User == [name : Name, role : Role]

\* The tables, as far as their keys and references go: the user of a token (0:
\* no row), the channels that have rows, keys and models.
DB == [users : [Uid -> User \cup {None}], tokens : [Tid -> Uid \cup {0}],
       channels : SUBSET Channel, keys : SUBSET Channel, models : SUBSET Channel]
NoRows == [users |-> [i \in Uid |-> None], tokens |-> [t \in Tid |-> 0],
           channels |-> {}, keys |-> {}, models |-> {}]

Exists(d, i) == i \in Uid /\ d.users[i] # None

\* Mutant: users are counted instead of administrators.
AdminsAnyRole(d) == {i \in Uid : Exists(d, i)}

Admins(d) == {i \in Uid : Exists(d, i) /\ d.users[i].role = "admin"}
Taken(d, name) == \E i \in Uid : Exists(d, i) /\ d.users[i].name = name

\* What the foreign keys demand.
Consistent(d) ==
    /\ \A t \in Tid : d.tokens[t] # 0 => Exists(d, d.tokens[t])
    /\ d.keys \cup d.models \subseteq d.channels

ASSUME AccountsAssumption ==
    /\ Uid \subseteq Nat \ {0} /\ Tid \subseteq Nat \ {0}
    /\ AdminName \in Name /\ KeepsSessions \in BOOLEAN /\ MaxOps \in Nat
    /\ InitDB \in DB /\ Consistent(InitDB)

VARIABLES
    db,         \* the database
    server,     \* "up" or "down"
    cookie,     \* of each browser: the user id in it, 0 without
    handler,    \* of each browser: the request it waits for
    draft,      \* of each export: what it has read
    file,       \* the file downloaded last
    ops,
    quiet,      \* history: nothing was written since the export began
    kept        \* history: the account of the session has existed at every
                \* moment of the request

vars == <<db, server, cookie, handler, draft, file, ops, quiet, kept>>

Handler == [at : {"idle", "create", "role", "whoami", "delete_tokens",
                  "delete_user", "owner", "insert_token", "users", "tokens",
                  "channels", "models", "keys", "import"},
            id : Uid \cup {0}, name : Name, role : Role]
Idle == [at |-> "idle", id |-> 0, name |-> AdminName, role |-> "user"]
File == [db : DB, quiet : BOOLEAN]

At(b, label) == server = "up" /\ handler[b].at = label
Become(b, new) == handler' = [handler EXCEPT ![b] = new]
Goto(b, label) == Become(b, [handler[b] EXCEPT !.at = label])
Count == ops < MaxOps /\ ops' = ops + 1

\* currentUser: the row of the id in the cookie, whoever has that id by now.
CurrentUser(b) == IF Exists(db, cookie[b]) THEN db.users[cookie[b]] ELSE None

-----------------------------------------------------------------------------
(* Sessions.                                                               *)

\* login with the name and the password of a user.
Login(b) ==
    /\ At(b, "idle") /\ Count
    /\ \E i \in Uid : Exists(db, i) /\ cookie' = [cookie EXCEPT ![b] = i]
    /\ UNCHANGED <<db, server, handler, draft, file>>

Logout(b) ==
    /\ At(b, "idle") /\ cookie[b] # 0
    /\ cookie' = [cookie EXCEPT ![b] = 0]
    /\ UNCHANGED <<db, server, handler, draft, file, ops>>

\* adminOnly: the role is read from the database at every request.  Without it
\* nothing happens but a redirection.
AdminOnly(b) ==
    /\ At(b, "idle") /\ Count
    /\ CurrentUser(b) # None /\ CurrentUser(b).role = "admin"
    /\ \E new \in Handler :
          /\ new.at \in {"create", "role", "whoami", "owner", "users", "import"}
          /\ new.at \in {"role", "whoami"} <=> new.id # 0
          /\ new.at \notin {"create"} => new.name = AdminName
          /\ new.at \notin {"create", "role"} => new.role = "user"
          /\ new.at = "import" => file # None
          /\ Become(b, new)
    /\ draft' = [draft EXCEPT ![b] = NoRows]
    /\ UNCHANGED <<db, server, cookie, file>>

-----------------------------------------------------------------------------
(* The administration of users and tokens.                                 *)

FreeUid == Max({i \in Uid : Exists(db, i)} \cup {0}) + 1
FreeTid == Max({t \in Tid : db.tokens[t] # 0} \cup {0}) + 1

\* The row of a new user; username is unique.
NewUser(name, role) ==
    IF Taken(db, name) THEN db
    ELSE [db EXCEPT !.users[FreeUid] = [name |-> name, role |-> role]]

CreateUser(b) ==
    /\ At(b, "create") /\ FreeUid \in Uid
    /\ db' = NewUser(handler[b].name, handler[b].role)
    /\ Become(b, Idle)
    /\ UNCHANGED <<server, cookie, draft, file, ops>>

\* setUserRole of anyone, oneself included.
UpdateUserRole(b) ==
    /\ At(b, "role")
    /\ db' = IF Exists(db, handler[b].id)
             THEN [db EXCEPT !.users[handler[b].id].role = handler[b].role]
             ELSE db
    /\ Become(b, Idle)
    /\ UNCHANGED <<server, cookie, draft, file, ops>>

\* Mutant: the account of the session is not looked at.
RefuseSelfNever(b) == FALSE

\* deleteUser refuses the account of the session, if that still exists.
RefuseSelf(b) == CurrentUser(b) # None /\ cookie[b] = handler[b].id

CheckSelf(b) ==
    /\ At(b, "whoami")
    /\ IF RefuseSelf(b) THEN Become(b, Idle) ELSE Goto(b, "delete_tokens")
    /\ UNCHANGED <<db, server, cookie, draft, file, ops>>

DeleteTokensOf(b) ==
    /\ At(b, "delete_tokens")
    /\ db' = [db EXCEPT !.tokens = [t \in Tid |-> IF @[t] = handler[b].id THEN 0
                                                 ELSE @[t]]]
    /\ Goto(b, "delete_user")
    /\ UNCHANGED <<server, cookie, draft, file, ops>>

\* The user, unless a token of his has come in between.
DeleteUser(b) ==
    /\ At(b, "delete_user")
    /\ db' = IF \E t \in Tid : db.tokens[t] = handler[b].id THEN db
             ELSE [db EXCEPT !.users[handler[b].id] = None]
    /\ Become(b, Idle)
    /\ UNCHANGED <<server, cookie, draft, file, ops>>

\* createToken looks its owner up; without one it panics, and recoverMW answers.
Owner(b) ==
    /\ At(b, "owner")
    /\ IF CurrentUser(b) = None THEN Become(b, Idle)
       ELSE Become(b, [handler[b] EXCEPT !.at = "insert_token", !.id = cookie[b]])
    /\ UNCHANGED <<db, server, cookie, draft, file, ops>>

InsertToken(b) ==
    /\ At(b, "insert_token") /\ FreeTid \in Tid
    /\ db' = IF Exists(db, handler[b].id)
             THEN [db EXCEPT !.tokens[FreeTid] = handler[b].id] ELSE db
    /\ Become(b, Idle)
    /\ UNCHANGED <<server, cookie, draft, file, ops>>

-----------------------------------------------------------------------------
(* Channels with their keys and models, which their pages and probes write *)
(* (Channels has the inside of that).                                      *)

WriteLibrary ==
    /\ server = "up" /\ Count
    /\ \E c \in Channel :
          \/ /\ c \notin db.channels
             /\ db' = [db EXCEPT !.channels = @ \cup {c}]
          \/ /\ c \in db.channels
             /\ \/ db' = [db EXCEPT !.keys = @ \cup {c}]
                \/ db' = [db EXCEPT !.models = @ \cup {c}]
                \/ db' = [db EXCEPT !.keys = @ \ {c}]
                \/ db' = [db EXCEPT !.models = @ \ {c}]
          \/ /\ c \in db.channels \ (db.keys \cup db.models)
             /\ db' = [db EXCEPT !.channels = @ \ {c}]
    /\ UNCHANGED <<server, cookie, handler, draft, file>>

-----------------------------------------------------------------------------
(* Export and import.                                                      *)

\* One SELECT of ExportAll.
Read(b, table, next) ==
    /\ At(b, table)
    /\ draft' = [draft EXCEPT ![b][table] = db[table]]
    /\ Goto(b, next)
    /\ UNCHANGED <<db, server, cookie, file, ops>>

\* ListUsers, ListTokens, ListChannels, ListModels.
ExportTables(b) ==
    \/ Read(b, "users", "tokens")
    \/ Read(b, "tokens", "channels")
    \/ Read(b, "channels", "models")
    \/ Read(b, "models", "keys")

\* ListChannelKeys of the channels read before, and the download.
ExportKeys(b) ==
    /\ At(b, "keys")
    /\ file' = [db |-> [draft[b] EXCEPT !.keys = db.keys \cap draft[b].channels],
                quiet |-> quiet[b]]
    /\ Become(b, Idle)
    /\ UNCHANGED <<db, server, cookie, draft, ops>>

\* Mutant: keys are inserted before their channels.
InsertOrderKeysFirst == <<"users", "tokens", "keys", "channels", "models">>

\* The order in which ImportAll inserts.
InsertOrder == <<"users", "tokens", "channels", "keys", "models">>

\* The tables of d inserted up to the n-th.
Inserted(d, n) ==
    [table \in DOMAIN d |-> IF \E k \in 1 .. n : InsertOrder[k] = table
                            THEN d[table] ELSE NoRows[table]]

\* ImportAll: every INSERT must find what it refers to, or nothing changes.
ImportAll(b) ==
    /\ At(b, "import")
    /\ LET d == file.db
       IN db' = IF \A n \in 1 .. Len(InsertOrder) : Consistent(Inserted(d, n))
                THEN d ELSE db
    /\ Become(b, Idle)
    /\ UNCHANGED <<server, cookie, draft, file, ops>>

-----------------------------------------------------------------------------
(* Stop and start.                                                         *)

Stop ==
    /\ server = "up" /\ Count /\ server' = "down"
    /\ handler' = [b \in Browser |-> Idle]
    /\ cookie' = IF KeepsSessions THEN cookie ELSE [b \in Browser |-> 0]
    /\ UNCHANGED <<db, draft, file>>

\* ensureAdmin finds an administrator or creates the configured one; if his
\* name is taken by a plain user the start fails, and so does every later one.
Start ==
    /\ server = "down" /\ server' = "up"
    /\ \/ Admins(db) # {} /\ UNCHANGED db
       \/ /\ Admins(db) = {} /\ ~Taken(db, AdminName) /\ FreeUid \in Uid
          /\ db' = NewUser(AdminName, "admin")
    /\ UNCHANGED <<cookie, handler, draft, file, ops>>

Init ==
    /\ db = InitDB /\ server = "down"
    /\ cookie = [b \in Browser |-> 0] /\ handler = [b \in Browser |-> Idle]
    /\ draft = [b \in Browser |-> NoRows] /\ file = None /\ ops = 0
    /\ quiet = [b \in Browser |-> TRUE] /\ kept = [b \in Browser |-> TRUE]

Handle(b) ==
    \/ Login(b) \/ Logout(b) \/ AdminOnly(b)
    \/ CreateUser(b) \/ UpdateUserRole(b)
    \/ CheckSelf(b) \/ DeleteTokensOf(b) \/ DeleteUser(b)
    \/ Owner(b) \/ InsertToken(b)
    \/ ExportTables(b) \/ ExportKeys(b) \/ ImportAll(b)

Remember ==
    /\ quiet' = [b \in Browser |-> handler[b].at \in {"idle", "users"}
                                   \/ (quiet[b] /\ db' = db)]
    /\ kept' = [b \in Browser |-> handler[b].at = "idle"
                                  \/ (kept[b] /\ Exists(db', cookie[b]))]

Next ==
    /\ WriteLibrary \/ Stop \/ Start \/ \E b \in Browser : Handle(b)
    /\ Remember

Spec == Init /\ [][Next]_vars

-----------------------------------------------------------------------------
(* Properties.                                                             *)

TypeOK ==
    /\ db \in DB /\ server \in {"up", "down"}
    /\ cookie \in [Browser -> Uid \cup {0}] /\ handler \in [Browser -> Handler]
    /\ draft \in [Browser -> DB] /\ file \in File \cup {None}
    /\ ops \in Nat
    /\ quiet \in [Browser -> BOOLEAN] /\ kept \in [Browser -> BOOLEAN]

\* Whatever is deleted, created and imported between whatever statements, no
\* token is without its user, and no key or model without its channel.
References == Consistent(db)

\* Whenever the gateway starts there is an administrator to log in as, also
\* after the last one has been deleted or lost the role.
StartRestores ==
    [][server = "down" /\ server' = "up" =>
         \E i \in Uid : db'.users[i] # None /\ db'.users[i].role = "admin"]_vars

\* Deleting a user never removes the last administrator on behalf of somebody
\* who still is one: an account cannot delete itself, and of two that delete
\* each other the later one is none any more.  (The request of an account that
\* is gone may go on, and delete who has been given its id.)
DeletionKeepsAdmin ==
    [][\A b \in Browser :
         (/\ handler[b].at = "delete_user" /\ handler'[b].at = "idle"
          /\ Admins(db) # {} /\ Admins(db') = {} /\ kept[b])
            => cookie[b] \notin Admins(db)]_vars

\* An import gives back exactly the database a file was taken from, if nothing
\* was written while it was taken.  Of any other file it takes all or nothing.
ImportRestores ==
    [][\A b \in Browser :
         handler[b].at = "import" /\ handler'[b].at = "idle" /\ server' = "up"
            => db' = file.db \/ (db' = db /\ ~file.quiet)]_vars
=============================================================================
