--------------------------- MODULE Accounts_proofs ---------------------------
(***************************************************************************)
(* Proofs about Accounts, for any browsers, names, rows and channels.      *)
(***************************************************************************)
EXTENDS Accounts, TLAPS

-----------------------------------------------------------------------------
(* The inductive invariant.                                                *)

\* An account on the way to its own deletion has been away in between.
SelfInv(b) ==
    handler[b].at \in {"delete_tokens", "delete_user"} /\ kept[b]
        => cookie[b] # handler[b].id

\* What a quiet export has read is what the database holds.
DraftInv(b) ==
    quiet[b] =>
        /\ handler[b].at \in {"tokens", "channels", "models", "keys"}
              => draft[b].users = db.users
        /\ handler[b].at \in {"channels", "models", "keys"}
              => draft[b].tokens = db.tokens
        /\ handler[b].at \in {"models", "keys"} => draft[b].channels = db.channels
        /\ handler[b].at = "keys" => draft[b].models = db.models

FileInv == file # None => (file.quiet => Consistent(file.db))

IInv ==
    /\ TypeOK /\ References
    /\ \A b \in Browser : SelfInv(b) /\ DraftInv(b)
    /\ FileInv

-----------------------------------------------------------------------------
(* Rows and tables.                                                        *)

LEMMA NoneIsNobody == None \notin User /\ None \notin File
BY DEF None, User, File

LEMMA SetUserRow ==
    ASSUME NEW d \in DB, NEW i \in Uid, NEW u \in User \cup {None}
    PROVE  LET e == [d EXCEPT !.users[i] = u]
           IN /\ e \in DB /\ e.users = [d.users EXCEPT ![i] = u]
              /\ e.tokens = d.tokens /\ e.channels = d.channels
              /\ e.keys = d.keys /\ e.models = d.models
BY DEF DB

LEMMA SetTokenRow ==
    ASSUME NEW d \in DB, NEW t \in Tid, NEW i \in Uid
    PROVE  LET e == [d EXCEPT !.tokens[t] = i]
           IN /\ e \in DB /\ e.tokens = [d.tokens EXCEPT ![t] = i]
              /\ e.users = d.users /\ e.channels = d.channels
              /\ e.keys = d.keys /\ e.models = d.models
BY DEF DB

LEMMA Typed ==
    ASSUME NEW d \in DB
    PROVE  /\ d.users \in [Uid -> User \cup {None}]
           /\ d.tokens \in [Tid -> Uid \cup {0}]
           /\ d.channels \subseteq Channel /\ d.keys \subseteq Channel
           /\ d.models \subseteq Channel
BY DEF DB

\* A user's row may be written, or be emptied if no token refers to it.
LEMMA UserRowConsistent ==
    ASSUME NEW d \in DB, Consistent(d), NEW i \in Uid, NEW u \in User \cup {None},
           u # None \/ \A t \in Tid : d.tokens[t] # i
    PROVE  /\ [d EXCEPT !.users[i] = u] \in DB
           /\ Consistent([d EXCEPT !.users[i] = u])
<1> DEFINE e == [d EXCEPT !.users[i] = u]
<1>1. /\ e \in DB /\ e.users = [d.users EXCEPT ![i] = u]
      /\ e.tokens = d.tokens /\ e.channels = d.channels
      /\ e.keys = d.keys /\ e.models = d.models
  BY SetUserRow
<1>2. d.users \in [Uid -> User \cup {None}]
  BY Typed
<1> HIDE DEF e
<1>3. Consistent(e)
  BY <1>1, <1>2 DEF Consistent, Exists
<1> QED
  BY <1>1, <1>3 DEF e

LEMMA NewUserConsistent ==
    ASSUME db \in DB, Consistent(db), NEW name \in Name, NEW role \in Role,
           FreeUid \in Uid
    PROVE  NewUser(name, role) \in DB /\ Consistent(NewUser(name, role))
<1>1. [name |-> name, role |-> role] \in User
  BY DEF User
<1> QED
  BY <1>1, UserRowConsistent, NoneIsNobody DEF NewUser

\* All tables inserted up to the n-th keep what foreign keys demand.
LEMMA PrefixConsistent ==
    ASSUME NEW d \in DB, Consistent(d), NEW n \in 1 .. Len(InsertOrder)
    PROVE  Consistent(Inserted(d, n))
<1>1. Len(InsertOrder) = 5
  BY DEF InsertOrder
<1>2. /\ InsertOrder[1] = "users" /\ InsertOrder[2] = "tokens"
      /\ InsertOrder[3] = "channels" /\ InsertOrder[4] = "keys"
      /\ InsertOrder[5] = "models"
  BY DEF InsertOrder
<1>3. DOMAIN d = {"users", "tokens", "channels", "keys", "models"}
  BY DEF DB
<1> DEFINE e == Inserted(d, n)
<1>4. /\ e.users = IF n >= 1 THEN d.users ELSE NoRows.users
      /\ e.tokens = IF n >= 2 THEN d.tokens ELSE NoRows.tokens
      /\ e.channels = IF n >= 3 THEN d.channels ELSE NoRows.channels
      /\ e.keys = IF n >= 4 THEN d.keys ELSE NoRows.keys
      /\ e.models = IF n >= 5 THEN d.models ELSE NoRows.models
  <2>1. n \in {1, 2, 3, 4, 5}
    BY <1>1
  <2>2. \A table \in DOMAIN d :
           e[table] = IF \E k \in 1 .. n : InsertOrder[k] = table
                      THEN d[table] ELSE NoRows[table]
    BY DEF Inserted
  <2>3. (\E k \in 1 .. n : InsertOrder[k] = "users") <=> n >= 1
    BY <1>2, <2>1
  <2>4. (\E k \in 1 .. n : InsertOrder[k] = "tokens") <=> n >= 2
    BY <1>2, <2>1
  <2>5. (\E k \in 1 .. n : InsertOrder[k] = "channels") <=> n >= 3
    BY <1>2, <2>1
  <2>6. (\E k \in 1 .. n : InsertOrder[k] = "keys") <=> n >= 4
    BY <1>2, <2>1
  <2>7. (\E k \in 1 .. n : InsertOrder[k] = "models") <=> n >= 5
    BY <1>2, <2>1
  <2> QED
    BY <1>3, <2>2, <2>3, <2>4, <2>5, <2>6, <2>7
<1> HIDE DEF e
<1>5. n >= 1 /\ n \in Int
  BY <1>1
<1>6. /\ NoRows.keys = {} /\ NoRows.models = {}
      /\ \A t \in Tid : NoRows.tokens[t] = 0
  BY DEF NoRows
<1>7. \A t \in Tid : e.tokens[t] # 0 => Exists(e, e.tokens[t])
  BY <1>4, <1>5, <1>6 DEF Consistent, Exists
<1>8. e.keys \cup e.models \subseteq e.channels
  BY <1>4, <1>5, <1>6 DEF Consistent
<1> QED
  BY <1>7, <1>8 DEF Consistent, e

-----------------------------------------------------------------------------
(* What a step leaves of the browsers it is not about.                     *)

LEMMA HistoryTyped ==
    ASSUME TypeOK, Remember
    PROVE  quiet' \in [Browser -> BOOLEAN] /\ kept' \in [Browser -> BOOLEAN]
BY DEF TypeOK, Remember, Exists

LEMMA BystanderStays ==
    ASSUME TypeOK, Remember, NEW b \in Browser, SelfInv(b), DraftInv(b),
           handler'[b] = handler[b], cookie'[b] = cookie[b], draft'[b] = draft[b]
    PROVE  SelfInv(b)' /\ DraftInv(b)'
<1>1. kept'[b] = (handler[b].at = "idle" \/ (kept[b] /\ Exists(db', cookie[b])))
  BY DEF Remember
<1>2. quiet'[b] = (handler[b].at \in {"idle", "users"} \/ (quiet[b] /\ db' = db))
  BY DEF Remember
<1>3. SelfInv(b)'
  BY <1>1 DEF SelfInv
<1>4. DraftInv(b)'
  BY <1>2 DEF DraftInv
<1> QED
  BY <1>3, <1>4

\* Where neither a deletion nor an export is under way there is nothing to show.
Calm == {"idle", "create", "role", "whoami", "owner", "insert_token", "users", "import"}

LEMMA CalmStays ==
    ASSUME NEW b \in Browser, handler'[b].at \in Calm
    PROVE  SelfInv(b)' /\ DraftInv(b)'
BY DEF Calm, SelfInv, DraftInv

\* A step of one browser that writes only the database and its own handler.
LEMMA BrowserStep ==
    ASSUME IInv, Remember, NEW b \in Browser, NEW h \in Handler, Become(b, h),
           cookie' = cookie \/ (h.at \in Calm /\ cookie' \in [Browser -> Uid \cup {0}]
                                /\ \A c \in Browser \ {b} : cookie'[c] = cookie[c]),
           draft' \in [Browser -> DB],
           \A c \in Browser \ {b} : draft'[c] = draft[c],
           server' = server, db' \in DB, Consistent(db)', ops' \in Nat,
           SelfInv(b)', DraftInv(b)', file' \in File \cup {None}, FileInv'
    PROVE  IInv'
<1>1. TypeOK
  BY DEF IInv
<1>2. /\ handler' \in [Browser -> Handler] /\ handler'[b] = h
      /\ \A c \in Browser \ {b} : handler'[c] = handler[c]
  BY <1>1 DEF TypeOK, Become
<1>3. cookie' \in [Browser -> Uid \cup {0}]
      /\ \A c \in Browser \ {b} : cookie'[c] = cookie[c]
  BY <1>1 DEF TypeOK
<1>4. TypeOK'
  BY <1>1, <1>2, <1>3, HistoryTyped DEF TypeOK
<1>5. \A c \in Browser : SelfInv(c)' /\ DraftInv(c)'
  <2> SUFFICES ASSUME NEW c \in Browser, c # b
               PROVE  SelfInv(c)' /\ DraftInv(c)'
    OBVIOUS
  <2>1. SelfInv(c) /\ DraftInv(c)
    BY DEF IInv
  <2> QED
    BY <1>1, <1>2, <1>3, <2>1, BystanderStays
<1>6. References'
  BY DEF References
<1> QED
  BY <1>4, <1>5, <1>6 DEF IInv

LEMMA IdleType == Idle \in Handler /\ Idle.at = "idle"
BY AccountsAssumption DEF Idle, Handler, Role

LEMMA GotoType ==
    ASSUME NEW h \in Handler,
           NEW at \in {"delete_tokens", "delete_user", "tokens", "channels",
                       "models", "keys"}
    PROVE  /\ [h EXCEPT !.at = at] \in Handler
           /\ [h EXCEPT !.at = at].at = at /\ [h EXCEPT !.at = at].id = h.id
BY DEF Handler

\* A handler ends, or has just begun, and has written the database or not.
LEMMA CalmStep ==
    ASSUME IInv, Remember, NEW b \in Browser, NEW h \in Handler, Become(b, h),
           h.at \in Calm, UNCHANGED <<server, cookie, file>>,
           draft' \in [Browser -> DB],
           \A c \in Browser \ {b} : draft'[c] = draft[c],
           db' \in DB, Consistent(db)', ops' \in {ops, ops + 1}
    PROVE  IInv'
<1>1. TypeOK
  BY DEF IInv
<1>2. handler'[b] = h
  BY <1>1 DEF TypeOK, Become
<1>3. SelfInv(b)' /\ DraftInv(b)'
  BY <1>2, CalmStays
<1>4. file' \in File \cup {None} /\ FileInv' /\ ops' \in Nat
  BY <1>1 DEF IInv, TypeOK, FileInv, Consistent, Exists
<1> QED
  BY <1>3, <1>4, BrowserStep

LEMMA LoginStep ==
    ASSUME IInv, Remember, NEW b \in Browser, Login(b) \/ Logout(b)
    PROVE  IInv'
<1>1. TypeOK /\ References
  BY DEF IInv
<1>2. /\ handler[b].at = "idle"
      /\ UNCHANGED <<db, server, handler, draft, file>>
      /\ ops' \in {ops, ops + 1}
  BY DEF Login, Logout, At, Count
<1>3. /\ cookie' \in [Browser -> Uid \cup {0}]
      /\ \A c \in Browser \ {b} : cookie'[c] = cookie[c]
  <2>1. PICK i \in Uid \cup {0} : cookie' = [cookie EXCEPT ![b] = i]
    BY DEF Login, Logout
  <2> QED
    BY <1>1, <2>1 DEF TypeOK
<1>4. \A c \in Browser : SelfInv(c)' /\ DraftInv(c)'
  <2> SUFFICES ASSUME NEW c \in Browser
               PROVE  SelfInv(c)' /\ DraftInv(c)'
    OBVIOUS
  <2>1. CASE c = b
    BY <1>2, <2>1, CalmStays DEF Calm
  <2>2. CASE c # b
    BY <1>1, <1>2, <1>3, <2>2, BystanderStays DEF IInv
  <2> QED
    BY <2>1, <2>2
<1>5. TypeOK'
  BY <1>1, <1>2, <1>3, HistoryTyped DEF TypeOK
<1>6. References' /\ FileInv'
  BY <1>1, <1>2 DEF IInv, References, FileInv, Consistent, Exists
<1> QED
  BY <1>4, <1>5, <1>6 DEF IInv

LEMMA AdminOnlyStep ==
    ASSUME IInv, Remember, NEW b \in Browser, AdminOnly(b)
    PROVE  IInv'
<1>1. TypeOK /\ References
  BY DEF IInv
<1>2. PICK h \in Handler :
         /\ h.at \in {"create", "role", "whoami", "owner", "users", "import"}
         /\ Become(b, h)
  BY DEF AdminOnly
<1>3. NoRows \in DB
  BY DEF NoRows, DB
<1>4. /\ draft' \in [Browser -> DB] /\ \A c \in Browser \ {b} : draft'[c] = draft[c]
  BY <1>1, <1>3 DEF TypeOK, AdminOnly
<1>5. UNCHANGED <<db, server, cookie, file>> /\ ops' \in {ops, ops + 1}
  BY DEF AdminOnly, Count
<1>6. db' \in DB /\ Consistent(db)'
  BY <1>1, <1>5 DEF TypeOK, References, Consistent, Exists
<1> QED
  BY <1>2, <1>4, <1>5, <1>6, CalmStep DEF Calm

LEMMA WriteUserStep ==
    ASSUME IInv, Remember, NEW b \in Browser, CreateUser(b) \/ UpdateUserRole(b)
    PROVE  IInv'
<1>1. TypeOK /\ Consistent(db)
  BY DEF IInv, References
<1>2. /\ Become(b, Idle) /\ UNCHANGED <<server, cookie, draft, file>>
      /\ ops' \in {ops, ops + 1}
  BY DEF CreateUser, UpdateUserRole
<1>3. handler[b] \in Handler /\ db \in DB
  BY <1>1 DEF TypeOK
<1>4. handler[b].name \in Name /\ handler[b].role \in Role
  BY <1>3 DEF Handler
<1>5. db' \in DB /\ Consistent(db')
  <2>1. CASE CreateUser(b)
    BY <2>1, <1>1, <1>3, <1>4, NewUserConsistent DEF CreateUser
  <2>2. CASE UpdateUserRole(b)
    <3>1. CASE ~Exists(db, handler[b].id)
      BY <2>2, <3>1, <1>1, <1>3 DEF UpdateUserRole
    <3>2. CASE Exists(db, handler[b].id)
      <4>1. PICK i \in Uid : i = handler[b].id /\ db.users[i] # None
        BY <3>2 DEF Exists
      <4>2. PICK u \in User : u = db.users[i]
        BY <1>3, <4>1, Typed
      <4>3. PICK role \in Role : role = handler[b].role
        BY <1>4
      <4>4. [u EXCEPT !.role = role] \in User
        BY DEF User
      <4>5. db' = [db EXCEPT !.users[i] = [u EXCEPT !.role = role]]
        BY <2>2, <3>2, <4>1, <4>2, <4>3, <1>3 DEF UpdateUserRole, DB
      <4> QED
        BY <1>1, <1>3, <4>4, <4>5, UserRowConsistent, NoneIsNobody
    <3> QED
      BY <3>1, <3>2
  <2> QED
    BY <2>1, <2>2
<1>6. Consistent(db)'
  BY <1>5 DEF Consistent, Exists
<1>7. draft' \in [Browser -> DB] /\ \A c \in Browser \ {b} : draft'[c] = draft[c]
  BY <1>1, <1>2 DEF TypeOK
<1> QED
  BY <1>2, <1>5, <1>6, <1>7, IdleType, CalmStep DEF Calm

LEMMA CheckSelfStep ==
    ASSUME IInv, Remember, NEW b \in Browser, CheckSelf(b)
    PROVE  IInv'
<1>1. TypeOK /\ References /\ handler[b] \in Handler
  BY DEF IInv, TypeOK
<1>2. handler[b].at = "whoami" /\ UNCHANGED <<db, server, cookie, draft, file, ops>>
  BY DEF CheckSelf, At
<1>3. /\ db' \in DB /\ Consistent(db)' /\ draft' \in [Browser -> DB] /\ ops' \in Nat
      /\ \A c \in Browser \ {b} : draft'[c] = draft[c]
      /\ file' \in File \cup {None} /\ FileInv'
  BY <1>1, <1>2 DEF IInv, TypeOK, References, Consistent, Exists, FileInv
<1>4. CASE RefuseSelf(b)
  BY <1>2, <1>3, <1>4, IdleType, CalmStep DEF CheckSelf, Calm
<1>5. CASE ~RefuseSelf(b)
  <2> DEFINE h == [handler[b] EXCEPT !.at = "delete_tokens"]
  <2>1. h \in Handler /\ h.at = "delete_tokens" /\ h.id = handler[b].id
    BY <1>1, GotoType
  <2>2. Become(b, h)
    BY <1>5 DEF CheckSelf, Goto
  <2> HIDE DEF h
  <2>3. handler'[b] = h
    BY <1>1, <2>2 DEF TypeOK, Become
  <2>4. kept'[b] => Exists(db, cookie[b])
    BY <1>2 DEF Remember
  <2>5. Exists(db, cookie[b]) => cookie[b] # h.id
    BY <1>1, <1>5, <2>1, NoneIsNobody DEF RefuseSelf, CurrentUser, Exists
  <2>6. SelfInv(b)' /\ DraftInv(b)'
    BY <1>2, <2>1, <2>3, <2>4, <2>5 DEF SelfInv, DraftInv
  <2>7. cookie' = cookie /\ server' = server
    BY <1>2
  <2> QED
    BY <1>3, <2>1, <2>2, <2>6, <2>7, BrowserStep
<1> QED
  BY <1>4, <1>5

LEMMA DeleteTokensStep ==
    ASSUME IInv, Remember, NEW b \in Browser, DeleteTokensOf(b)
    PROVE  IInv'
<1>1. TypeOK /\ References /\ handler[b] \in Handler /\ db \in DB /\ SelfInv(b)
  BY DEF IInv, TypeOK
<1>2. /\ handler[b].at = "delete_tokens"
      /\ UNCHANGED <<server, cookie, draft, file, ops>>
  BY DEF DeleteTokensOf, At
<1> DEFINE gone == [t \in Tid |-> IF db.tokens[t] = handler[b].id THEN 0
                                  ELSE db.tokens[t]]
<1>3. db' = [db EXCEPT !.tokens = gone]
  BY DEF DeleteTokensOf
<1>4. /\ gone \in [Tid -> Uid \cup {0}]
      /\ \A t \in Tid : gone[t] = 0 \/ gone[t] = db.tokens[t]
  BY <1>1, Typed
<1> HIDE DEF gone
<1>5. /\ db' \in DB /\ db'.tokens = gone /\ db'.users = db.users
      /\ db'.channels = db.channels /\ db'.keys = db.keys /\ db'.models = db.models
  BY <1>1, <1>3, <1>4 DEF DB
<1>6. Consistent(db)'
  BY <1>1, <1>4, <1>5 DEF References, Consistent, Exists
<1> DEFINE h == [handler[b] EXCEPT !.at = "delete_user"]
<1>7. h \in Handler /\ h.at = "delete_user" /\ h.id = handler[b].id
  BY <1>1, GotoType
<1>8. Become(b, h)
  BY DEF DeleteTokensOf, Goto
<1> HIDE DEF h
<1>9. handler'[b] = h
  BY <1>1, <1>8 DEF TypeOK, Become
<1>10. kept'[b] => kept[b]
  BY <1>2 DEF Remember
<1>11. SelfInv(b)' /\ DraftInv(b)'
  BY <1>1, <1>2, <1>7, <1>9, <1>10 DEF SelfInv, DraftInv
<1>12. /\ draft' \in [Browser -> DB] /\ ops' \in Nat
       /\ \A c \in Browser \ {b} : draft'[c] = draft[c]
       /\ file' \in File \cup {None} /\ FileInv'
  BY <1>1, <1>2 DEF IInv, TypeOK, Consistent, Exists, FileInv
<1>13. cookie' = cookie /\ server' = server
  BY <1>2
<1> QED
  BY <1>5, <1>6, <1>7, <1>8, <1>11, <1>12, <1>13, BrowserStep

LEMMA DeleteUserStep ==
    ASSUME IInv, Remember, NEW b \in Browser, DeleteUser(b)
    PROVE  IInv'
<1>1. TypeOK /\ Consistent(db) /\ handler[b] \in Handler /\ db \in DB
  BY DEF IInv, TypeOK, References
<1>2. Become(b, Idle) /\ UNCHANGED <<server, cookie, draft, file, ops>>
  BY DEF DeleteUser
<1>3. db' \in DB /\ Consistent(db')
  <2>1. CASE \E t \in Tid : db.tokens[t] = handler[b].id
    BY <1>1, <2>1 DEF DeleteUser
  <2>2. CASE ~ \E t \in Tid : db.tokens[t] = handler[b].id
    <3>1. db' = [db EXCEPT !.users[handler[b].id] = None]
      BY <2>2 DEF DeleteUser
    <3>2. CASE handler[b].id \in Uid
      BY <1>1, <2>2, <3>1, <3>2, UserRowConsistent
    <3>3. CASE handler[b].id \notin Uid
      <4>1. db.users \in [Uid -> User \cup {None}]
        BY <1>1, Typed
      <4>2. [db.users EXCEPT ![handler[b].id] = None] = db.users
        BY <3>3, <4>1
      <4>3. db' = [db EXCEPT !.users = db.users]
        BY <3>1, <4>2
      <4>4. db' = db
        BY <1>1, <4>3 DEF DB
      <4> QED
        BY <1>1, <4>4
    <3> QED
      BY <3>2, <3>3
  <2> QED
    BY <2>1, <2>2
<1>4. Consistent(db)'
  BY <1>3 DEF Consistent, Exists
<1>5. draft' \in [Browser -> DB] /\ \A c \in Browser \ {b} : draft'[c] = draft[c]
  BY <1>1, <1>2 DEF TypeOK
<1> QED
  BY <1>2, <1>3, <1>4, <1>5, IdleType, CalmStep DEF Calm

LEMMA OwnerStep ==
    ASSUME IInv, Remember, NEW b \in Browser, Owner(b)
    PROVE  IInv'
<1>1. TypeOK /\ References /\ handler[b] \in Handler /\ cookie[b] \in Uid \cup {0}
  BY DEF IInv, TypeOK
<1>2. UNCHANGED <<db, server, cookie, draft, file, ops>>
  BY DEF Owner
<1>3. \E h \in Handler : Become(b, h) /\ h.at \in Calm
  <2>1. CASE CurrentUser(b) = None
    BY <2>1, IdleType DEF Owner, Calm
  <2>2. CASE CurrentUser(b) # None
    <3>1. PICK i \in Uid \cup {0} : i = cookie[b]
      BY <1>1
    <3>2. /\ [handler[b] EXCEPT !.at = "insert_token", !.id = i] \in Handler
          /\ [handler[b] EXCEPT !.at = "insert_token", !.id = i].at = "insert_token"
      BY <1>1 DEF Handler
    <3> QED
      BY <2>2, <3>1, <3>2 DEF Owner, Calm
  <2> QED
    BY <2>1, <2>2
<1>4. /\ db' \in DB /\ Consistent(db)' /\ draft' \in [Browser -> DB]
      /\ \A c \in Browser \ {b} : draft'[c] = draft[c]
  BY <1>1, <1>2 DEF TypeOK, References, Consistent, Exists
<1> QED
  BY <1>2, <1>3, <1>4, CalmStep

LEMMA InsertTokenStep ==
    ASSUME IInv, Remember, NEW b \in Browser, InsertToken(b)
    PROVE  IInv'
<1>1. TypeOK /\ Consistent(db) /\ db \in DB
  BY DEF IInv, TypeOK, References
<1>2. /\ Become(b, Idle) /\ FreeTid \in Tid
      /\ UNCHANGED <<server, cookie, draft, file, ops>>
  BY DEF InsertToken
<1>3. db' \in DB /\ Consistent(db)'
  <2>1. CASE ~Exists(db, handler[b].id)
    BY <1>1, <2>1 DEF InsertToken, Consistent, Exists
  <2>2. CASE Exists(db, handler[b].id)
    <3>1. PICK i \in Uid, t \in Tid : i = handler[b].id /\ t = FreeTid
      BY <1>2, <2>2 DEF Exists
    <3>2. db' = [db EXCEPT !.tokens[t] = i]
      BY <2>2, <3>1 DEF InsertToken
    <3>3. /\ db' \in DB /\ db'.tokens = [db.tokens EXCEPT ![t] = i]
          /\ db'.users = db.users /\ db'.channels = db.channels
          /\ db'.keys = db.keys /\ db'.models = db.models
      BY <1>1, <3>2, SetTokenRow
    <3>4. db.tokens \in [Tid -> Uid \cup {0}]
      BY <1>1, Typed
    <3> QED
      BY <1>1, <2>2, <3>1, <3>3, <3>4 DEF Consistent, Exists
  <2> QED
    BY <2>1, <2>2
<1>4. draft' \in [Browser -> DB] /\ \A c \in Browser \ {b} : draft'[c] = draft[c]
  BY <1>1, <1>2 DEF TypeOK
<1> QED
  BY <1>2, <1>3, <1>4, IdleType, CalmStep DEF Calm

\* One SELECT of an export, in its four places.
LEMMA ReadTable ==
    ASSUME TypeOK, NEW b \in Browser, NEW d \in DB,
           draft' = [draft EXCEPT ![b] = d]
    PROVE  /\ draft' \in [Browser -> DB] /\ draft'[b] = d
           /\ \A c \in Browser \ {b} : draft'[c] = draft[c]
BY DEF TypeOK

LEMMA SetTable ==
    ASSUME NEW d \in DB, NEW e \in DB
    PROVE  /\ [d EXCEPT !["users"] = e["users"]] \in DB
           /\ [d EXCEPT !["tokens"] = e["tokens"]] \in DB
           /\ [d EXCEPT !["channels"] = e["channels"]] \in DB
           /\ [d EXCEPT !["models"] = e["models"]] \in DB
BY DEF DB

LEMMA ExportTablesStep ==
    ASSUME IInv, Remember, NEW b \in Browser, ExportTables(b)
    PROVE  IInv'
<1>1. /\ TypeOK /\ References /\ handler[b] \in Handler /\ db \in DB
      /\ draft[b] \in DB /\ DraftInv(b)
  BY DEF IInv, TypeOK
<1>2. PICK table, next :
         /\ <<table, next>> \in {<<"users", "tokens">>, <<"tokens", "channels">>,
                                 <<"channels", "models">>, <<"models", "keys">>}
         /\ Read(b, table, next)
  BY DEF ExportTables
<1>3. /\ handler[b].at = table /\ Goto(b, next)
      /\ UNCHANGED <<db, server, cookie, file, ops>>
      /\ draft' = [draft EXCEPT ![b] = [draft[b] EXCEPT ![table] = db[table]]]
  BY <1>1, <1>2 DEF Read, At, TypeOK
<1> DEFINE h == [handler[b] EXCEPT !.at = next]
           d == [draft[b] EXCEPT ![table] = db[table]]
<1>4. h \in Handler /\ h.at = next
  <2>1. next \in {"delete_tokens", "delete_user", "tokens", "channels", "models", "keys"}
    BY <1>2
  <2> QED
    BY <1>1, <2>1, GotoType
<1>5. Become(b, h)
  BY <1>3 DEF Goto
<1> HIDE DEF h
<1>6. handler'[b] = h
  BY <1>1, <1>5 DEF TypeOK, Become
<1>7. d \in DB
  BY <1>1, <1>2, SetTable
<1>8. /\ table = "users" => d.users = db.users
      /\ table = "tokens" => d.users = draft[b].users /\ d.tokens = db.tokens
      /\ table = "channels" => /\ d.users = draft[b].users /\ d.tokens = draft[b].tokens
                               /\ d.channels = db.channels
      /\ table = "models" => /\ d.users = draft[b].users /\ d.tokens = draft[b].tokens
                             /\ d.channels = draft[b].channels /\ d.models = db.models
  <2>1. ASSUME table = "users"
        PROVE  d.users = db.users
    BY <1>1, <2>1 DEF DB
  <2>2. ASSUME table = "tokens"
        PROVE  d.users = draft[b].users /\ d.tokens = db.tokens
    BY <1>1, <2>2 DEF DB
  <2>3. ASSUME table = "channels"
        PROVE  /\ d.users = draft[b].users /\ d.tokens = draft[b].tokens
               /\ d.channels = db.channels
    BY <1>1, <2>3 DEF DB
  <2>4. ASSUME table = "models"
        PROVE  /\ d.users = draft[b].users /\ d.tokens = draft[b].tokens
               /\ d.channels = draft[b].channels /\ d.models = db.models
    BY <1>1, <2>4 DEF DB
  <2> QED
    BY <2>1, <2>2, <2>3, <2>4
<1> HIDE DEF d
<1>9. /\ draft' \in [Browser -> DB] /\ draft'[b] = d
      /\ \A c \in Browser \ {b} : draft'[c] = draft[c]
  BY <1>1, <1>3, <1>7, ReadTable DEF d
<1>10. table = "users" \/ (quiet'[b] => quiet[b])
  BY <1>2, <1>3 DEF Remember
<1>11. SelfInv(b)' /\ DraftInv(b)'
  <2>1. SelfInv(b)'
    BY <1>2, <1>4, <1>6 DEF SelfInv
  <2>2. DraftInv(b)'
    BY <1>1, <1>2, <1>3, <1>4, <1>6, <1>8, <1>9, <1>10 DEF DraftInv
  <2> QED
    BY <2>1, <2>2
<1>12. /\ db' \in DB /\ Consistent(db)' /\ ops' \in Nat
       /\ file' \in File \cup {None} /\ FileInv'
       /\ cookie' = cookie /\ server' = server
  BY <1>1, <1>3 DEF IInv, TypeOK, References, Consistent, Exists, FileInv
<1> QED
  BY <1>4, <1>5, <1>9, <1>11, <1>12, BrowserStep

LEMMA ExportKeysStep ==
    ASSUME IInv, Remember, NEW b \in Browser, ExportKeys(b)
    PROVE  IInv'
<1>1. /\ TypeOK /\ Consistent(db) /\ db \in DB /\ draft[b] \in DB /\ DraftInv(b)
      /\ quiet[b] \in BOOLEAN
  BY DEF IInv, TypeOK, References
<1>2. /\ handler[b].at = "keys" /\ Become(b, Idle)
      /\ UNCHANGED <<db, server, cookie, draft, ops>>
  BY DEF ExportKeys, At
<1> DEFINE d == [draft[b] EXCEPT !.keys = db.keys \cap draft[b].channels]
<1>3. file' = [db |-> d, quiet |-> quiet[b]]
  BY DEF ExportKeys
<1>4. db.keys \cap draft[b].channels \subseteq Channel
  BY <1>1, Typed
<1>5. /\ d \in DB /\ d.keys = db.keys \cap draft[b].channels
      /\ d.users = draft[b].users /\ d.tokens = draft[b].tokens
      /\ d.channels = draft[b].channels /\ d.models = draft[b].models
  BY <1>1, <1>4 DEF DB
<1> HIDE DEF d
<1>6. file' \in File /\ file'.db = d /\ file'.quiet = quiet[b]
  BY <1>1, <1>3, <1>5 DEF File
<1>7. quiet[b] => Consistent(d)
  BY <1>1, <1>2, <1>5 DEF DraftInv, Consistent, Exists
<1>8. FileInv'
  BY <1>6, <1>7 DEF FileInv, Consistent, Exists
<1>9. handler'[b].at \in Calm
  BY <1>1, <1>2, IdleType DEF TypeOK, Become, Calm
<1>10. SelfInv(b)' /\ DraftInv(b)'
  BY <1>9, CalmStays
<1>11. /\ db' \in DB /\ Consistent(db)' /\ ops' \in Nat /\ draft' \in [Browser -> DB]
       /\ \A c \in Browser \ {b} : draft'[c] = draft[c]
       /\ cookie' = cookie /\ server' = server
  BY <1>1, <1>2 DEF TypeOK, Consistent, Exists
<1> QED
  BY <1>2, <1>6, <1>8, <1>10, <1>11, IdleType, BrowserStep

LEMMA ImportAllStep ==
    ASSUME IInv, Remember, NEW b \in Browser, ImportAll(b), file \in File
    PROVE  IInv' /\ (db' = file.db \/ (db' = db /\ ~file.quiet))
<1>1. /\ TypeOK /\ Consistent(db) /\ db \in DB /\ file.db \in DB
      /\ file.quiet => Consistent(file.db)
  BY NoneIsNobody DEF IInv, TypeOK, References, FileInv, File
<1>2. Become(b, Idle) /\ UNCHANGED <<server, cookie, draft, file, ops>>
  BY DEF ImportAll
<1> DEFINE all == \A n \in 1 .. Len(InsertOrder) : Consistent(Inserted(file.db, n))
<1>3. db' = IF all THEN file.db ELSE db
  BY DEF ImportAll
<1>4. file.quiet => all
  BY <1>1, PrefixConsistent
<1>5. all => Consistent(file.db)
  <2> SUFFICES ASSUME all
               PROVE  Consistent(file.db)
    OBVIOUS
  <2> DEFINE e == Inserted(file.db, 5)
  <2>1. Len(InsertOrder) = 5
    BY DEF InsertOrder
  <2>2. /\ InsertOrder[1] = "users" /\ InsertOrder[2] = "tokens"
        /\ InsertOrder[3] = "channels" /\ InsertOrder[4] = "keys"
        /\ InsertOrder[5] = "models"
    BY DEF InsertOrder
  <2>3. DOMAIN file.db = {"users", "tokens", "channels", "keys", "models"}
    BY <1>1 DEF DB
  <2>4. \A table \in DOMAIN file.db : e[table] = file.db[table]
    BY <2>2, <2>3 DEF Inserted
  <2>5. Consistent(e)
    BY <2>1
  <2> HIDE DEF e
  <2> QED
    BY <2>3, <2>4, <2>5 DEF Consistent, Exists
<1> HIDE DEF all
<1>6. db' \in DB /\ Consistent(db')
  BY <1>1, <1>3, <1>5
<1>7. Consistent(db)'
  BY <1>6 DEF Consistent, Exists
<1>8. draft' \in [Browser -> DB] /\ \A c \in Browser \ {b} : draft'[c] = draft[c]
  BY <1>1, <1>2 DEF TypeOK
<1>9. IInv'
  BY <1>2, <1>6, <1>7, <1>8, IdleType, CalmStep DEF Calm
<1> QED
  BY <1>3, <1>4, <1>9

-----------------------------------------------------------------------------
(* The rest: channels, stop and start.                                     *)

\* No browser's request moves, and the cookies stay.
LEMMA DatabaseStep ==
    ASSUME IInv, Remember, UNCHANGED <<cookie, handler, draft, file>>,
           server' \in {"up", "down"}, ops' \in {ops, ops + 1},
           db' \in DB, Consistent(db)'
    PROVE  IInv'
<1>1. TypeOK
  BY DEF IInv
<1>2. TypeOK'
  BY <1>1, HistoryTyped DEF TypeOK
<1>3. \A b \in Browser : SelfInv(b)' /\ DraftInv(b)'
  BY <1>1, BystanderStays DEF IInv
<1>4. References' /\ FileInv'
  BY DEF IInv, References, FileInv, Consistent, Exists
<1> QED
  BY <1>2, <1>3, <1>4 DEF IInv

LEMMA WriteLibraryStep ==
    ASSUME IInv, Remember, WriteLibrary
    PROVE  IInv'
<1>1. Consistent(db) /\ db \in DB
  BY DEF IInv, TypeOK, References
<1>2. /\ server' = "up" /\ ops' = ops + 1
      /\ UNCHANGED <<cookie, handler, draft, file>>
  BY DEF WriteLibrary, Count
<1>3. PICK c \in Channel :
         \/ /\ c \notin db.channels
            /\ db' = [db EXCEPT !.channels = @ \cup {c}]
         \/ /\ c \in db.channels
            /\ \/ db' = [db EXCEPT !.keys = @ \cup {c}]
               \/ db' = [db EXCEPT !.models = @ \cup {c}]
               \/ db' = [db EXCEPT !.keys = @ \ {c}]
               \/ db' = [db EXCEPT !.models = @ \ {c}]
         \/ /\ c \in db.channels \ (db.keys \cup db.models)
            /\ db' = [db EXCEPT !.channels = @ \ {c}]
  BY DEF WriteLibrary
<1>4. /\ db' \in DB /\ db'.users = db.users /\ db'.tokens = db.tokens
      /\ db'.channels \in {db.channels, db.channels \cup {c}, db.channels \ {c}}
      /\ db'.keys \cup db'.models \subseteq db'.channels
  <2>1. db.keys \cup db.models \subseteq db.channels
    BY <1>1 DEF Consistent
  <2>2. db.channels \subseteq Channel /\ db.keys \subseteq Channel /\ db.models \subseteq Channel
    BY <1>1, Typed
  <2>3. CASE c \notin db.channels /\ db' = [db EXCEPT !.channels = @ \cup {c}]
    BY <1>1, <2>1, <2>2, <2>3 DEF DB
  <2>4. CASE c \in db.channels /\ db' = [db EXCEPT !.keys = @ \cup {c}]
    BY <1>1, <2>1, <2>2, <2>4 DEF DB
  <2>5. CASE c \in db.channels /\ db' = [db EXCEPT !.models = @ \cup {c}]
    BY <1>1, <2>1, <2>2, <2>5 DEF DB
  <2>6. CASE c \in db.channels /\ db' = [db EXCEPT !.keys = @ \ {c}]
    BY <1>1, <2>1, <2>2, <2>6 DEF DB
  <2>7. CASE c \in db.channels /\ db' = [db EXCEPT !.models = @ \ {c}]
    BY <1>1, <2>1, <2>2, <2>7 DEF DB
  <2>8. CASE /\ c \in db.channels \ (db.keys \cup db.models)
             /\ db' = [db EXCEPT !.channels = @ \ {c}]
    BY <1>1, <2>1, <2>2, <2>8 DEF DB
  <2> QED
    BY <1>3, <2>3, <2>4, <2>5, <2>6, <2>7, <2>8
<1>5. Consistent(db)'
  BY <1>1, <1>4 DEF Consistent, Exists
<1> QED
  BY <1>2, <1>4, <1>5, DatabaseStep

LEMMA StopStep ==
    ASSUME IInv, Remember, Stop
    PROVE  IInv'
<1>1. TypeOK
  BY DEF IInv
<1>2. /\ server' = "down" /\ ops' = ops + 1
      /\ handler' = [b \in Browser |-> Idle]
      /\ cookie' \in {cookie, [b \in Browser |-> 0]}
      /\ UNCHANGED <<db, draft, file>>
  BY DEF Stop, Count
<1>3. TypeOK'
  <2>1. handler' \in [Browser -> Handler] /\ cookie' \in [Browser -> Uid \cup {0}]
    BY <1>1, <1>2, IdleType DEF TypeOK
  <2> QED
    BY <1>1, <1>2, <2>1, HistoryTyped DEF TypeOK
<1>4. \A b \in Browser : SelfInv(b)' /\ DraftInv(b)'
  BY <1>2, IdleType, CalmStays DEF Calm
<1>5. References' /\ FileInv'
  BY <1>2 DEF IInv, References, FileInv, Consistent, Exists
<1> QED
  BY <1>3, <1>4, <1>5 DEF IInv

\* After a start somebody is an administrator.
LEMMA StartStep ==
    ASSUME IInv, Remember, Start
    PROVE  /\ IInv'
           /\ \E i \in Uid : db'.users[i] # None /\ db'.users[i].role = "admin"
<1>1. TypeOK /\ Consistent(db) /\ db \in DB
  BY DEF IInv, TypeOK, References
<1>2. server' = "up" /\ UNCHANGED <<cookie, handler, draft, file, ops>>
  BY DEF Start
<1>3. CASE Admins(db) # {} /\ UNCHANGED db
  <2>1. db' \in DB /\ Consistent(db)'
    BY <1>1, <1>3 DEF Consistent, Exists
  <2>2. \E i \in Uid : db'.users[i] # None /\ db'.users[i].role = "admin"
    BY <1>3 DEF Admins, Exists
  <2> QED
    BY <1>2, <2>1, <2>2, DatabaseStep
<1>4. CASE /\ ~Taken(db, AdminName) /\ FreeUid \in Uid
           /\ db' = NewUser(AdminName, "admin")
  <2>1. "admin" \in Role /\ AdminName \in Name
    BY AccountsAssumption DEF Role
  <2>2. db' \in DB /\ Consistent(db')
    BY <1>1, <1>4, <2>1, NewUserConsistent
  <2>3. Consistent(db)'
    BY <2>2 DEF Consistent, Exists
  <2> DEFINE u == [name |-> AdminName, role |-> "admin"]
  <2>4. u \in User /\ u.role = "admin"
    BY <2>1 DEF User
  <2>5. db' = [db EXCEPT !.users[FreeUid] = u]
    BY <1>4 DEF NewUser
  <2> HIDE DEF u
  <2>6. db'.users = [db.users EXCEPT ![FreeUid] = u]
    <3>1. PICK i \in Uid : i = FreeUid
      BY <1>4
    <3>2. db' = [db EXCEPT !.users[i] = u] /\ u \in User \cup {None}
      BY <2>4, <2>5, <3>1
    <3> QED
      BY <1>1, <3>1, <3>2, SetUserRow
  <2>7. db.users \in [Uid -> User \cup {None}]
    BY <1>1, Typed
  <2>8. \E i \in Uid : db'.users[i] # None /\ db'.users[i].role = "admin"
    BY <1>4, <2>4, <2>6, <2>7, NoneIsNobody
  <2> QED
    BY <1>2, <2>2, <2>3, <2>8, DatabaseStep
<1> QED
  BY <1>3, <1>4 DEF Start

LEMMA InitInv ==
    ASSUME Init
    PROVE  IInv
<1>1. NoRows \in DB
  BY DEF NoRows, DB
<1>2. TypeOK
  BY <1>1, IdleType, AccountsAssumption DEF Init, TypeOK
<1>3. \A b \in Browser : SelfInv(b) /\ DraftInv(b)
  BY DEF Init, SelfInv, DraftInv, Idle
<1>4. References /\ FileInv
  BY AccountsAssumption DEF Init, References, FileInv
<1> QED
  BY <1>2, <1>3, <1>4 DEF IInv

\* An import has a file to read.
Ready == \A b \in Browser : handler[b].at = "import" => file # None

LEMMA StepReady ==
    ASSUME TypeOK, Ready, [Next]_vars
    PROVE  Ready'
<1>1. CASE handler' = handler /\ file' = file
  BY <1>1 DEF Ready
<1>2. CASE Stop
  BY <1>2, IdleType DEF Stop, Ready
<1>3. ASSUME NEW b \in Browser, Handle(b)
      PROVE  Ready'
  <2>1. ASSUME NEW h, Become(b, h), h.at # "import" \/ file # None,
               file' = file \/ ExportKeys(b)
        PROVE  Ready'
    <3>1. /\ handler'[b] = h
          /\ \A c \in Browser \ {b} : handler'[c] = handler[c]
      BY <2>1 DEF TypeOK, Become
    <3>2. file # None => file' # None
      BY <2>1 DEF ExportKeys, None
    <3> QED
      BY <2>1, <3>1, <3>2 DEF Ready
  <2>2. CASE Login(b) \/ Logout(b)
    BY <2>2 DEF Login, Logout, Ready
  <2>3. CASE AdminOnly(b)
    BY <2>1, <2>3 DEF AdminOnly
  <2>4. CASE CreateUser(b) \/ UpdateUserRole(b) \/ DeleteUser(b) \/ InsertToken(b)
             \/ ExportKeys(b) \/ ImportAll(b)
    BY <2>1, <2>4, IdleType
       DEF CreateUser, UpdateUserRole, DeleteUser, InsertToken, ExportKeys, ImportAll
  <2>5. ASSUME NEW at, at # "import", Goto(b, at), file' = file
        PROVE  Ready'
    <3>1. handler[b] \in Handler
      BY DEF TypeOK
    <3>2. [handler[b] EXCEPT !.at = at].at = at
      BY <3>1 DEF Handler
    <3> QED
      BY <2>1, <2>5, <3>2 DEF Goto
  <2>6. CASE CheckSelf(b)
    BY <2>1, <2>5, <2>6, IdleType DEF CheckSelf
  <2>7. CASE DeleteTokensOf(b)
    BY <2>5, <2>7 DEF DeleteTokensOf
  <2>8. CASE Owner(b)
    <3>1. handler[b] \in Handler
      BY DEF TypeOK
    <3>2. \A i : [handler[b] EXCEPT !.at = "insert_token", !.id = i].at = "insert_token"
      BY <3>1 DEF Handler
    <3> QED
      BY <2>1, <2>8, <3>2, IdleType DEF Owner
  <2>9. CASE ExportTables(b)
    BY <2>5, <2>9 DEF ExportTables, Read
  <2> QED
    BY <1>3, <2>2, <2>3, <2>4, <2>6, <2>7, <2>8, <2>9 DEF Handle
<1> QED
  BY <1>1, <1>2, <1>3 DEF Next, WriteLibrary, Start, vars

LEMMA StepInv ==
    ASSUME IInv, Ready, [Next]_vars
    PROVE  IInv'
<1>1. CASE UNCHANGED vars
  BY <1>1 DEF vars, IInv, TypeOK, References, SelfInv, DraftInv, FileInv, Consistent,
        Exists
<1>2. ASSUME Remember, NEW b \in Browser, Handle(b)
      PROVE  IInv'
  <2>1. CASE ImportAll(b)
    <3>1. file \in File
      BY <2>1 DEF IInv, TypeOK, Ready, ImportAll, At
    <3> QED
      BY <1>2, <2>1, <3>1, ImportAllStep
  <2> QED
    BY <1>2, <2>1, LoginStep, AdminOnlyStep, WriteUserStep, CheckSelfStep,
       DeleteTokensStep, DeleteUserStep, OwnerStep, InsertTokenStep,
       ExportTablesStep, ExportKeysStep DEF Handle
<1> QED
  BY <1>1, <1>2, WriteLibraryStep, StopStep, StartStep DEF Next

-----------------------------------------------------------------------------
(* What single steps promise.                                              *)

LEMMA OwnHandlerOnly ==
    ASSUME TypeOK, NEW c \in Browser, Handle(c)
    PROVE  server' = server /\ \A b \in Browser : b # c => handler'[b] = handler[b]
<1>1. handler' = handler \/ \E h : Become(c, h)
  BY DEF Handle, Login, Logout, AdminOnly, CreateUser, UpdateUserRole, CheckSelf,
         DeleteTokensOf, DeleteUser, Owner, InsertToken, ExportTables, Read,
         ExportKeys, ImportAll, Goto
<1>2. server' = server
  BY DEF Handle, Login, Logout, AdminOnly, CreateUser, UpdateUserRole, CheckSelf,
         DeleteTokensOf, DeleteUser, Owner, InsertToken, ExportTables, Read,
         ExportKeys, ImportAll
<1> QED
  BY <1>1, <1>2 DEF TypeOK, Become

LEMMA StepStarts ==
    ASSUME IInv, [Next]_vars, server = "down", server' = "up"
    PROVE  \E i \in Uid : db'.users[i] # None /\ db'.users[i].role = "admin"
<1>1. ~(\E b \in Browser : Handle(b))
  BY OwnHandlerOnly DEF IInv
<1>2. ~WriteLibrary /\ ~Stop /\ ~UNCHANGED vars
  BY DEF WriteLibrary, Stop, vars
<1>3. Remember /\ Start
  BY <1>1, <1>2 DEF Next
<1> QED
  BY <1>3, StartStep

\* The step with which a browser's request comes to its end.
LEMMA EndsOwn ==
    ASSUME TypeOK, [Next]_vars, NEW b \in Browser,
           handler[b].at \in {"delete_user", "import"}, handler'[b].at = "idle"
    PROVE  \/ Stop
           \/ handler[b].at = "delete_user" /\ DeleteUser(b)
           \/ handler[b].at = "import" /\ ImportAll(b)
<1>1. handler'[b] # handler[b]
  OBVIOUS
<1>2. ~UNCHANGED vars /\ ~WriteLibrary /\ ~Start
  BY <1>1 DEF vars, WriteLibrary, Start
<1>3. \A c \in Browser : Handle(c) => c = b
  BY <1>1, OwnHandlerOnly
<1>4. Handle(b) => \/ handler[b].at = "delete_user" /\ DeleteUser(b)
                   \/ handler[b].at = "import" /\ ImportAll(b)
  BY DEF Handle, Login, Logout, AdminOnly, CreateUser, UpdateUserRole, CheckSelf,
         DeleteTokensOf, DeleteUser, Owner, InsertToken, ExportTables, Read,
         ExportKeys, ImportAll, At
<1> QED
  BY <1>2, <1>3, <1>4 DEF Next

LEMMA StepKeepsAdmin ==
    ASSUME IInv, [Next]_vars, NEW b \in Browser,
           handler[b].at = "delete_user", handler'[b].at = "idle",
           Admins(db) # {}, Admins(db') = {}, kept[b]
    PROVE  cookie[b] \notin Admins(db)
<1>1. db' # db
  OBVIOUS
<1>2. DeleteUser(b)
  BY <1>1, EndsOwn DEF IInv, Stop
<1>3. cookie[b] # handler[b].id
  BY DEF IInv, SelfInv
<1>4. ~ \E t \in Tid : db.tokens[t] = handler[b].id
  BY <1>1, <1>2 DEF DeleteUser
<1>5. db' = [db EXCEPT !.users[handler[b].id] = None] /\ db \in DB
  BY <1>2, <1>4 DEF DeleteUser, IInv, TypeOK
<1>6. \A i \in Uid : i # handler[b].id => db'.users[i] = db.users[i]
  <2>1. db.users \in [Uid -> User \cup {None}]
    BY <1>5, Typed
  <2>2. db'.users = [db.users EXCEPT ![handler[b].id] = None]
    BY <1>5 DEF DB
  <2> QED
    BY <2>1, <2>2
<1> QED
  BY <1>3, <1>6 DEF Admins, Exists

LEMMA StepImports ==
    ASSUME IInv, Ready, [Next]_vars, NEW b \in Browser,
           handler[b].at = "import", handler'[b].at = "idle", server' = "up"
    PROVE  db' = file.db \/ (db' = db /\ ~file.quiet)
<1>1. ImportAll(b)
  BY EndsOwn DEF IInv, Stop
<1>2. file \in File
  BY DEF IInv, TypeOK, Ready
<1>3. Remember
  BY <1>1, IdleType DEF Next, vars, ImportAll, Become, IInv, TypeOK
<1> QED
  BY <1>1, <1>2, <1>3, ImportAllStep

-----------------------------------------------------------------------------
(* Theorems.                                                               *)

\* The invariant holds in every state.
THEOREM Invariance == Spec => [](IInv /\ Ready)
<1>1. Init => IInv /\ Ready
  BY InitInv, IdleType DEF Init, Ready
<1>2. IInv /\ Ready /\ [Next]_vars => IInv' /\ Ready'
  BY StepInv, StepReady DEF IInv
<1> QED
  BY <1>1, <1>2, PTL DEF Spec

\* Every variable of Accounts has its type.
THEOREM TypeCorrect == Spec => []TypeOK
<1>1. IInv => TypeOK
  BY DEF IInv
<1> QED
  BY <1>1, Invariance, PTL

\* No token is without its user and no key or model without its channel, whatever
\* deletions, creations and imports do between each other's statements.
THEOREM ReferencesKept == Spec => []References
<1>1. IInv => References
  BY DEF IInv
<1> QED
  BY <1>1, Invariance, PTL

\* Whenever the gateway starts there is an administrator (ensureAdmin).
THEOREM AdminAtStart == Spec => StartRestores
<1>1. IInv /\ [Next]_vars =>
        [server = "down" /\ server' = "up" =>
           \E i \in Uid : db'.users[i] # None /\ db'.users[i].role = "admin"]_vars
  BY StepStarts
<1> QED
  BY <1>1, Invariance, PTL DEF Spec, StartRestores

\* Nobody who is an administrator removes the last one by deleting users.
THEOREM AdminNotDeleted == Spec => DeletionKeepsAdmin
<1>1. IInv /\ [Next]_vars =>
        [\A b \in Browser :
           (/\ handler[b].at = "delete_user" /\ handler'[b].at = "idle"
            /\ Admins(db) # {} /\ Admins(db') = {} /\ kept[b])
              => cookie[b] \notin Admins(db)]_vars
  BY StepKeepsAdmin
<1> QED
  BY <1>1, Invariance, PTL DEF Spec, DeletionKeepsAdmin

\* An import of a file taken in quiet gives the database it was taken from, and
\* any import takes all or nothing.
THEOREM ImportExact == Spec => ImportRestores
<1>1. IInv /\ Ready /\ [Next]_vars =>
        [\A b \in Browser :
           handler[b].at = "import" /\ handler'[b].at = "idle" /\ server' = "up"
              => db' = file.db \/ (db' = db /\ ~file.quiet)]_vars
  BY StepImports
<1> QED
  BY <1>1, Invariance, PTL DEF Spec, ImportRestores
=============================================================================
