---------------------------- MODULE ServiceProofs ----------------------------
(***************************************************************************)
(* Three components that stand by themselves, for any values of their        *)
(* constants: order-service's client of the user-service (UserDirectory),    *)
(* the user-service (UserService) and the two exception gates of the CI      *)
(* (ExceptionGates).                                                         *)
(***************************************************************************)
EXTENDS UserDirectory, UserService, ExceptionGates, WellFoundedInduction, TLAPS

(* What UserDirectory.exists answers, for any number of calls, users and     *)
(* attempts.                                                                 *)

\* What holds of a call at each of its awaits.
CallOK(c) ==
  /\ known[c] => user[c] \in users
  /\ step[c] \in {"idle", "get"} => attempt[c] = 0 /\ refused[c] = 0
  /\ step[c] = "fetch" => attempt[c] \in 1..Attempts /\ refused[c] = attempt[c] - 1
  /\ step[c] = "set" => user[c] \in users
  /\ reply[c] = "200" => user[c] \in users
  /\ reply[c] = "404" => ~known[c]
  /\ result[c] = "none" <=> step[c] # "done"
  /\ step[c] \in {"idle", "get"} => reply[c] = "none"
  /\ result[c] = "yes" => user[c] \in users
  /\ result[c] = "no" => ~known[c]
  /\ result[c] = "unavailable" =>
       refused[c] = Attempts \/ (reply[c] = "4xx" /\ refused[c] \in 1..Attempts)

\* Redis holds registered users only.
Inv == TypeOK /\ cache \subseteq users /\ \A c \in Calls : CallOK(c)

(* A step of one call keeps the invariant when that call keeps its part.     *)
LEMMA OneCall ==
  ASSUME Inv, TypeOK', NEW c \in Calls, UNCHANGED users, cache' \subseteq users,
         \A d \in Calls \ {c} :
           /\ step'[d] = step[d] /\ user'[d] = user[d] /\ attempt'[d] = attempt[d]
           /\ reply'[d] = reply[d] /\ result'[d] = result[d] /\ known'[d] = known[d]
           /\ refused'[d] = refused[d],
         CallOK(c)'
  PROVE  Inv'
<1>1. \A d \in Calls \ {c} : CallOK(d)'
  BY DEF Inv, CallOK
<1> QED BY <1>1 DEF Inv

(* Every step keeps the invariant.                                           *)
LEMMA NextInv == Inv /\ [Next]_vars => Inv'
<1> SUFFICES ASSUME Inv, [Next]_vars PROVE Inv'
  OBVIOUS
<1> TypeOK /\ cache \subseteq users
  BY DEF Inv
<1> USE ConstantsAssumption
<1>1. ASSUME NEW c \in Calls, NEW u \in Users, Call(c, u) PROVE Inv'
  <2>1. TypeOK'
    BY <1>1 DEF Call, TypeOK
  <2>2. CallOK(c)'
    BY <1>1, ZenonT(60) DEF Call, TypeOK, Inv, CallOK
  <2> QED BY <1>1, <2>1, <2>2, OneCall DEF Call, TypeOK
<1>2. ASSUME NEW c \in Calls, CacheGet(c) PROVE Inv'
  <2>1. TypeOK'
    BY <1>2 DEF CacheGet, Return, TypeOK
  <2>2. CallOK(c)'
    BY <1>2 DEF CacheGet, Return, TypeOK, Inv, CallOK
  <2> QED BY <1>2, <2>1, <2>2, OneCall DEF CacheGet, Return, TypeOK
<1>3. ASSUME NEW c \in Calls, UserServiceReplies(c) PROVE Inv'
  <2>1. TypeOK'
    BY <1>3 DEF UserServiceReplies, TypeOK, Replies
  <2>2. CallOK(c)'
    BY <1>3 DEF UserServiceReplies, TypeOK, Inv, CallOK
  <2> QED BY <1>3, <2>1, <2>2, OneCall DEF UserServiceReplies, TypeOK
<1>4. ASSUME NEW c \in Calls, Fetched(c) PROVE Inv'
  <2>1. TypeOK'
    BY <1>4 DEF Fetched, Return, TypeOK
  <2>2. CallOK(c)'
    BY <1>4 DEF Fetched, Return, TypeOK, Inv, CallOK
  <2> QED BY <1>4, <2>1, <2>2, OneCall DEF Fetched, Return, TypeOK
<1>5. ASSUME NEW c \in Calls, FetchFails(c) PROVE Inv'
  <2>1. CallOK(c) /\ attempt[c] \in 0..Attempts /\ refused[c] \in Nat
    BY DEF Inv, TypeOK
  <2>2. TypeOK'
    BY <1>5 DEF FetchFails, Return, TypeOK, Replies
  <2>3. CallOK(c)'
    BY <1>5, <2>1 DEF FetchFails, Return, TypeOK, CallOK
  <2> QED BY <1>5, <2>2, <2>3, OneCall DEF FetchFails, Return, TypeOK
<1>6. ASSUME NEW c \in Calls, CacheSet(c) PROVE Inv'
  <2>1. TypeOK'
    BY <1>6 DEF CacheSet, Return, TypeOK
  <2>2. CallOK(c)' /\ cache' \subseteq users
    BY <1>6 DEF CacheSet, Return, TypeOK, Inv, CallOK
  <2> QED BY <1>6, <2>1, <2>2, OneCall DEF CacheSet, Return, TypeOK
<1>7. ASSUME NEW u \in Users, Expire(u) \/ RegisterUser(u) PROVE Inv'
  BY <1>7 DEF Expire, RegisterUser, calls, Inv, TypeOK, CallOK
<1>8. CASE UNCHANGED vars
  BY <1>8 DEF vars, Inv, TypeOK, CallOK
<1> QED BY <1>1, <1>2, <1>3, <1>4, <1>5, <1>6, <1>7, <1>8 DEF Next, Advance

(* The invariant holds in every reachable state.                             *)
THEOREM Inductive == Spec => []Inv
<1>1. Init => Inv
  BY ConstantsAssumption DEF Init, Inv, TypeOK, CallOK, Replies
<1> QED BY <1>1, NextInv, PTL DEF Spec

(* exists() says yes only for a registered user, from the cache or not.      *)
THEOREM YesIsRight == Spec => []YesMeansRegistered
<1>1. Inv => YesMeansRegistered
  BY DEF Inv, CallOK, YesMeansRegistered
<1> QED BY <1>1, Inductive, PTL

(* exists() never denies a user who was registered before the call.          *)
THEOREM NoIsRight == Spec => []NoMeansNotYetRegistered
<1>1. Inv => NoMeansNotYetRegistered
  BY DEF Inv, CallOK, NoMeansNotYetRegistered
<1> QED BY <1>1, Inductive, PTL

(* exists() gives up only after failed requests to the user-service.         *)
THEOREM UnavailableIsRight == Spec => []UnavailableNeedsFailures
<1>1. Inv => UnavailableNeedsFailures
  BY DEF Inv, CallOK, UnavailableNeedsFailures
<1> QED BY <1>1, Inductive, PTL

-----------------------------------------------------------------------------
(* POST /v1/users, for any number of requests, ids and emails.               *)

\* No two statements hold one id, and nobody holds an id that is in the table.
Held ==
  \A r \in Requests : statement[r] \in {"id", "email"} =>
    /\ ~\E u \in rows : u.id = dto[r].id
    /\ \A q \in Requests : q # r => ~HoldsId(q, dto[r].id)

AccountsInv == UsersTypeOK /\ Held /\ ConflictIsTrue

(* What the catch block of create() and the filter make of each error.       *)
LEMMA ErrorReplies ==
  /\ replyTo(unique("users_pkey")) = "id exists"
  /\ replyTo(unique("users_email_key")) = "email exists"
  /\ replyTo(connectionLost) \in {"503", "500"}
  /\ replyTo(otherFailure) \in {"503", "500"}
BY DEF replyTo, unique, connectionLost, otherFailure

(* A reply is the first one or changes nothing.                              *)
LEMMA ReplyStep ==
  ASSUME UsersTypeOK, NEW r \in Requests, NEW a \in Answers, Reply(r, a)
  PROVE  /\ answer' \in [Requests -> Answers]
         /\ answer'[r] \in {answer[r], a}
         /\ \A q \in Requests \ {r} : answer'[q] = answer[q]
BY DEF UsersTypeOK, Reply

(* A step of one statement that leaves the table alone keeps the invariant   *)
(* when that statement's part is kept.                                       *)
LEMMA OneStatement ==
  ASSUME AccountsInv, UsersTypeOK', UNCHANGED <<rows, dto>>, NEW r \in Requests,
         \A q \in Requests \ {r} : statement'[q] = statement[q] /\ answer'[q] = answer[q],
         statement'[r] \in {"id", "email"} =>
           /\ ~\E u \in rows : u.id = dto[r].id
           /\ \A q \in Requests \ {r} : ~HoldsId(q, dto[r].id),
         answer'[r] = "id exists" => \E u \in rows : u.id = dto[r].id,
         answer'[r] = "email exists" =>
           \E u \in rows : u.email = dto[r].email /\ u.id # dto[r].id
  PROVE  AccountsInv'
<1>1. Held'
  BY ZenonT(60) DEF AccountsInv, Held, HoldsId
<1>2. ConflictIsTrue'
  BY ZenonT(60) DEF AccountsInv, ConflictIsTrue
<1> QED
  BY <1>1, <1>2, ZenonT(60) DEF AccountsInv

(* Every step of a statement, of its connection and of the database keeps    *)
(* the invariant.                                                            *)
LEMMA AccountsStep == AccountsInv /\ [UsersNext]_userVars => AccountsInv'
<1> SUFFICES ASSUME AccountsInv, [UsersNext]_userVars PROVE AccountsInv'
  OBVIOUS
<1>0. /\ UsersTypeOK /\ Held /\ ConflictIsTrue
      /\ {"none", "created", "id exists", "email exists", "503", "500"} \subseteq Answers
  BY DEF AccountsInv, Answers
<1>1. ASSUME NEW r \in Requests, Create(r) PROVE AccountsInv'
  BY <1>0, <1>1, OneStatement, ZenonT(60)
  DEF Create, UsersTypeOK, Steps, ConflictIsTrue
<1>2. ASSUME NEW r \in Requests, CheckId(r) PROVE AccountsInv'
  <2>1. CASE \E u \in rows : u.id = dto[r].id
    <3>1. /\ Reply(r, replyTo(unique("users_pkey")))
          /\ statement' = [statement EXCEPT ![r] = "over"]
      BY <1>2, <2>1 DEF CheckId
    <3>2. /\ answer' \in [Requests -> Answers]
          /\ answer'[r] \in {answer[r], "id exists"}
          /\ \A q \in Requests \ {r} : answer'[q] = answer[q]
      BY <1>0, <3>1, ReplyStep, ErrorReplies, ZenonT(60)
    <3> QED
      BY <1>0, <1>2, <2>1, <3>1, <3>2, OneStatement, ZenonT(60)
      DEF CheckId, UsersTypeOK, Steps, ConflictIsTrue
  <2>2. CASE ~\E u \in rows : u.id = dto[r].id
    <3>1. statement' = [statement EXCEPT ![r] = "id"] /\ UNCHANGED answer
      BY <1>2, <2>2 DEF CheckId
    <3> QED
      BY <1>0, <1>2, <2>2, <3>1, OneStatement, ZenonT(60)
      DEF CheckId, UsersTypeOK, Steps, ConflictIsTrue
  <2> QED
    BY <2>1, <2>2
<1>3. ASSUME NEW r \in Requests, CheckEmail(r) PROVE AccountsInv'
  <2>0. ~\E u \in rows : u.id = dto[r].id
    BY <1>0, <1>3, ZenonT(60) DEF CheckEmail, Held
  <2>1. CASE \E u \in rows : u.email = dto[r].email
    <3>1. /\ Reply(r, replyTo(unique("users_email_key")))
          /\ statement' = [statement EXCEPT ![r] = "over"]
      BY <1>3, <2>1 DEF CheckEmail
    <3>2. /\ answer' \in [Requests -> Answers]
          /\ answer'[r] \in {answer[r], "email exists"}
          /\ \A q \in Requests \ {r} : answer'[q] = answer[q]
      BY <1>0, <3>1, ReplyStep, ErrorReplies, ZenonT(60)
    <3>3. \E u \in rows : u.email = dto[r].email /\ u.id # dto[r].id
      BY <2>0, <2>1
    <3> QED
      BY <1>0, <1>3, <3>1, <3>2, <3>3, OneStatement, ZenonT(60)
      DEF CheckEmail, UsersTypeOK, Steps, ConflictIsTrue
  <2>2. CASE ~\E u \in rows : u.email = dto[r].email
    <3>1. statement' = [statement EXCEPT ![r] = "email"] /\ UNCHANGED answer
      BY <1>3, <2>2 DEF CheckEmail
    <3>2. \A q \in Requests \ {r} : ~HoldsId(q, dto[r].id)
      BY <1>0, <1>3, ZenonT(60) DEF CheckEmail, Held
    <3> QED
      BY <1>0, <1>3, <2>0, <3>1, <3>2, OneStatement, ZenonT(60)
      DEF CheckEmail, UsersTypeOK, Steps, ConflictIsTrue
  <2> QED
    BY <2>1, <2>2
<1>4. ASSUME NEW r \in Requests, Commit(r) PROVE AccountsInv'
  <2>1. /\ UsersTypeOK' /\ UNCHANGED <<dto, answer>> /\ rows' = rows \cup {dto[r]}
        /\ statement[r] = "email" /\ statement'[r] = "committed"
        /\ \A q \in Requests \ {r} : statement'[q] = statement[q]
    BY <1>0, <1>4, ZenonT(60) DEF Commit, UsersTypeOK, Steps
  <2>2. \A q \in Requests \ {r} : statement[q] \in {"id", "email"} => dto[q].id # dto[r].id
    BY <1>0, <2>1, ZenonT(60) DEF Held, HoldsId
  <2>3. Held'
    BY <1>0, <2>1, <2>2, ZenonT(60) DEF Held, HoldsId
  <2>4. ConflictIsTrue'
    BY <1>0, <2>1, ZenonT(60) DEF ConflictIsTrue
  <2> QED
    BY <2>1, <2>3, <2>4 DEF AccountsInv
<1>5. ASSUME NEW r \in Requests, Returned(r) PROVE AccountsInv'
  <2>1. Reply(r, "created")
    BY <1>5 DEF Returned
  <2>2. /\ answer' \in [Requests -> Answers]
        /\ answer'[r] \in {answer[r], "created"}
        /\ \A q \in Requests \ {r} : answer'[q] = answer[q]
    BY <1>0, <2>1, ReplyStep, ZenonT(60)
  <2> QED
    BY <1>0, <1>5, <2>2, OneStatement, ZenonT(60)
    DEF Returned, UsersTypeOK, Steps, ConflictIsTrue
<1>6. ASSUME NEW r \in Requests, LoseConnection(r) \/ StatementFails(r) PROVE AccountsInv'
  <2>1. PICK a \in {"503", "500"} : Reply(r, a)
    BY <1>6, ErrorReplies, ZenonT(60) DEF LoseConnection, StatementFails
  <2>2. /\ answer' \in [Requests -> Answers]
        /\ answer'[r] \in {answer[r], "503", "500"}
        /\ \A q \in Requests \ {r} : answer'[q] = answer[q]
    BY <1>0, <2>1, ReplyStep, ZenonT(60)
  <2>3. /\ UsersTypeOK' /\ UNCHANGED <<rows, dto>> /\ statement'[r] \in {statement[r], "over"}
        /\ \A q \in Requests \ {r} : statement'[q] = statement[q]
    BY <1>0, <1>6, <2>2, ZenonT(60)
    DEF LoseConnection, StatementFails, UsersTypeOK, Steps
  <2> QED
    BY <1>0, <2>2, <2>3, OneStatement, ZenonT(60) DEF Held, ConflictIsTrue
<1>7. CASE Restart
  <2>1. /\ answer' \in [Requests -> Answers]
        /\ \A q \in Requests : answer'[q] \in {answer[q], "503", "500"}
    BY <1>0, <1>7, ErrorReplies, ZenonT(60) DEF Restart, UsersTypeOK
  <2>2. UsersTypeOK' /\ Held' /\ ConflictIsTrue'
    BY <1>0, <1>7, <2>1, ZenonT(60)
    DEF Restart, UsersTypeOK, Steps, Held, HoldsId, ConflictIsTrue
  <2> QED
    BY <2>2 DEF AccountsInv
<1>8. CASE UNCHANGED userVars
  BY <1>8, ZenonT(60)
  DEF userVars, AccountsInv, UsersTypeOK, Held, HoldsId, ConflictIsTrue
<1> QED
  BY <1>1, <1>2, <1>3, <1>4, <1>5, <1>6, <1>7, <1>8 DEF UsersNext, StatementStep

(* A statement holds an id that is not in the table and that nobody else     *)
(* holds, in every reachable state.                                          *)
THEOREM AccountsInductive == UsersSpec => []AccountsInv
<1>1. UsersInit => AccountsInv
  BY DEF UsersInit, AccountsInv, UsersTypeOK, Held, ConflictIsTrue,
     Steps, Answers
<1>2. UsersInit /\ [][UsersNext]_userVars => []AccountsInv
  BY <1>1, AccountsStep, PTL
<1> QED BY <1>2, PTL DEF UsersSpec

(* For any number of concurrent creates, lost connections and restarts, a    *)
(* 409 of create() is true, and an email conflict is with another user.      *)
THEOREM ConflictsAreTrue == UsersSpec => []ConflictIsTrue
<1>1. AccountsInv => ConflictIsTrue
  BY DEF AccountsInv
<1> QED BY <1>1, AccountsInductive, PTL

\* The same for the email of a statement that holds one.
Reserved ==
  \A r \in Requests : statement[r] = "email" =>
    /\ ~\E u \in rows : u.email = dto[r].email
    /\ \A q \in Requests : q # r => ~HoldsEmail(q, dto[r].email)

\* Neither an id nor an email stands in two rows of the table.
NoDuplicates ==
  \A u, v \in rows : u.id = v.id \/ u.email = v.email => u = v

\* A user whose create() was answered 201, or is about to be, is in the table.
CreatedIsStored ==
  \A r \in Requests : statement[r] = "committed" \/ answer[r] = "created" => dto[r] \in rows

TableInv == Reserved /\ NoDuplicates /\ CreatedIsStored

(* A step of one statement that leaves the table alone.                      *)
LEMMA OneStatementTable ==
  ASSUME TableInv, UNCHANGED <<rows, dto>>, NEW r \in Requests,
         \A q \in Requests \ {r} : statement'[q] = statement[q] /\ answer'[q] = answer[q],
         statement'[r] = "email" =>
           /\ ~\E u \in rows : u.email = dto[r].email
           /\ \A q \in Requests \ {r} : ~HoldsEmail(q, dto[r].email),
         statement'[r] = "committed" \/ answer'[r] = "created" => dto[r] \in rows
  PROVE  TableInv'
<1>1. Reserved'
  <2> SUFFICES ASSUME NEW q \in Requests, statement'[q] = "email"
               PROVE  /\ ~\E u \in rows : u.email = dto[q].email
                      /\ \A p \in Requests \ {q} :
                           ~(statement'[p] = "email" /\ dto[p].email = dto[q].email)
    BY DEF Reserved, HoldsEmail
  <2>1. CASE q = r
    BY <2>1 DEF HoldsEmail
  <2>2. CASE q # r
    BY <2>2 DEF TableInv, Reserved, HoldsEmail
  <2> QED BY <2>1, <2>2
<1>2. NoDuplicates' /\ CreatedIsStored'
  BY ZenonT(60) DEF TableInv, NoDuplicates, CreatedIsStored
<1> QED
  BY <1>1, <1>2 DEF TableInv

(* Every step keeps the table free of duplicates and the promises of 201.    *)
LEMMA TableStep == AccountsInv /\ TableInv /\ [UsersNext]_userVars => TableInv'
<1> SUFFICES ASSUME AccountsInv, TableInv, [UsersNext]_userVars PROVE TableInv'
  OBVIOUS
<1>0. /\ UsersTypeOK /\ Held /\ Reserved /\ NoDuplicates /\ CreatedIsStored
      /\ {"none", "created", "id exists", "email exists", "503", "500"} \subseteq Answers
  BY DEF AccountsInv, TableInv, Answers
<1>1. ASSUME NEW r \in Requests, Create(r) \/ CheckId(r) PROVE TableInv'
  <2>1. /\ UNCHANGED <<rows, dto>> /\ statement'[r] \in {"insert", "over", "id"}
        /\ \A q \in Requests \ {r} : statement'[q] = statement[q]
    BY <1>0, <1>1, ZenonT(60) DEF Create, CheckId, UsersTypeOK
  <2>2. UNCHANGED answer \/ Reply(r, "id exists")
    BY <1>1, ErrorReplies, ZenonT(60) DEF Create, CheckId
  <2>3. /\ answer'[r] \in {answer[r], "id exists"}
        /\ \A q \in Requests \ {r} : answer'[q] = answer[q]
    BY <1>0, <2>2, ReplyStep, ZenonT(60)
  <2> QED
    BY <1>0, <2>1, <2>3, OneStatementTable, ZenonT(60) DEF CreatedIsStored
<1>2. ASSUME NEW r \in Requests, CheckEmail(r) PROVE TableInv'
  <2>1. /\ UNCHANGED <<rows, dto>>
        /\ \A q \in Requests : ~HoldsEmail(q, dto[r].email)
        /\ \A q \in Requests \ {r} : statement'[q] = statement[q]
        /\ \/ statement'[r] = "over"
           \/ statement'[r] = "email" /\ ~\E u \in rows : u.email = dto[r].email
    BY <1>0, <1>2, ZenonT(60) DEF CheckEmail, UsersTypeOK
  <2>2. UNCHANGED answer \/ Reply(r, "email exists")
    BY <1>2, ErrorReplies, ZenonT(60) DEF CheckEmail
  <2>3. /\ answer'[r] \in {answer[r], "email exists"}
        /\ \A q \in Requests \ {r} : answer'[q] = answer[q]
    BY <1>0, <2>2, ReplyStep, ZenonT(60)
  <2> QED
    BY <1>0, <2>1, <2>3, OneStatementTable, ZenonT(60) DEF CreatedIsStored
<1>3. ASSUME NEW r \in Requests, Commit(r) PROVE TableInv'
  <2>1. /\ UNCHANGED <<dto, answer>> /\ rows' = rows \cup {dto[r]}
        /\ statement[r] = "email" /\ statement'[r] = "committed"
        /\ \A q \in Requests \ {r} : statement'[q] = statement[q]
    BY <1>0, <1>3, ZenonT(60) DEF Commit, UsersTypeOK
  <2>2. \A q \in Requests \ {r} : statement[q] = "email" => dto[q].email # dto[r].email
    BY <1>0, <2>1, ZenonT(60) DEF Reserved, HoldsEmail
  <2>3. Reserved'
    BY <1>0, <2>1, <2>2, ZenonT(60) DEF Reserved, HoldsEmail
  <2>4. \A u \in rows : u.id # dto[r].id /\ u.email # dto[r].email
    BY <1>0, <2>1, ZenonT(60) DEF Held, Reserved
  <2>5. NoDuplicates'
    BY <1>0, <2>1, <2>4, ZenonT(60) DEF NoDuplicates
  <2>6. CreatedIsStored'
    BY <1>0, <2>1, ZenonT(60) DEF CreatedIsStored
  <2> QED
    BY <2>3, <2>5, <2>6 DEF TableInv
<1>4. ASSUME NEW r \in Requests, Returned(r) PROVE TableInv'
  <2>1. /\ UNCHANGED <<rows, dto>> /\ statement'[r] = "over" /\ dto[r] \in rows
        /\ \A q \in Requests \ {r} : statement'[q] = statement[q]
    BY <1>0, <1>4, ZenonT(60) DEF Returned, UsersTypeOK, CreatedIsStored
  <2>2. \A q \in Requests \ {r} : answer'[q] = answer[q]
    BY <1>0, <1>4, ReplyStep, ZenonT(60) DEF Returned
  <2> QED
    BY <2>1, <2>2, OneStatementTable, ZenonT(60)
<1>5. ASSUME NEW r \in Requests, LoseConnection(r) \/ StatementFails(r) PROVE TableInv'
  <2>1. PICK a \in {"503", "500"} : Reply(r, a)
    BY <1>5, ErrorReplies, ZenonT(60) DEF LoseConnection, StatementFails
  <2>2. /\ answer'[r] \in {answer[r], "503", "500"}
        /\ \A q \in Requests \ {r} : answer'[q] = answer[q]
    BY <1>0, <2>1, ReplyStep, ZenonT(60)
  <2>3. /\ UNCHANGED <<rows, dto>> /\ statement'[r] \in {statement[r], "over"}
        /\ \A q \in Requests \ {r} : statement'[q] = statement[q]
    BY <1>0, <1>5, ZenonT(60) DEF LoseConnection, StatementFails, UsersTypeOK
  <2> QED
    BY <1>0, <2>2, <2>3, OneStatementTable, ZenonT(60) DEF Reserved, CreatedIsStored
<1>6. CASE Restart
  <2>1. /\ UNCHANGED <<rows, dto>>
        /\ \A q \in Requests : answer'[q] \in {answer[q], "503", "500"}
        /\ \A q \in Requests : statement'[q] \in {"new", "over"}
    BY <1>0, <1>6, ErrorReplies, ZenonT(60) DEF Restart, UsersTypeOK
  <2> QED
    BY <1>0, <2>1, ZenonT(60) DEF TableInv, Reserved, NoDuplicates, CreatedIsStored
<1>7. CASE UNCHANGED userVars
  BY <1>0, <1>7, ZenonT(60)
  DEF userVars, TableInv, Reserved, NoDuplicates, CreatedIsStored, HoldsEmail
<1> QED
  BY <1>1, <1>2, <1>3, <1>4, <1>5, <1>6, <1>7 DEF UsersNext, StatementStep

(* However creates interleave, lose their connection or see the database     *)
(* restart, the table never holds an id or an email twice, and a caller that *)
(* was told 201 finds its user in it.                                        *)
THEOREM AccountsAreUnique == UsersSpec => [](NoDuplicates /\ CreatedIsStored)
<1>1. UsersInit => AccountsInv /\ TableInv
  BY DEF UsersInit, AccountsInv, UsersTypeOK, Held, ConflictIsTrue, Steps, Answers,
     TableInv, Reserved, NoDuplicates, CreatedIsStored
<1>2. UsersInit /\ [][UsersNext]_userVars => [](AccountsInv /\ TableInv)
  BY <1>1, AccountsStep, TableStep, PTL
<1>3. TableInv => NoDuplicates /\ CreatedIsStored
  BY DEF TableInv
<1> QED BY <1>2, <1>3, PTL DEF UsersSpec

-----------------------------------------------------------------------------
(* The two exception gates, for any repository and any number of days.       *)

(* A set of numbers that is not empty has a least one.                       *)
LEMMA LeastNumber ==
  ASSUME NEW T, T \subseteq Nat, T # {}
  PROVE  \E x \in T : \A y \in T : x <= y
<1> DEFINE R == OpToRel(<, Nat)
<1>1. IsWellFoundedOn(R, Nat)
  BY NatLessThanWellFounded, ZenonT(60)
<1> HIDE DEF R
<1>2. PICK x \in T : \A y \in T : ~(<<y, x>> \in R)
  BY <1>1, WFMin, ZenonT(60)
<1>3. \A m, n \in Nat : m < n => <<m, n>> \in R
  BY DEF R, OpToRel
<1>4. \A y \in T : ~(y < x)
  BY <1>2, <1>3, ZenonT(60)
<1>5. \A y \in T : x \in Nat /\ y \in Nat
  OBVIOUS
<1> QED
  BY <1>4, <1>5

(* A set of numbers with zero and every successor has all numbers.           *)
LEMMA Induction ==
  ASSUME NEW S, 0 \in S, \A n \in Nat : n \in S => n + 1 \in S
  PROVE  Nat \subseteq S
<1> SUFFICES ASSUME Nat \ S # {} PROVE FALSE
  OBVIOUS
<1>1. PICK x \in Nat \ S : \A y \in Nat \ S : x <= y
  BY LeastNumber, ZenonT(60)
<1>2. x # 0 /\ x - 1 \in Nat
  BY <1>1
<1>3. x - 1 \in S
  BY <1>1, <1>2
<1> QED
  BY <1>1, <1>2, <1>3

-----------------------------------------------------------------------------
\* g is what the loop has after each of the first m lines.
Unrolls(g, lines, m) ==
  g = [n \in 0..m |-> IF n = 0 THEN start ELSE parseLine(g[n - 1], lines[n])]

(* The loop can be unrolled as far as there are lines.                       *)
LEMMA LoopExists ==
  ASSUME NEW lines, NEW m \in Nat
  PROVE  \E g : Unrolls(g, lines, m)
<1> DEFINE S == {k \in Nat : \E g : Unrolls(g, lines, k)}
<1>1. 0 \in S
  <2>1. Unrolls([n \in 0..0 |-> start], lines, 0)
    BY DEF Unrolls
  <2> QED
    BY <2>1
<1>2. ASSUME NEW k \in Nat, k \in S PROVE k + 1 \in S
  <2>1. PICK g : Unrolls(g, lines, k)
    BY <1>2
  <2> DEFINE h == [n \in 0..(k + 1) |-> IF n = k + 1 THEN parseLine(g[k], lines[k + 1]) ELSE g[n]]
  <2>2. ASSUME NEW n \in 0..(k + 1)
        PROVE  h[n] = IF n = 0 THEN start ELSE parseLine(h[n - 1], lines[n])
    <3>1. CASE n = k + 1
      BY <3>1
    <3>2. CASE n # k + 1
      <4>1. n \in 0..k /\ (n # 0 => n - 1 \in 0..k)
        BY <3>2
      <4>2. g[n] = IF n = 0 THEN start ELSE parseLine(g[n - 1], lines[n])
        BY <2>1, <4>1 DEF Unrolls
      <4>3. h[n] = g[n] /\ (n # 0 => h[n - 1] = g[n - 1])
        BY <4>1
      <4> QED
        BY <4>2, <4>3
    <3> QED
      BY <3>1, <3>2
  <2>3. h = [n \in 0..(k + 1) |-> h[n]]
    OBVIOUS
  <2> HIDE DEF h
  <2>4. Unrolls(h, lines, k + 1)
    BY <2>2, <2>3, ZenonT(60) DEF Unrolls
  <2> QED
    BY <2>4
<1> HIDE DEF S
<1>3. Nat \subseteq S
  BY <1>1, <1>2, Induction
<1> QED
  BY <1>3 DEF S

(* What the loop of parse() has after each line comes from the line before.  *)
LEMMA LoopUnrolls ==
  ASSUME NEW lines, Len(lines) \in Nat
  PROVE  /\ after(lines)[0] = start
         /\ \A n \in 1..Len(lines) :
              after(lines)[n] = parseLine(after(lines)[n - 1], lines[n])
<1>1. Unrolls(after(lines), lines, Len(lines))
  BY LoopExists, ZenonT(60) DEF after, Unrolls
<1> HIDE DEF after
<1> QED
  BY <1>1 DEF Unrolls

-----------------------------------------------------------------------------
Entry == [reason : BOOLEAN, exp : Date \cup {Missing}]

\* Line i, if it is an entry, has its reason above it and an acceptable date.
Good(lines, i, day) ==
  lines[i].kind = "entry" =>
    /\ i > 1 /\ lines[i - 1].kind = "comment"
    /\ \/ lines[i].exp = NaN
       \/ lines[i].exp \in 0..(day + MAX_EXCEPTION_DAYS)

\* What holds after n lines: reason tells of line n alone, and no entry so far
\* has a problem exactly if all lines so far are good.
Loop(lines, n, day) ==
  /\ after(lines)[n].entries \in Seq(Entry)
  /\ after(lines)[n].reason \in BOOLEAN
  /\ after(lines)[n].reason <=> (n > 0 /\ lines[n].kind = "comment")
  /\ after(lines)[n] = [entries |-> after(lines)[n].entries,
                                reason |-> after(lines)[n].reason]
  /\ (\A i \in DOMAIN after(lines)[n].entries : ~problem(after(lines)[n].entries[i], day))
       <=> \A i \in 1..n : Good(lines, i, day)

(* The loop's three cases, field by field.                                   *)
LEMMA ParseLine ==
  ASSUME NEW acc, NEW entries, NEW reason, acc = [entries |-> entries, reason |-> reason],
         NEW line \in Line, NEW new, new = parseLine(acc, line)
  PROVE  /\ new = [entries |-> new.entries, reason |-> new.reason]
         /\ new.reason \in BOOLEAN
         /\ new.reason <=> line.kind = "comment"
         /\ line.kind # "entry" => new.entries = entries
         /\ line.kind = "entry" =>
              new.entries = Append(entries, [reason |-> reason, exp |-> line.exp])
<1>1. CASE line.kind \in {"blank", "empty comment"}
  <2>1. new = [entries |-> entries, reason |-> FALSE]
    BY <1>1, ZenonT(60) DEF parseLine
  <2>2. new.entries = entries /\ new.reason = FALSE
    BY <2>1
  <2>3. new = [entries |-> new.entries, reason |-> new.reason]
    BY <2>1, <2>2
  <2> QED
    BY <1>1, <2>2, <2>3, ZenonT(60)
<1>2. CASE line.kind = "comment"
  <2>1. new = [entries |-> entries, reason |-> TRUE]
    BY <1>2, ZenonT(60) DEF parseLine
  <2>2. new.entries = entries /\ new.reason = TRUE
    BY <2>1
  <2>3. new = [entries |-> new.entries, reason |-> new.reason]
    BY <2>1, <2>2
  <2> QED
    BY <1>2, <2>2, <2>3, ZenonT(60)
<1>3. CASE line.kind = "entry"
  <2>1. new = [entries |-> Append(entries, [reason |-> reason, exp |-> line.exp]), reason |-> FALSE]
    BY <1>3 DEF parseLine
  <2>2. new.entries = Append(entries, [reason |-> reason, exp |-> line.exp]) /\ new.reason = FALSE
    BY <2>1
  <2>3. new = [entries |-> new.entries, reason |-> new.reason]
    BY <2>1, <2>2
  <2> QED
    BY <1>3, <2>2, <2>3, ZenonT(60)
<1> QED
  BY <1>1, <1>2, <1>3, ZenonT(60) DEF Line

(* One entry: it has no problem exactly if its line is good.                 *)
LEMMA EntryGood ==
  ASSUME NEW lines \in Seq(Line), NEW n \in 1..Len(lines), NEW day \in Nat,
         lines[n].kind = "entry",
         NEW reason \in BOOLEAN,
         reason <=> (n - 1 > 0 /\ lines[n - 1].kind = "comment")
  PROVE  problem([reason |-> reason, exp |-> lines[n].exp], day) <=> ~Good(lines, n, day)
<1>1. lines[n] \in Line
  OBVIOUS
<1>2. lines[n].exp \in Nat \/ lines[n].exp = NaN \/ lines[n].exp = Missing
  BY <1>1, ZenonT(60) DEF Line, Date
<1>3. MAX_EXCEPTION_DAYS \in Nat
  BY DaysAssumption
<1>4. (lines[n].exp = NaN \/ lines[n].exp \in 0..(day + MAX_EXCEPTION_DAYS))
        <=> ~(lines[n].exp = Missing \/ tooLate(lines[n].exp, day))
  BY <1>2, <1>3 DEF NaN, Missing, tooLate
<1>5. n - 1 > 0 <=> n > 1
  OBVIOUS
<1> QED
  BY <1>4, <1>5 DEF problem, Good

(* One more line.                                                            *)
LEMMA LoopStep ==
  ASSUME NEW lines \in Seq(Line), NEW n \in 1..Len(lines), NEW day \in Nat,
         Loop(lines, n - 1, day)
  PROVE  Loop(lines, n, day)
<1> DEFINE old == after(lines)[n - 1]
           new == after(lines)[n]
<1>1. new = parseLine(old, lines[n])
  BY LoopUnrolls
<1>2. lines[n] \in Line
  OBVIOUS
<1>3. /\ old = [entries |-> old.entries, reason |-> old.reason]
      /\ old.entries \in Seq(Entry) /\ old.reason \in BOOLEAN
      /\ old.reason <=> (n - 1 > 0 /\ lines[n - 1].kind = "comment")
      /\ (\A i \in DOMAIN old.entries : ~problem(old.entries[i], day))
           <=> \A i \in 1..(n - 1) : Good(lines, i, day)
  BY DEF Loop
<1> HIDE DEF old, new
<1>4. /\ new = [entries |-> new.entries, reason |-> new.reason]
      /\ new.reason \in BOOLEAN
      /\ new.reason <=> lines[n].kind = "comment"
      /\ lines[n].kind # "entry" => new.entries = old.entries
      /\ lines[n].kind = "entry" =>
           new.entries = Append(old.entries, [reason |-> old.reason, exp |-> lines[n].exp])
  BY <1>1, <1>2, <1>3, ParseLine
<1>5. (\A i \in 1..n : Good(lines, i, day))
        <=> (\A i \in 1..(n - 1) : Good(lines, i, day)) /\ Good(lines, n, day)
  OBVIOUS
<1>6. n > 0
  OBVIOUS
<1>7. CASE lines[n].kind # "entry"
  <2>1. Good(lines, n, day)
    BY <1>7 DEF Good
  <2>2. new.entries = old.entries
    BY <1>4, <1>7
  <2>3. (\A i \in DOMAIN new.entries : ~problem(new.entries[i], day))
          <=> \A i \in 1..n : Good(lines, i, day)
    BY <1>3, <1>5, <2>1, <2>2
  <2>4. new.entries \in Seq(Entry)
    BY <1>3, <2>2, ZenonT(60)
  <2> QED
    BY <1>4, <1>6, <2>3, <2>4 DEF Loop, new
<1>8. CASE lines[n].kind = "entry"
  <2> DEFINE e == [reason |-> old.reason, exp |-> lines[n].exp]
  <2>1. e \in Entry
    BY <1>2, <1>3, ZenonT(60) DEF Entry, Line
  <2>2. problem(e, day) <=> ~Good(lines, n, day)
    BY <1>3, <1>8, EntryGood
  <2> HIDE DEF e
  <2>3. new.entries = Append(old.entries, e)
    BY <1>4, <1>8 DEF e
  <2>4. /\ new.entries \in Seq(Entry)
        /\ DOMAIN new.entries = DOMAIN old.entries \cup {Len(old.entries) + 1}
        /\ \A i \in DOMAIN old.entries : new.entries[i] = old.entries[i]
        /\ new.entries[Len(old.entries) + 1] = e
    BY <1>3, <2>1, <2>3
  <2>5. (\A i \in DOMAIN new.entries : ~problem(new.entries[i], day))
          <=> (\A i \in DOMAIN old.entries : ~problem(old.entries[i], day)) /\ ~problem(e, day)
    BY <2>4
  <2>6. (\A i \in DOMAIN new.entries : ~problem(new.entries[i], day))
          <=> \A i \in 1..n : Good(lines, i, day)
    BY <1>3, <1>5, <2>2, <2>5
  <2> QED
    BY <1>4, <1>6, <2>4, <2>6 DEF Loop, new
<1> QED
  BY <1>7, <1>8

(* So the loop has seen what the file says.                                  *)
LEMMA LoopInvariant ==
  ASSUME NEW lines \in Seq(Line), NEW day \in Nat
  PROVE  Loop(lines, Len(lines), day)
<1> DEFINE S == {n \in Nat : n <= Len(lines) => Loop(lines, n, day)}
<1>1. 0 \in S
  <2>1. after(lines)[0] = start
    BY LoopUnrolls
  <2>2. Loop(lines, 0, day)
    BY <2>1 DEF Loop, start
  <2> QED
    BY <2>2
<1>2. ASSUME NEW n \in Nat, n \in S PROVE n + 1 \in S
  <2> SUFFICES ASSUME n + 1 <= Len(lines) PROVE Loop(lines, n + 1, day)
    OBVIOUS
  <2>1. n + 1 \in 1..Len(lines) /\ (n + 1) - 1 = n /\ n <= Len(lines)
    OBVIOUS
  <2>2. Loop(lines, (n + 1) - 1, day)
    BY <1>2, <2>1
  <2> QED
    BY <2>1, <2>2, LoopStep
<1> HIDE DEF S
<1>3. Nat \subseteq S
  BY <1>1, <1>2, Induction
<1>4. Len(lines) \in S /\ Len(lines) <= Len(lines)
  BY <1>3
<1> QED
  BY <1>4 DEF S

-----------------------------------------------------------------------------
\* Nobody touches the repository.
GatesInv == repo \in Repositories /\ today \in Nat

(* The files are as they were, whatever the day.                             *)
THEOREM GatesInductive == GatesSpec => []GatesInv
<1>1. GatesInit => GatesInv
  BY DEF GatesInit, GatesInv
<1>2. GatesInv /\ [GatesNext]_gateVars => GatesInv'
  BY DEF GatesInv, GatesNext, NextDay, gateVars
<1> QED
  BY <1>1, <1>2, PTL DEF GatesSpec

(* parse() and the date check of image-scan/gate.mjs, for a file of any      *)
(* length: the gate passes exactly the files in which every entry has a      *)
(* reason on the line above it and an acceptable date.                       *)
THEOREM ImageGateIsRight == GatesSpec => []ImageVerdictRight
<1>1. GatesInv => ImageVerdictRight
  <2> SUFFICES ASSUME GatesInv PROVE ImageVerdictRight
    OBVIOUS
  <2>1. repo.text \in Seq(Line) /\ today \in Nat
    BY RepositoriesAssumption DEF GatesInv
  <2>2. Loop(repo.text, Len(repo.text), today)
    BY <2>1, LoopInvariant, ZenonT(60)
  <2>3. imagesOk(today) <=> \A i \in 1..Len(repo.text) : Good(repo.text, i, today)
    BY <2>2 DEF Loop, imagesOk, parse
  <2>4. DOMAIN repo.text = 1..Len(repo.text)
    BY <2>1
  <2> QED
    BY <2>3, <2>4 DEF ImageVerdictRight, Good
<1> QED
  BY <1>1, GatesInductive, PTL

(* checkExceptions accepts tomorrow only what it accepts today.              *)
LEMMA ValidBefore ==
  ASSUME NEW e, e.added \in Date, e.expires \in Date, NEW day \in Nat, valid(e, day + 1)
  PROVE  valid(e, day)
<1>1. e.expires \in Nat
  BY DEF valid, isFinite, Date
<1> QED
  BY <1>1 DEF valid

(* For any list of exceptions and any audit report, a day that goes by never *)
(* turns a failing dependency gate into a passing one.                       *)
THEOREM WaitingDoesNotHelp == GatesSpec => WaitingNeverHelps
<1>1. ASSUME GatesInv, [GatesNext]_gateVars
      PROVE  [dependenciesOk(today') => dependenciesOk(today)]_gateVars
  <2> SUFFICES ASSUME NextDay, dependenciesOk(today') PROVE dependenciesOk(today)
    BY <1>1 DEF GatesNext
  <2>1. repo' = repo /\ today' = today + 1 /\ today \in Nat
    BY <1>1 DEF NextDay, GatesInv
  <2>2. \A e \in repo.list : e.added \in Date /\ e.expires \in Date
    BY <1>1, RepositoriesAssumption DEF GatesInv
  <2>3. \A e \in repo.list : valid(e, today + 1)
    BY <2>1 DEF dependenciesOk, problems
  <2>4. \A e \in repo.list : valid(e, today)
    BY <2>1, <2>2, <2>3, ValidBefore
  <2>5. problems(today) = {}
    BY <2>4 DEF problems
  <2>6. \A a \in repo.audit : status(a, today) = status(a, today + 1)
    BY <2>3, <2>4, ZenonT(60) DEF status
  <2>7. blocking(today) = blocking(today + 1)
    BY <2>6 DEF blocking
  <2> QED
    BY <2>1, <2>5, <2>7 DEF dependenciesOk
<1> QED
  BY <1>1, GatesInductive, PTL DEF GatesSpec, WaitingNeverHelps
=============================================================================
