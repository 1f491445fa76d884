----------------------------- MODULE UserService -----------------------------
(***************************************************************************)
(* POST /v1/users: UsersService.create against the users table, whose        *)
(* primary key (the id) and unique email PostgreSQL checks one after the     *)
(* other, waiting for a concurrent statement that holds the same value.  The *)
(* connection may be lost at any time, and the statement then goes on        *)
(* without its caller; the database may restart, and the statement is gone.  *)
(***************************************************************************)
EXTENDS Integers, FiniteSets, FiniteSetsExt, Sequences

CONSTANTS Requests, Ids, Emails

VARIABLES
  rows,       \* the users table
  dto,        \* dto[r]: the row request r asks for
  statement,  \* statement[r]: how far its INSERT has come
  answer      \* answer[r]: what its caller is told

userVars == <<rows, dto, statement, answer>>

User == [id : Ids, email : Emails]

\* A statement has not begun, is about to check the primary key, holds its
\* id, holds its id and its email, is committed, or is over.
Steps == {"new", "insert", "id", "email", "committed", "over"}

Answers == {"none", "created", "id exists", "email exists", "503", "500"}

UsersInit ==
  /\ rows = {} /\ dto \in [Requests -> User]
  /\ statement = [r \in Requests |-> "new"]
  /\ answer = [r \in Requests |-> "none"]

-----------------------------------------------------------------------------
\* An error is the chain of an error and what it wraps: TypeORM's
\* QueryFailedError around the driver's error.  Two wrapped levels are looked at.
isDatabaseUnavailable(err) ==
  \E depth \in 1..Min({Len(err), 3}) : err[depth] = "connection"

unique(constraint) == <<"QueryFailedError", constraint>>
connectionLost == <<"QueryFailedError", "connection">>
otherFailure == <<"QueryFailedError", "other">>

\* Mutant: a conflict on the primary key is told as one on the email.
replyToSwapped(err) ==
  IF err[2] = "users_pkey" THEN "email exists"
  ELSE IF err[2] = "users_email_key" THEN "id exists"
  ELSE IF isDatabaseUnavailable(err) THEN "503" ELSE "500"

\* Mutant: a lost connection is logged, and the request is left alone.
replyToSwallowing(err) ==
  IF err[2] = "users_pkey" THEN "id exists"
  ELSE IF err[2] = "users_email_key" THEN "email exists"
  ELSE IF isDatabaseUnavailable(err) THEN "none" ELSE "500"

\* The catch block of create, and the filter for what it throws on.
replyTo(err) ==
  IF err[2] = "users_pkey" THEN "id exists"
  ELSE IF err[2] = "users_email_key" THEN "email exists"
  ELSE IF isDatabaseUnavailable(err) THEN "503" ELSE "500"

\* The caller is told something, unless it has been told already.
Reply(r, a) == answer' = [answer EXCEPT ![r] = IF @ = "none" THEN a ELSE @]

\* Statements that hold an id, or an id and an email, and are not over.
HoldsId(q, id) == statement[q] \in {"id", "email"} /\ dto[q].id = id
HoldsEmail(q, email) == statement[q] = "email" /\ dto[q].email = email

(* The statement is sent.                                                    *)
Create(r) ==
  /\ statement[r] = "new"
  /\ statement' = [statement EXCEPT ![r] = "insert"]
  /\ UNCHANGED <<rows, dto, answer>>

(* The primary key is checked, once no other statement holds the id.         *)
CheckId(r) ==
  /\ statement[r] = "insert"
  /\ ~\E q \in Requests : HoldsId(q, dto[r].id)
  /\ \/ /\ \E u \in rows : u.id = dto[r].id
        /\ statement' = [statement EXCEPT ![r] = "over"]
        /\ Reply(r, replyTo(unique("users_pkey")))
     \/ /\ ~\E u \in rows : u.id = dto[r].id
        /\ statement' = [statement EXCEPT ![r] = "id"]
        /\ UNCHANGED answer
  /\ UNCHANGED <<rows, dto>>

(* The email is checked, once no other statement holds it.                   *)
CheckEmail(r) ==
  /\ statement[r] = "id"
  /\ ~\E q \in Requests : HoldsEmail(q, dto[r].email)
  /\ \/ /\ \E u \in rows : u.email = dto[r].email
        /\ statement' = [statement EXCEPT ![r] = "over"]
        /\ Reply(r, replyTo(unique("users_email_key")))
     \/ /\ ~\E u \in rows : u.email = dto[r].email
        /\ statement' = [statement EXCEPT ![r] = "email"]
        /\ UNCHANGED answer
  /\ UNCHANGED <<rows, dto>>

(* The statement commits.                                                    *)
Commit(r) ==
  /\ statement[r] = "email"
  /\ rows' = rows \cup {dto[r]}
  /\ statement' = [statement EXCEPT ![r] = "committed"]
  /\ UNCHANGED <<dto, answer>>

(* The result arrives and create returns the user.                           *)
Returned(r) ==
  /\ statement[r] = "committed"
  /\ statement' = [statement EXCEPT ![r] = "over"]
  /\ Reply(r, "created")
  /\ UNCHANGED <<rows, dto>>

(* The connection is lost: the caller is told, the statement goes on.        *)
LoseConnection(r) ==
  /\ statement[r] \in {"insert", "id", "email", "committed"}
  /\ answer[r] = "none"
  /\ Reply(r, replyTo(connectionLost))
  /\ UNCHANGED <<rows, dto, statement>>

(* The statement fails for another reason (a full disk).                     *)
StatementFails(r) ==
  /\ statement[r] \in {"insert", "id", "email"}
  /\ statement' = [statement EXCEPT ![r] = "over"]
  /\ Reply(r, replyTo(otherFailure))
  /\ UNCHANGED <<rows, dto>>

(* The database restarts: statements that have not committed are gone.       *)
Restart ==
  /\ \E r \in Requests : statement[r] \in {"insert", "id", "email", "committed"}
  /\ statement' = [r \in Requests |-> IF statement[r] = "new" THEN "new" ELSE "over"]
  /\ answer' = [r \in Requests |->
       IF statement[r] # "new" /\ answer[r] = "none" THEN replyTo(connectionLost) ELSE answer[r]]
  /\ UNCHANGED <<rows, dto>>

-----------------------------------------------------------------------------
StatementStep(r) == CheckId(r) \/ CheckEmail(r) \/ Commit(r) \/ Returned(r)

Done == \A r \in Requests : statement[r] = "over"

UsersNext ==
  \/ \E r \in Requests : Create(r) \/ StatementStep(r)
  \/ \E r \in Requests : LoseConnection(r) \/ StatementFails(r)
  \/ Restart
  \/ Done /\ UNCHANGED userVars

(* A statement that need not wait goes on.                                   *)
UsersSpec ==
  /\ UsersInit /\ [][UsersNext]_userVars
  /\ \A r \in Requests : WF_userVars(StatementStep(r))

-----------------------------------------------------------------------------
(* Every variable has its type.                                              *)
UsersTypeOK ==
  /\ rows \subseteq User /\ dto \in [Requests -> User]
  /\ statement \in [Requests -> Steps] /\ answer \in [Requests -> Answers]

(* A 409 is true: the id is taken, or the email is taken by another user.    *)
(* In particular nobody who repeats a request is told that somebody else has *)
(* the email.                                                                *)
ConflictIsTrue ==
  \A r \in Requests :
    /\ answer[r] = "id exists" => \E u \in rows : u.id = dto[r].id
    /\ answer[r] = "email exists" =>
         \E u \in rows : u.email = dto[r].email /\ u.id # dto[r].id

(* Statements that wait for each other do not wait for ever.                 *)
EveryCreateAnswered ==
  \A r \in Requests : statement[r] # "new" ~> answer[r] # "none"
=============================================================================
