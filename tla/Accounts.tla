------------------------------ MODULE Accounts ------------------------------
(***************************************************************************)
(* Registering, profiles and whose mail address a password link goes to    *)
(* (src/src/controllers/AuthController.cpp and UserController.cpp over the *)
(* table users of src/sql/002_auth.sql).                                   *)
(*                                                                         *)
(* One step is one SQL statement with its callback.  An account's id is    *)
(* drawn when its row is inserted, so the request that registered it       *)
(* stands for it.                                                          *)
(*                                                                         *)
(* Left out: passwords, tokens and the state of accounts, which Sessions   *)
(* models; gender, which is stored as it comes; the region, which every    *)
(* statement treats as it does the nationality; and bodies that fail       *)
(* validation, which are answered before the first statement.  Codes come  *)
(* normalized.                                                             *)
(***************************************************************************)
EXTENDS Integers, FiniteSets

CONSTANTS Registered,     \* accounts registered before the first request
          Requests,       \* HTTP requests, each served once
          Names, Emails,
          Codes,          \* nationalities in the form of ISO 3166-1
          Known,          \* those that table countries lists
          NoCode,         \* nationality IS NULL
          Keep,           \* a field an update does not name
          NoRow,          \* there is no account
          Ops             \* the operations requests may ask for

Ids == Registered \cup Requests
Row == [name : Names, email : Emails, code : Known \cup {NoCode}]
Operations == {"register", "update", "me", "get_user_by_id", "list_users", "forgot",
               "delete_user"}

ASSUME AccountsAssumption ==
  /\ Registered \cap Requests = {}
  /\ Known \subseteq Codes
  /\ NoCode \notin Codes /\ Keep \notin Codes \cup {NoCode} \cup Emails
  /\ NoRow \notin Row
  /\ Ops \subseteq Operations

VARIABLES
  users,    \* the row of each account
  links,    \* mails sent: the request, the address, the account of the token
  pc,       \* the statement a request sends next
  call,     \* what a request asks for
  subject,  \* the accounts forgot_password's SELECT has returned
  reply,    \* status code sent to the client, 0 before
  past      \* history: who had which name and address while it was served

accountVars == <<users, links, pc, call, subject, reply, past>>

Link == [req : Requests, to : Emails, account : Ids]

Calls ==
  [op : {"register"}, name : Names, email : Emails, code : Codes \cup {NoCode}]
    \cup [op : {"update"}, id : Ids, email : Emails \cup {Keep},
          code : Codes \cup {NoCode, Keep}]
    \cup [op : {"me", "get_user_by_id", "delete_user"}, id : Ids]
    \cup [op : {"forgot"}, email : Emails]
    \cup [op : {"list_users"}]
NoCall == [op |-> "none"]

Waiting == {"register_select", "register_insert", "update_select", "update_statement",
            "forgot_select", "forgot_insert", "statement"}
Ended == {"done", "failed", "lost"}

AccountsTypeOK ==
  /\ users \in [Ids -> Row \cup {NoRow}]
  /\ links \subseteq Link
  /\ pc \in [Requests -> Waiting \cup Ended \cup {"new"}]
  /\ call \in [Requests -> Calls \cup {NoCall}]
  /\ subject \in [Requests -> SUBSET Ids]
  /\ reply \in [Requests -> {0, 200, 201, 204, 400, 404, 409, 500}]
  /\ past \in [Requests -> SUBSET (Ids \X Names \X Emails)]

-----------------------------------------------------------------------------
Exists(id) == users[id] # NoRow
Present == {<<i, users[i].name, users[i].email>> : i \in {j \in Ids : Exists(j)}}
InFlight(r) == pc[r] \in Waiting

\* Other accounts have the name or the mail address.
NameTaken(name) == \E i \in Ids : Exists(i) /\ users[i].name = name
EmailTaken(email, own) == \E i \in Ids \ own : Exists(i) /\ users[i].email = email

\* A form of KnownCode that leaves it to the client what a nationality is.
KnownCodeAny(code) == TRUE

\* The preflight queries of register_user and update_me look the code up in table
\* countries; the empty string stands for none.
KnownCode(code) == code \in Known \cup {NoCode, Keep}

Goto(r, label) == pc' = [pc EXCEPT ![r] = label] /\ UNCHANGED reply
Respond(r, code) == /\ pc' = [pc EXCEPT ![r] = "done"]
                    /\ reply' = [reply EXCEPT ![r] = code]

\* The table changes: requests that are being served see the new rows.
Store(id, row) ==
  /\ users' = [users EXCEPT ![id] = row]
  /\ past' = [r \in Requests |->
                IF InFlight(r) /\ row # NoRow
                THEN past[r] \cup {<<id, row.name, row.email>>} ELSE past[r]]

AccountsInit ==
  /\ users \in [Ids -> Row \cup {NoRow}]
  /\ \A i \in Ids : Exists(i) <=> i \in Registered
  /\ \A i, j \in Registered : i # j => /\ users[i].name # users[j].name
                                       /\ users[i].email # users[j].email
  /\ links = {}
  /\ pc = [r \in Requests |-> "new"]
  /\ call = [r \in Requests |-> NoCall]
  /\ subject = [r \in Requests |-> {}]
  /\ reply = [r \in Requests |-> 0]
  /\ past = [r \in Requests |-> {}]

FirstStatement(op) ==
  CASE op = "register" -> "register_select"
    [] op = "update" -> "update_select"
    [] op = "forgot" -> "forgot_select"
    [] OTHER -> "statement"

\* The accounts tokens have been issued for; they may be gone.
Subjects == Registered \cup {s \in Requests : call[s].op = "register" /\ reply[s] = 201}

ArriveAccount(r) ==
  /\ pc[r] = "new"
  /\ past' = [past EXCEPT ![r] = Present]
  /\ UNCHANGED <<users, links, subject>>
  /\ \E c \in Calls :
       /\ c.op \in Ops
       /\ c.op \in {"update", "me", "get_user_by_id", "delete_user"} => c.id \in Subjects
       /\ call' = [call EXCEPT ![r] = c]
       /\ Goto(r, FirstStatement(c.op))

-----------------------------------------------------------------------------
(* register_user *)

\* A form of RegisterSelect that takes an unknown code for a conflict.
RegisterSelectBlunt(r) ==
  LET c == call[r] IN
  /\ pc[r] = "register_select"
  /\ \/ /\ ~KnownCode(c.code) \/ NameTaken(c.name) \/ EmailTaken(c.email, {})
        /\ Respond(r, 409)
     \/ /\ KnownCode(c.code) /\ ~NameTaken(c.name) /\ ~EmailTaken(c.email, {})
        /\ Goto(r, "register_insert")
  /\ UNCHANGED <<users, links, call, subject, past>>

\* The preflight query; the codes are looked at before the name.
RegisterSelect(r) ==
  LET c == call[r]
      taken == NameTaken(c.name) \/ EmailTaken(c.email, {}) IN
  /\ pc[r] = "register_select"
  /\ \/ ~KnownCode(c.code) /\ Respond(r, 400)
     \/ KnownCode(c.code) /\ taken /\ Respond(r, 409)
     \/ KnownCode(c.code) /\ ~taken /\ Goto(r, "register_insert")
  /\ UNCHANGED <<users, links, call, subject, past>>

\* A form of InsertUser that relies on the preflight query.
InsertUserUnchecked(r) ==
  LET c == call[r] IN
  /\ Store(r, [name |-> c.name, email |-> c.email, code |-> c.code])
  /\ Respond(r, 201)

\* INSERT: a name or mail address taken since the preflight violates a unique
\* index, which is answered like any other database error.
InsertUser(r) ==
  LET c == call[r]
      taken == NameTaken(c.name) \/ EmailTaken(c.email, {}) IN
  \/ /\ ~taken
     /\ Store(r, [name |-> c.name, email |-> c.email, code |-> c.code])
     /\ Respond(r, 201)
  \/ taken /\ Respond(r, 500) /\ UNCHANGED <<users, past>>

RegisterInsert(r) ==
  /\ pc[r] = "register_insert"
  /\ InsertUser(r)
  /\ UNCHANGED <<links, call, subject>>

\* The row lands, but the connection breaks before the backend learns of it.
InsertUnnoticed(r) ==
  LET c == call[r] IN
  /\ pc[r] = "register_insert"
  /\ ~NameTaken(c.name) /\ ~EmailTaken(c.email, {})
  /\ Store(r, [name |-> c.name, email |-> c.email, code |-> c.code])
  /\ pc' = [pc EXCEPT ![r] = "failed"]
  /\ reply' = [reply EXCEPT ![r] = 500]
  /\ UNCHANGED <<links, call, subject>>

-----------------------------------------------------------------------------
(* update_me *)

UpdateSelect(r) ==
  /\ pc[r] = "update_select"
  /\ \/ ~KnownCode(call[r].code) /\ Respond(r, 400)
     \/ KnownCode(call[r].code) /\ Goto(r, "update_statement")
  /\ UNCHANGED <<users, links, call, subject, past>>

\* The row after UPDATE ... SET with the fields the client named.
UpdatedRow(row, c) ==
  [row EXCEPT !.email = IF c.email = Keep THEN @ ELSE c.email,
              !.code = IF c.code = Keep THEN @ ELSE c.code]

\* A duplicate mail address is told from the error's text.
UpdateStatement(r) ==
  LET c == call[r]
      taken == c.email # Keep /\ EmailTaken(c.email, {c.id}) IN
  /\ pc[r] = "update_statement"
  /\ \/ ~Exists(c.id) /\ Respond(r, 404) /\ UNCHANGED <<users, past>>
     \/ Exists(c.id) /\ taken /\ Respond(r, 409) /\ UNCHANGED <<users, past>>
     \/ /\ Exists(c.id) /\ ~taken
        /\ Store(c.id, UpdatedRow(users[c.id], c))
        /\ Respond(r, 200)
  /\ UNCHANGED <<links, call, subject>>

-----------------------------------------------------------------------------
(* me, get_user_by_id, list_users, delete_user: one statement each *)

\* me asks whether a column is NULL before it reads it, get_user_by_id does not ask of
\* birth_year, gender and nationality.  What as<>() makes of a NULL is up to the
\* library: a default value, or an exception, which the handler answers with a 500.
ReadAccount(r) ==
  LET c == call[r] IN
  /\ pc[r] = "statement" /\ c.op \in {"me", "get_user_by_id"}
  /\ \/ ~Exists(c.id) /\ Respond(r, 404)
     \/ Exists(c.id) /\ Respond(r, 200)
     \/ Exists(c.id) /\ c.op = "get_user_by_id" /\ Respond(r, 500)
  /\ UNCHANGED <<users, links, call, subject, past>>

ListUsers(r) ==
  /\ pc[r] = "statement" /\ call[r].op = "list_users"
  /\ Respond(r, 200)
  /\ UNCHANGED <<users, links, call, subject, past>>

DeleteUser(r) ==
  LET id == call[r].id IN
  /\ pc[r] = "statement" /\ call[r].op = "delete_user"
  /\ \/ ~Exists(id) /\ Respond(r, 404) /\ UNCHANGED <<users, past>>
     \/ Exists(id) /\ Store(id, NoRow) /\ Respond(r, 204)
  /\ UNCHANGED <<links, call, subject>>

-----------------------------------------------------------------------------
(* forgot_password *)

\* No account has the address, or it has had too many requests lately: the
\* answer is the same.
ForgotSelect(r) ==
  LET found == {i \in Ids : Exists(i) /\ users[i].email = call[r].email} IN
  /\ pc[r] = "forgot_select"
  /\ \/ /\ found # {}
        /\ subject' = [subject EXCEPT ![r] = found]
        /\ Goto(r, "forgot_insert")
     \/ Respond(r, 200) /\ UNCHANGED subject
  /\ UNCHANGED <<users, links, call, past>>

\* A form of SendLink that mails the first account that was found, whoever the
\* token was stored for.
SendLinkAny(r) == {[req |-> r, to |-> call[r].email, account |-> i] : i \in Registered}

\* The mail goes to the address the client named, with a token for the account
\* the SELECT has returned; none goes out when that account is gone (foreign
\* key of password_resets).
SendLink(r) ==
  {[req |-> r, to |-> call[r].email, account |-> i] : i \in {j \in subject[r] : Exists(j)}}

ForgotInsert(r) ==
  /\ pc[r] = "forgot_insert"
  /\ links' = links \cup SendLink(r)
  /\ Respond(r, 200)
  /\ UNCHANGED <<users, call, subject, past>>

-----------------------------------------------------------------------------
(* The environment *)

\* A statement raises DrogonDbException, or hashing the password throws.
\* forgot_password gives its one answer all the same.
AccountFails(r) ==
  /\ InFlight(r)
  /\ pc' = [pc EXCEPT ![r] = "failed"]
  /\ reply' = [reply EXCEPT ![r] = IF call[r].op = "forgot" THEN 200 ELSE 500]
  /\ UNCHANGED <<users, links, call, subject, past>>

AccountsCrash ==
  /\ \E r \in Requests : InFlight(r)
  /\ pc' = [r \in Requests |-> IF InFlight(r) THEN "lost" ELSE pc[r]]
  /\ UNCHANGED <<users, links, call, subject, reply, past>>

AccountStep(r) ==
  \/ ArriveAccount(r) \/ RegisterSelect(r) \/ RegisterInsert(r) \/ InsertUnnoticed(r)
  \/ UpdateSelect(r) \/ UpdateStatement(r)
  \/ ReadAccount(r) \/ ListUsers(r) \/ DeleteUser(r)
  \/ ForgotSelect(r) \/ ForgotInsert(r) \/ AccountFails(r)

AccountsNext == (\E r \in Requests : AccountStep(r)) \/ AccountsCrash

AccountsSpec == AccountsInit /\ [][AccountsNext]_accountVars

-----------------------------------------------------------------------------
(* Safety *)

\* However registrations and updates race between their preflight query and
\* their statement, no two accounts have one name or one mail address.
NoTwins ==
  \A i, j \in Ids : (Exists(i) /\ Exists(j) /\ i # j) =>
     users[i].name # users[j].name /\ users[i].email # users[j].email

\* A 409 tells the truth: while the request was served another account had the
\* name or the mail address it asked for.
ConflictWasReal ==
  \A r \in Requests : reply[r] = 409 =>
    \E p \in past[r] :
      \/ call[r].op = "register" /\ p[2] = call[r].name
      \/ p[3] = call[r].email /\ (call[r].op = "update" => p[1] # call[r].id)

\* A password link is only mailed to an address that the account its token opens
\* had while the request was served, although the address may change between
\* the SELECT and the mail.
LinkForAddressee ==
  \A m \in links : \E p \in past[m.req] : p[1] = m.account /\ p[3] = m.to
=============================================================================
