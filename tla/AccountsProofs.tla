--------------------------- MODULE AccountsProofs ---------------------------
(***************************************************************************)
(* Theorems about Accounts and their proofs.                               *)
(***************************************************************************)
EXTENDS AccountsInv, TLAPS

\* Every step, one case per action.
LEMMA AccountCases ==
  ASSUME AccountsNext
  PROVE  \/ \E r \in Requests : ArriveAccount(r)
         \/ \E r \in Requests : RegisterSelect(r)
         \/ \E r \in Requests : RegisterInsert(r)
         \/ \E r \in Requests : InsertUnnoticed(r)
         \/ \E r \in Requests : UpdateSelect(r)
         \/ \E r \in Requests : UpdateStatement(r)
         \/ \E r \in Requests : ReadAccount(r)
         \/ \E r \in Requests : ListUsers(r)
         \/ \E r \in Requests : DeleteUser(r)
         \/ \E r \in Requests : ForgotSelect(r)
         \/ \E r \in Requests : ForgotInsert(r)
         \/ \E r \in Requests : AccountFails(r)
         \/ AccountsCrash
  BY DEF AccountsNext, AccountStep

\* What a request of each operation carries.
LEMMA CallFields ==
  ASSUME NEW c \in Calls \cup {NoCall}
  PROVE  /\ c \notin Calls => c.op = "none"
         /\ c.op = "register" => /\ c.name \in Names /\ c.email \in Emails
                                 /\ c.code \in Codes \cup {NoCode}
         /\ c.op = "update" => /\ c.id \in Ids /\ c.email \in Emails \cup {Keep}
                               /\ c.code \in Codes \cup {NoCode, Keep}
         /\ c.op \in {"me", "get_user_by_id", "delete_user"} => c.id \in Ids
         /\ c.op = "forgot" => c.email \in Emails
  BY DEF Calls, NoCall

\* A row that is there has a name and a mail address.
LEMMA RowFields ==
  ASSUME AccountsTypeOK, NEW i \in Ids, Exists(i)
  PROVE  /\ users[i] \in Row
         /\ users[i].name \in Names /\ users[i].email \in Emails
         /\ <<i, users[i].name, users[i].email>> \in Present
  BY DEF AccountsTypeOK, Exists, Row, Present

(***************************************************************************)
(* Storing a row.                                                          *)
(***************************************************************************)
\* Requests being served learn of the new row, and forget nothing.
LEMMA StoreHistory ==
  ASSUME AccountsTypeOK, PastOK, NEW id \in Ids, NEW row \in Row \cup {NoRow},
         Store(id, row)
  PROVE  /\ users' \in [Ids -> Row \cup {NoRow}]
         /\ past' \in [Requests -> SUBSET (Ids \X Names \X Emails)]
         /\ \A r \in Requests : past[r] \subseteq past'[r]
         /\ \A r \in Requests : InFlight(r) => Present' \subseteq past'[r]
<1>1. /\ users' = [users EXCEPT ![id] = row]
      /\ users' \in [Ids -> Row \cup {NoRow}]
  BY DEF Store, AccountsTypeOK
<1>2. row # NoRow => <<id, row.name, row.email>> \in Ids \X Names \X Emails
  BY DEF Row
<1>3. \A r \in Requests :
        past'[r] = IF InFlight(r) /\ row # NoRow
                   THEN past[r] \cup {<<id, row.name, row.email>>} ELSE past[r]
  BY DEF Store
<1>4. past' \in [Requests -> SUBSET (Ids \X Names \X Emails)]
  BY <1>2 DEF Store, AccountsTypeOK
<1>5. ASSUME NEW r \in Requests, InFlight(r)
      PROVE  Present' \subseteq past'[r]
  <2>1. SUFFICES ASSUME NEW i \in Ids, users'[i] # NoRow
                 PROVE  <<i, users'[i].name, users'[i].email>> \in past'[r]
    BY DEF Present, Exists
  <2>2. CASE i = id
    <3>1. users'[i] = row
      BY <2>2, <1>1 DEF AccountsTypeOK
    <3>. QED
      BY <3>1, <2>1, <2>2, <1>3, <1>5
  <2>3. CASE i # id
    <3>1. users'[i] = users[i] /\ Exists(i)
      BY <2>1, <2>3, <1>1 DEF Exists, AccountsTypeOK
    <3>2. <<i, users[i].name, users[i].email>> \in past[r]
      BY <3>1, <1>5, RowFields DEF PastOK
    <3>. QED
      BY <3>1, <3>2, <1>3
  <2>. QED
    BY <2>2, <2>3
<1>. QED
  BY <1>1, <1>3, <1>4, <1>5

\* A row with a name and an address nobody else has makes no twins.
LEMMA StoreNoTwins ==
  ASSUME AccountsTypeOK, NoTwins, NEW id \in Ids, NEW row \in Row,
         users' = [users EXCEPT ![id] = row],
         \A i \in Ids : (Exists(i) /\ i # id) => /\ users[i].name # row.name
                                                 /\ users[i].email # row.email
  PROVE  NoTwins'
<1>1. SUFFICES ASSUME NEW i \in Ids, NEW j \in Ids, i # j,
                      users'[i] # NoRow, users'[j] # NoRow
               PROVE  users'[i].name # users'[j].name /\ users'[i].email # users'[j].email
  BY DEF NoTwins, Exists
<1>2. \A k \in Ids : users'[k] = IF k = id THEN row ELSE users[k]
  BY DEF AccountsTypeOK
<1>3. CASE i = id
  BY <1>1, <1>2, <1>3 DEF Exists
<1>4. CASE j = id
  BY <1>1, <1>2, <1>4 DEF Exists
<1>5. CASE i # id /\ j # id
  BY <1>1, <1>2, <1>5 DEF Exists, NoTwins
<1>. QED
  BY <1>3, <1>4, <1>5

(***************************************************************************)
(* Types.                                                                  *)
(***************************************************************************)
Typed == AccountsTypeOK /\ CallsOK

LEMMA TypedInit == AccountsInit => Typed /\ NoTwins
<1> SUFFICES ASSUME AccountsInit PROVE Typed /\ NoTwins
  OBVIOUS
<1>1. AccountsTypeOK
  BY DEF AccountsInit, AccountsTypeOK, Ended, Waiting
<1>2. CallsOK
  BY DEF AccountsInit, CallsOK
<1>3. NoTwins
  BY DEF AccountsInit, NoTwins, Exists, Ids
<1>. QED
  BY <1>1, <1>2, <1>3 DEF Typed

\* The rows that registering and updating write.
LEMMA RegisteredRow ==
  ASSUME Typed, NEW r \in Requests, pc[r] = "register_insert"
  PROVE  /\ call[r].name \in Names /\ call[r].email \in Emails
         /\ [name |-> call[r].name, email |-> call[r].email, code |-> call[r].code]
              \in Row
<1>1. call[r].op = "register" /\ KnownCode(call[r].code)
  BY DEF Typed, CallsOK
<1>2. /\ call[r].name \in Names /\ call[r].email \in Emails
      /\ call[r].code \in Codes \cup {NoCode}
  BY <1>1, CallFields DEF Typed, AccountsTypeOK
<1>3. call[r].code \in Known \cup {NoCode}
  BY <1>1, <1>2, AccountsAssumption DEF KnownCode
<1>. QED
  BY <1>2, <1>3 DEF Row

LEMMA UpdatedRowType ==
  ASSUME Typed, NEW r \in Requests, pc[r] = "update_statement", Exists(call[r].id)
  PROVE  /\ call[r].id \in Ids
         /\ UpdatedRow(users[call[r].id], call[r]) \in Row
         /\ UpdatedRow(users[call[r].id], call[r]).name = users[call[r].id].name
         /\ UpdatedRow(users[call[r].id], call[r]).email =
              IF call[r].email = Keep THEN users[call[r].id].email ELSE call[r].email
<1> DEFINE c == call[r]
<1>1. c.op = "update" /\ KnownCode(c.code)
  BY DEF Typed, CallsOK
<1>2. /\ c.id \in Ids /\ c.email \in Emails \cup {Keep}
      /\ c.code \in Codes \cup {NoCode, Keep}
  BY <1>1, CallFields DEF Typed, AccountsTypeOK
<1>3. users[c.id] \in Row
  BY <1>2, RowFields DEF Typed
<1>4. c.code # Keep => c.code \in Known \cup {NoCode}
  BY <1>1 DEF KnownCode
<1> HIDE DEF c
<1>5. PICK row \in Row : row = users[c.id]
  BY <1>3
<1>6. /\ UpdatedRow(row, c) \in Row
      /\ UpdatedRow(row, c).name = row.name
      /\ UpdatedRow(row, c).email = IF c.email = Keep THEN row.email ELSE c.email
  BY <1>2, <1>4 DEF UpdatedRow, Row
<1>. QED
  BY <1>2, <1>5, <1>6 DEF c

\* A step is of one request, and leaves the others where they are.
LEMMA OneMoves ==
  ASSUME Typed, NEW r \in Requests, AccountStep(r)
  PROVE  /\ pc' \in [Requests -> Waiting \cup Ended \cup {"new"}]
         /\ pc'[r] # "new"
         /\ reply' \in [Requests -> {0, 200, 201, 204, 400, 404, 409, 500}]
         /\ call' \in [Requests -> Calls \cup {NoCall}]
         /\ \A s \in Requests \ {r} : /\ pc'[s] = pc[s] /\ reply'[s] = reply[s]
                                      /\ call'[s] = call[s]
         /\ pc[r] # "new" => call' = call
         /\ pc'[r] \in Waiting => reply'[r] = reply[r]
<1> USE DEF Typed, AccountsTypeOK, Goto, Respond, Waiting, Ended, InFlight
<1>1. CASE ArriveAccount(r)
  <2>1. PICK c \in Calls : /\ call' = [call EXCEPT ![r] = c]
                           /\ pc' = [pc EXCEPT ![r] = FirstStatement(c.op)]
                           /\ reply' = reply
                           /\ pc[r] = "new"
    BY <1>1 DEF ArriveAccount
  <2>2. FirstStatement(c.op) \in Waiting
    BY DEF FirstStatement
  <2>. QED
    BY <2>1, <2>2
<1>2. CASE RegisterSelect(r)
  BY <1>2 DEF RegisterSelect
<1>3. CASE RegisterInsert(r)
  BY <1>3 DEF RegisterInsert, InsertUser
<1>4. CASE InsertUnnoticed(r)
  BY <1>4 DEF InsertUnnoticed
<1>5. CASE UpdateSelect(r)
  BY <1>5 DEF UpdateSelect
<1>6. CASE UpdateStatement(r)
  BY <1>6 DEF UpdateStatement
<1>7. CASE ReadAccount(r)
  BY <1>7 DEF ReadAccount
<1>8. CASE ListUsers(r)
  BY <1>8 DEF ListUsers
<1>9. CASE DeleteUser(r)
  BY <1>9 DEF DeleteUser
<1>10. CASE ForgotSelect(r)
  BY <1>10 DEF ForgotSelect
<1>11. CASE ForgotInsert(r)
  BY <1>11 DEF ForgotInsert
<1>12. CASE AccountFails(r)
  BY <1>12 DEF AccountFails
<1>. QED
  BY <1>1, <1>2, <1>3, <1>4, <1>5, <1>6, <1>7, <1>8, <1>9, <1>10, <1>11, <1>12
     DEF AccountStep

\* The rows a step stores, if it stores any, and who else has them.
LEMMA RowsMove ==
  ASSUME Typed, NEW r \in Requests, AccountStep(r)
  PROVE  \/ ArriveAccount(r)
         \/ UNCHANGED <<users, past>> /\ pc[r] # "new"
         \/ /\ pc[r] # "new"
            /\ \E id \in Ids : Store(id, NoRow)
         \/ /\ pc[r] # "new"
            /\ \E id \in Ids, row \in Row :
                 /\ Store(id, row)
                 /\ \A i \in Ids : (NoTwins /\ Exists(i) /\ i # id) =>
                      users[i].name # row.name /\ users[i].email # row.email
<1> USE DEF InFlight, Waiting
<1>1. CASE RegisterInsert(r) \/ InsertUnnoticed(r)
  <2> DEFINE row == [name |-> call[r].name, email |-> call[r].email,
                     code |-> call[r].code]
  <2>1. pc[r] = "register_insert" /\ r \in Ids
    BY <1>1 DEF RegisterInsert, InsertUnnoticed, Ids
  <2>2. CASE UNCHANGED <<users, past>>
    BY <2>1, <2>2
  <2>3. CASE /\ ~NameTaken(call[r].name) /\ ~EmailTaken(call[r].email, {})
             /\ Store(r, row)
    <3>1. row \in Row /\ row.name = call[r].name /\ row.email = call[r].email
      BY <2>1, RegisteredRow
    <3>2. \A i \in Ids : Exists(i) => /\ users[i].name # call[r].name
                                      /\ users[i].email # call[r].email
      BY <2>3 DEF NameTaken, EmailTaken
    <3> HIDE DEF row
    <3>. QED
      BY <2>1, <2>3, <3>1, <3>2
  <2>. QED
    BY <1>1, <2>2, <2>3 DEF RegisterInsert, InsertUnnoticed, InsertUser
<1>2. CASE UpdateStatement(r)
  <2> DEFINE c == call[r]
             row == UpdatedRow(users[c.id], c)
  <2>1. pc[r] = "update_statement"
    BY <1>2 DEF UpdateStatement
  <2>2. CASE UNCHANGED <<users, past>>
    BY <2>1, <2>2
  <2>3. CASE /\ Exists(c.id) /\ Store(c.id, row)
             /\ ~(c.email # Keep /\ EmailTaken(c.email, {c.id}))
    <3>1. /\ c.id \in Ids /\ row \in Row /\ row.name = users[c.id].name
          /\ row.email = IF c.email = Keep THEN users[c.id].email ELSE c.email
      BY <2>1, <2>3, UpdatedRowType
    <3>2. \A i \in Ids : (Exists(i) /\ i # c.id /\ c.email # Keep)
                            => users[i].email # c.email
      BY <2>3 DEF EmailTaken
    <3>3. \A i \in Ids : (NoTwins /\ Exists(i) /\ i # c.id) =>
             users[i].name # users[c.id].name /\ users[i].email # users[c.id].email
      BY <2>3, <3>1 DEF NoTwins
    <3> HIDE DEF c, row
    <3>4. \A i \in Ids : (NoTwins /\ Exists(i) /\ i # c.id) =>
             users[i].name # row.name /\ users[i].email # row.email
      BY <3>1, <3>2, <3>3
    <3>. QED
      BY <2>1, <2>3, <3>1, <3>4
  <2>. QED
    BY <1>2, <2>2, <2>3 DEF UpdateStatement
<1>3. CASE DeleteUser(r)
  <2>1. pc[r] = "statement" /\ call[r].op = "delete_user"
    BY <1>3 DEF DeleteUser
  <2>2. call[r].id \in Ids
    BY <2>1, CallFields DEF Typed, AccountsTypeOK
  <2>. QED
    BY <1>3, <2>1, <2>2 DEF DeleteUser
<1>. QED
  BY <1>1, <1>2, <1>3
  DEF AccountStep, RegisterSelect, UpdateSelect, ReadAccount, ListUsers, ForgotSelect,
      ForgotInsert, AccountFails

(***************************************************************************)
(* A step preserves the invariant, conjunct by conjunct.                   *)
(***************************************************************************)
LEMMA ArrivePast ==
  ASSUME Typed, NEW r \in Requests, ArriveAccount(r)
  PROVE  /\ users' = users /\ Present' = Present
         /\ past' = [past EXCEPT ![r] = Present]
         /\ Present \subseteq Ids \X Names \X Emails
<1>1. users' = users /\ past' = [past EXCEPT ![r] = Present]
  BY DEF ArriveAccount
<1>2. Present' = Present
  BY <1>1 DEF Present, Exists
<1>3. Present \subseteq Ids \X Names \X Emails
  BY RowFields DEF Present, Typed
<1>. QED
  BY <1>1, <1>2, <1>3

\* The rows keep their types; the history never forgets and keeps up.
LEMMA PastStep ==
  ASSUME Typed, PastOK, NEW r \in Requests, AccountStep(r)
  PROVE  /\ users' \in [Ids -> Row \cup {NoRow}]
         /\ past' \in [Requests -> SUBSET (Ids \X Names \X Emails)]
         /\ \A s \in Requests : s # r \/ pc[s] # "new" => past[s] \subseteq past'[s]
         /\ PastOK'
<1>1. /\ \A s \in Requests \ {r} : pc'[s] = pc[s]
      /\ pc'[r] # "new"
  BY OneMoves
<1>2. CASE ArriveAccount(r)
  <2>1. /\ users' = users /\ Present' = Present
        /\ past' = [past EXCEPT ![r] = Present]
        /\ Present \subseteq Ids \X Names \X Emails
    BY <1>2, ArrivePast
  <2>2. pc[r] = "new"
    BY <1>2 DEF ArriveAccount
  <2>. QED
    BY <1>1, <2>1, <2>2 DEF Typed, AccountsTypeOK, PastOK, InFlight
<1>3. CASE UNCHANGED <<users, past>> /\ pc[r] # "new"
  <2>1. InFlight(r)
    BY <1>3, <1>2 DEF AccountStep, RegisterSelect, RegisterInsert, InsertUnnoticed,
          UpdateSelect, UpdateStatement, ReadAccount, ListUsers, DeleteUser,
          ForgotSelect, ForgotInsert, AccountFails, InFlight, Waiting, ArriveAccount
  <2>2. Present' = Present
    BY <1>3 DEF Present, Exists
  <2>. QED
    BY <1>1, <1>3, <2>1, <2>2 DEF Typed, AccountsTypeOK, PastOK, InFlight
<1>4. CASE /\ pc[r] # "new"
           /\ \E id \in Ids, row \in Row \cup {NoRow} : Store(id, row)
  <2>1. PICK id \in Ids, row \in Row \cup {NoRow} : Store(id, row)
    BY <1>4
  <2>2. /\ users' \in [Ids -> Row \cup {NoRow}]
        /\ past' \in [Requests -> SUBSET (Ids \X Names \X Emails)]
        /\ \A s \in Requests : past[s] \subseteq past'[s]
        /\ \A s \in Requests : InFlight(s) => Present' \subseteq past'[s]
    BY <2>1, StoreHistory DEF Typed
  <2>3. InFlight(r)
    BY <1>4 DEF AccountStep, RegisterSelect, RegisterInsert, InsertUnnoticed,
          UpdateSelect, UpdateStatement, ReadAccount, ListUsers, DeleteUser,
          ForgotSelect, ForgotInsert, AccountFails, InFlight, Waiting, ArriveAccount
  <2>. QED
    BY <1>1, <2>2, <2>3 DEF PastOK, InFlight
<1>. QED
  BY <1>2, <1>3, <1>4, RowsMove

LEMMA TwinsStep ==
  ASSUME Typed, NoTwins, NEW r \in Requests, AccountStep(r)
  PROVE  NoTwins'
<1>1. CASE UNCHANGED users
  BY <1>1 DEF NoTwins, Exists
<1>2. CASE \E id \in Ids : Store(id, NoRow)
  <2>1. PICK id \in Ids : users' = [users EXCEPT ![id] = NoRow]
    BY <1>2 DEF Store
  <2>2. \A i \in Ids : users'[i] = IF i = id THEN NoRow ELSE users[i]
    BY <2>1 DEF Typed, AccountsTypeOK
  <2>. QED
    BY <2>2 DEF NoTwins, Exists
<1>3. CASE \E id \in Ids, row \in Row :
             /\ Store(id, row)
             /\ \A i \in Ids : (NoTwins /\ Exists(i) /\ i # id) =>
                  users[i].name # row.name /\ users[i].email # row.email
  <2>1. PICK id \in Ids, row \in Row :
             /\ Store(id, row)
             /\ \A i \in Ids : (NoTwins /\ Exists(i) /\ i # id) =>
                  users[i].name # row.name /\ users[i].email # row.email
    BY <1>3
  <2>. QED
    BY <2>1, StoreNoTwins DEF Typed, Store
<1>. QED
  BY <1>1, <1>2, <1>3, RowsMove, ArrivePast

\* links only grow, by the mails of a forgotten password.
LEMMA LinksMove ==
  ASSUME Typed, NEW r \in Requests, AccountStep(r)
  PROVE  \/ links' = links
         \/ /\ pc[r] = "forgot_insert" /\ links' = links \cup SendLink(r)
            /\ UNCHANGED <<users, past, call>>
  BY DEF AccountStep, RegisterSelect, RegisterInsert, InsertUnnoticed,
         UpdateSelect, UpdateStatement, ReadAccount, ListUsers, DeleteUser,
         ForgotSelect, ForgotInsert, AccountFails, ArriveAccount

LEMMA CallsStep ==
  ASSUME Typed, NEW r \in Requests, AccountStep(r)
  PROVE  CallsOK'
<1> DEFINE At(s, p, c) ==
             /\ p \in {"register_select", "register_insert"} => c.op = "register"
             /\ p \in {"register_insert", "update_statement"} => KnownCode(c.code)
             /\ p \in {"update_select", "update_statement"} => c.op = "update"
             /\ p \in {"forgot_select", "forgot_insert"} => c.op = "forgot"
             /\ p = "statement" =>
                  c.op \in {"me", "get_user_by_id", "list_users", "delete_user"}
<1>1. /\ pc' \in [Requests -> Waiting \cup Ended \cup {"new"}]
      /\ pc'[r] # "new"
      /\ \A s \in Requests \ {r} : /\ pc'[s] = pc[s] /\ reply'[s] = reply[s]
                                   /\ call'[s] = call[s]
      /\ pc[r] # "new" => call' = call
  BY OneMoves
<1>2. \A s \in Requests : At(s, pc[s], call[s])
  BY DEF Typed, CallsOK
<1>3. At(r, pc'[r], call'[r])
  <2>1. CASE ArriveAccount(r)
    <3>1. PICK c \in Calls : /\ call' = [call EXCEPT ![r] = c]
                             /\ pc' = [pc EXCEPT ![r] = FirstStatement(c.op)]
      BY <2>1 DEF ArriveAccount, Goto
    <3>2. c.op \in Operations
      BY DEF Calls, Operations
    <3>3. At(r, FirstStatement(c.op), c)
      BY <3>2 DEF FirstStatement, Operations
    <3>. QED
      BY <3>1, <3>3 DEF Typed, AccountsTypeOK
  <2>2. CASE RegisterSelect(r)
    BY <1>2, <2>2 DEF RegisterSelect, Goto, Respond, Typed, AccountsTypeOK
  <2>3. CASE UpdateSelect(r)
    BY <1>2, <2>3 DEF UpdateSelect, Goto, Respond, Typed, AccountsTypeOK
  <2>4. CASE ForgotSelect(r)
    BY <1>2, <2>4 DEF ForgotSelect, Goto, Respond, Typed, AccountsTypeOK
  <2>5. CASE \/ RegisterInsert(r) \/ InsertUnnoticed(r) \/ UpdateStatement(r)
             \/ ReadAccount(r) \/ ListUsers(r) \/ DeleteUser(r) \/ ForgotInsert(r)
             \/ AccountFails(r)
    <3>1. pc'[r] \in {"done", "failed"}
      BY <2>5 DEF RegisterInsert, InsertUser, InsertUnnoticed, UpdateStatement,
            ReadAccount, ListUsers, DeleteUser, ForgotInsert, AccountFails, Respond,
            Typed, AccountsTypeOK
    <3>. QED
      BY <3>1
  <2>. QED
    BY <2>1, <2>2, <2>3, <2>4, <2>5 DEF AccountStep
<1>4. \A s \in Requests : At(s, pc'[s], call'[s])
  BY <1>1, <1>2, <1>3
<1>5. \A s \in Requests : pc'[s] = "new" =>
         reply'[s] = 0 /\ \A m \in links' : m.req # s
  <2>1. SUFFICES ASSUME NEW s \in Requests, pc'[s] = "new"
                 PROVE  reply'[s] = 0 /\ \A m \in links' : m.req # s
    OBVIOUS
  <2>2. s # r /\ pc[s] = "new" /\ reply'[s] = reply[s]
    BY <1>1, <2>1
  <2>3. reply[s] = 0 /\ \A m \in links : m.req # s
    BY <2>2 DEF Typed, CallsOK
  <2>4. \A m \in SendLink(r) : m.req = r
    BY DEF SendLink
  <2>. QED
    BY <2>2, <2>3, <2>4, LinksMove
<1>. QED
  BY <1>4, <1>5 DEF CallsOK, KnownCode

LEMMA TypesStep ==
  ASSUME Typed, PastOK, NEW r \in Requests, AccountStep(r)
  PROVE  AccountsTypeOK'
<1>1. subject' \in [Requests -> SUBSET Ids]
  <2>1. \/ subject' = subject
        \/ \E found \in SUBSET Ids : subject' = [subject EXCEPT ![r] = found]
    BY DEF AccountStep, RegisterSelect, RegisterInsert, InsertUnnoticed,
         UpdateSelect, UpdateStatement, ReadAccount, ListUsers, DeleteUser,
         ForgotSelect, ForgotInsert, AccountFails, ArriveAccount
  <2>. QED
    BY <2>1 DEF Typed, AccountsTypeOK
<1>2. links' \subseteq Link
  <2>1. CASE pc[r] = "forgot_insert"
    <3>1. call[r].op = "forgot"
      BY <2>1 DEF Typed, CallsOK
    <3>2. call[r].email \in Emails /\ subject[r] \subseteq Ids
      BY <3>1, CallFields DEF Typed, AccountsTypeOK
    <3>3. SendLink(r) \subseteq Link
      BY <3>2 DEF SendLink, Link
    <3>. QED
      BY <3>3, LinksMove DEF Typed, AccountsTypeOK
  <2>. QED
    BY <2>1, LinksMove DEF Typed, AccountsTypeOK
<1>. QED
  BY <1>1, <1>2, OneMoves, PastStep DEF AccountsTypeOK

LEMMA SubjectStep ==
  ASSUME Typed, PastOK, SubjectOK, NEW r \in Requests, AccountStep(r)
  PROVE  SubjectOK'
<1>1. SUFFICES ASSUME NEW s \in Requests, pc'[s] = "forgot_insert",
                      NEW i \in subject'[s]
               PROVE  \E p \in past'[s] : p[1] = i /\ p[3] = call'[s].email
  BY DEF SubjectOK
<1>2. CASE pc[s] = "forgot_insert"
  <2>1. s # r
    BY <1>1, <1>2 DEF AccountStep, RegisterSelect, RegisterInsert, InsertUser,
         InsertUnnoticed, UpdateSelect, UpdateStatement, ReadAccount, ListUsers,
         DeleteUser, ForgotSelect, ForgotInsert, AccountFails, ArriveAccount,
         Respond, Typed, AccountsTypeOK
  <2>2. subject'[s] = subject[s] /\ call'[s] = call[s]
    BY <2>1, OneMoves DEF AccountStep, RegisterSelect, RegisterInsert, InsertUnnoticed,
         UpdateSelect, UpdateStatement, ReadAccount, ListUsers, DeleteUser,
         ForgotSelect, ForgotInsert, AccountFails, ArriveAccount, Typed, AccountsTypeOK
  <2>3. past[s] \subseteq past'[s]
    BY <2>1, PastStep
  <2>. QED
    BY <1>1, <1>2, <2>2, <2>3 DEF SubjectOK
<1>3. CASE pc[s] # "forgot_insert"
  <2>1. s = r
    BY <1>1, <1>3, OneMoves
  <2>2. ForgotSelect(r)
    <3>1. ~ArriveAccount(r)
      <4>1. \A op : FirstStatement(op) # "forgot_insert"
        BY DEF FirstStatement
      <4>. QED
        BY <1>1, <2>1, <4>1 DEF ArriveAccount, Goto, Typed, AccountsTypeOK
    <3>. QED
      BY <1>1, <2>1, <3>1 DEF AccountStep, RegisterSelect, RegisterInsert, InsertUser,
         InsertUnnoticed, UpdateSelect, UpdateStatement, ReadAccount, ListUsers,
         DeleteUser, ForgotInsert, AccountFails, Respond, Goto, Typed, AccountsTypeOK
  <2>3. /\ subject'[r] = {j \in Ids : Exists(j) /\ users[j].email = call[r].email}
        /\ pc[r] = "forgot_select" /\ call' = call /\ past' = past
    BY <1>1, <2>1, <2>2 DEF ForgotSelect, Respond, Typed, AccountsTypeOK
  <2>4. <<i, users[i].name, call[r].email>> \in past[r]
    BY <1>1, <2>1, <2>3, RowFields DEF PastOK, InFlight, Waiting, Typed
  <2>. QED
    BY <2>1, <2>3, <2>4
<1>. QED
  BY <1>2, <1>3

LEMMA ConflictStep ==
  ASSUME Typed, PastOK, ConflictWasReal, NEW r \in Requests, AccountStep(r)
  PROVE  ConflictWasReal'
<1> DEFINE Cause(P, c) == \E p \in P :
             \/ c.op = "register" /\ p[2] = c.name
             \/ p[3] = c.email /\ (c.op = "update" => p[1] # c.id)
<1>1. SUFFICES ASSUME NEW s \in Requests, reply'[s] = 409
               PROVE  Cause(past'[s], call'[s])
  BY DEF ConflictWasReal
<1>2. CASE reply[s] = 409
  <2>1. pc[s] # "new"
    BY <1>2 DEF Typed, CallsOK
  <2>2. call'[s] = call[s] /\ past[s] \subseteq past'[s]
    BY <2>1, OneMoves, PastStep
  <2>3. Cause(past[s], call[s])
    BY <1>2 DEF ConflictWasReal
  <2>. QED
    BY <2>2, <2>3
<1>3. CASE reply[s] # 409
  <2>1. s = r
    BY <1>1, <1>3, OneMoves
  <2>2. RegisterSelect(r) \/ UpdateStatement(r)
    BY <1>1, <1>3, <2>1 DEF AccountStep, ArriveAccount, RegisterInsert, InsertUser,
         InsertUnnoticed, UpdateSelect, ReadAccount, ListUsers, DeleteUser,
         ForgotSelect, ForgotInsert, AccountFails, Respond, Goto, Typed, AccountsTypeOK
  <2>3. InFlight(r) /\ call' = call /\ past[r] \subseteq past'[r]
    BY <2>2, OneMoves, PastStep
       DEF RegisterSelect, UpdateStatement, InFlight, Waiting
  <2>4. \A i \in Ids : Exists(i) => <<i, users[i].name, users[i].email>> \in past'[r]
    BY <2>3, RowFields DEF PastOK, Typed
  <2>5. CASE RegisterSelect(r)
    <3>1. call[r].op = "register"
      BY <2>5 DEF RegisterSelect, Typed, CallsOK
    <3>2. NameTaken(call[r].name) \/ EmailTaken(call[r].email, {})
      BY <1>1, <1>3, <2>1, <2>5 DEF RegisterSelect, Respond, Goto, Typed, AccountsTypeOK
    <3>3. PICK i \in Ids : /\ Exists(i)
                           /\ \/ users[i].name = call[r].name
                              \/ users[i].email = call[r].email
      BY <3>2 DEF NameTaken, EmailTaken
    <3>4. <<i, users[i].name, users[i].email>> \in past'[r]
      BY <2>4, <3>3
    <3>. QED
      BY <2>1, <2>3, <3>1, <3>3, <3>4
  <2>6. CASE UpdateStatement(r)
    <3>1. call[r].op = "update"
      BY <2>6 DEF UpdateStatement, Typed, CallsOK
    <3>2. EmailTaken(call[r].email, {call[r].id})
      BY <1>1, <1>3, <2>1, <2>6 DEF UpdateStatement, Respond, Typed, AccountsTypeOK
    <3>3. PICK i \in Ids : i # call[r].id /\ Exists(i) /\ users[i].email = call[r].email
      BY <3>2 DEF EmailTaken
    <3>4. <<i, users[i].name, users[i].email>> \in past'[r]
      BY <2>4, <3>3
    <3>. QED
      BY <2>1, <2>3, <3>1, <3>3, <3>4
  <2>. QED
    BY <2>2, <2>5, <2>6
<1>. QED
  BY <1>2, <1>3

LEMMA LinkStep ==
  ASSUME Typed, PastOK, SubjectOK, LinkForAddressee, NEW r \in Requests, AccountStep(r)
  PROVE  LinkForAddressee'
<1>1. SUFFICES ASSUME NEW m \in links'
               PROVE  \E p \in past'[m.req] : p[1] = m.account /\ p[3] = m.to
  BY DEF LinkForAddressee
<1>2. CASE m \in links
  <2>1. m.req \in Requests /\ pc[m.req] # "new"
    BY <1>2 DEF Typed, AccountsTypeOK, CallsOK, Link
  <2>2. past[m.req] \subseteq past'[m.req]
    BY <2>1, PastStep
  <2>. QED
    BY <1>2, <2>2 DEF LinkForAddressee
<1>3. CASE m \notin links
  <2>1. pc[r] = "forgot_insert" /\ m \in SendLink(r) /\ past' = past
    BY <1>1, <1>3, LinksMove
  <2>2. PICK i \in subject[r] : m = [req |-> r, to |-> call[r].email, account |-> i]
    BY <2>1 DEF SendLink
  <2>. QED
    BY <2>1, <2>2 DEF SubjectOK
<1>. QED
  BY <1>2, <1>3

(***************************************************************************)
(* The theorems.                                                           *)
(***************************************************************************)
LEMMA InvariantInit == AccountsInit => AccountsInvariant
<1> SUFFICES ASSUME AccountsInit PROVE AccountsInvariant
  OBVIOUS
<1>1. Typed /\ NoTwins
  BY TypedInit
<1>2. PastOK /\ SubjectOK /\ ConflictWasReal /\ LinkForAddressee
  BY DEF AccountsInit, PastOK, SubjectOK, ConflictWasReal, LinkForAddressee, InFlight,
         Waiting
<1>. QED
  BY <1>1, <1>2 DEF AccountsInvariant, Typed

LEMMA InvariantCrash == AccountsInvariant /\ AccountsCrash => AccountsInvariant'
<1> SUFFICES ASSUME AccountsInvariant, AccountsCrash PROVE AccountsInvariant'
  OBVIOUS
<1>1. /\ pc' \in [Requests -> Waiting \cup Ended \cup {"new"}]
      /\ \A s \in Requests : pc'[s] = pc[s] \/ (pc'[s] = "lost" /\ pc[s] # "new")
      /\ UNCHANGED <<users, links, call, subject, reply, past>>
  BY DEF AccountsInvariant, AccountsTypeOK, AccountsCrash, InFlight, Waiting, Ended
<1>2. AccountsTypeOK'
  BY <1>1 DEF AccountsInvariant, AccountsTypeOK
<1>3. CallsOK'
  BY <1>1 DEF AccountsInvariant, CallsOK, KnownCode
<1>4. PastOK'
  BY <1>1 DEF AccountsInvariant, PastOK, InFlight, Waiting, Present, Exists
<1>5. SubjectOK'
  BY <1>1 DEF AccountsInvariant, SubjectOK
<1>6. NoTwins' /\ ConflictWasReal' /\ LinkForAddressee'
  BY <1>1 DEF AccountsInvariant, NoTwins, ConflictWasReal, LinkForAddressee, Exists
<1>. QED
  BY <1>2, <1>3, <1>4, <1>5, <1>6 DEF AccountsInvariant

LEMMA InvariantStep == AccountsInvariant /\ [AccountsNext]_accountVars => AccountsInvariant'
<1> SUFFICES ASSUME AccountsInvariant, [AccountsNext]_accountVars PROVE AccountsInvariant'
  OBVIOUS
<1>1. ASSUME NEW r \in Requests, AccountStep(r) PROVE AccountsInvariant'
  <2>1. Typed /\ PastOK /\ SubjectOK /\ NoTwins /\ ConflictWasReal /\ LinkForAddressee
    BY DEF AccountsInvariant, Typed
  <2>2. AccountsTypeOK'
    BY <1>1, <2>1, TypesStep
  <2>3. CallsOK' /\ PastOK' /\ SubjectOK'
    BY <1>1, <2>1, CallsStep, PastStep, SubjectStep
  <2>4. NoTwins' /\ ConflictWasReal' /\ LinkForAddressee'
    BY <1>1, <2>1, TwinsStep, ConflictStep, LinkStep
  <2>. QED
    BY <2>2, <2>3, <2>4 DEF AccountsInvariant
<1>2. CASE AccountsCrash
  BY <1>2, InvariantCrash
<1>3. CASE UNCHANGED accountVars
  BY <1>3 DEF accountVars, AccountsInvariant, AccountsTypeOK, CallsOK, PastOK, SubjectOK,
        NoTwins, ConflictWasReal, LinkForAddressee, InFlight, Present, Exists, KnownCode
<1>. QED
  BY <1>1, <1>2, <1>3 DEF AccountsNext

THEOREM AccountsInductive == AccountsSpec => []AccountsInvariant
<1>. QED
  BY InvariantInit, InvariantStep, PTL DEF AccountsSpec

\* However registrations and updates race, names and mail addresses stay unique
\* (register_user, update_me).
THEOREM UniqueAccounts == AccountsSpec => []NoTwins
<1>1. AccountsInvariant => NoTwins
  BY DEF AccountsInvariant
<1>. QED
  BY <1>1, AccountsInductive, PTL

\* A 409 is never wrong (register_user's preflight query, update_me's UPDATE).
THEOREM TrueConflicts == AccountsSpec => []ConflictWasReal
<1>1. AccountsInvariant => ConflictWasReal
  BY DEF AccountsInvariant
<1>. QED
  BY <1>1, AccountsInductive, PTL

\* forgot_password mails links to nobody but their account's own addresses.
THEOREM LinksAddressed == AccountsSpec => []LinkForAddressee
<1>1. AccountsInvariant => LinkForAddressee
  BY DEF AccountsInvariant
<1>. QED
  BY <1>1, AccountsInductive, PTL
=============================================================================
