--------------------------- MODULE AccountsProofs --------------------------
(***************************************************************************)
(* For any number of users, codes and requests: accounts, codes and        *)
(* requests keep their shape, no two accounts share a name, a code is      *)
(* spent once but for overlaps, and while requests do not overlap          *)
(* passwords that others have set are temporary and a deletion leaves an   *)
(* administrator.                                                          *)
(***************************************************************************)
EXTENDS Accounts, FiniteSetTheorems, TLAPS

IsAccount(a) ==
    /\ a = [row |-> a.row, name |-> a.name, role |-> a.role, active |-> a.active,
            password |-> a.password, forced |-> a.forced]
    /\ a.role \in Roles /\ a.forced \in BOOLEAN

IsCode(c) ==
    /\ c = [row |-> c.row, user |-> c.user, used |-> c.used, expired |-> c.expired]
    /\ c.row = "present" => c.user \in Users

IsRequest(q) == q = [pc |-> q.pc, call |-> q.call, seen |-> q.seen]

Shape ==
    /\ account = [u \in Users |-> account[u]] /\ \A u \in Users : IsAccount(account[u])
    /\ code = [c \in Codes |-> code[c]] /\ \A c \in Codes : IsCode(code[c])
    /\ request = [r \in Requests |-> request[r]] /\ \A r \in Requests : IsRequest(request[r])
    /\ chosenBy = [u \in Users |-> chosenBy[u]]
    /\ overlap \in BOOLEAN

\* What the validation of a request leaves.
Validated ==
    \A r \in InProgress :
        /\ request[r].call.op \in AllOperations
        /\ request[r].call.op \in {"create", "update"} => request[r].call.role \in Roles
        /\ request[r].call.op = "redeem" => request[r].call.code \in Codes
        /\ request[r].call.op = "change" => request[r].call.actor \in Users
        /\ request[r].call.op \in {"reset", "script", "update", "delete", "forgot"} =>
               request[r].call.target \in Users

\* Whoever is alone knows the row that the commit changes, and deletes as an
\* administrator.
Alone ==
    ~overlap =>
        /\ \A r, s \in InProgress : r = s
        /\ \A r \in InProgress :
               /\ request[r].pc = "writing" /\ request[r].call.op # "create" =>
                      request[r].seen = account[Subject(request[r].call)]
               /\ request[r].call.op = "delete" =>
                      /\ request[r].call.actor \in Admins
                      /\ request[r].pc = "writing" =>
                             request[r].call.target # request[r].call.actor

Inv == Shape /\ Validated /\ Alone /\ OneAccountPerName /\ OthersPasswordsAreTemporary

-----------------------------------------------------------------------------
(* The inductive step *)

LEMMA AccountIs ==
    ASSUME NEW row, NEW name, NEW role \in Roles, NEW password
    PROVE  /\ IsAccount(Account(row, name, role, password))
           /\ Account(row, name, role, password).row = row
           /\ Account(row, name, role, password).name = name
           /\ Account(row, name, role, password).role = role
           /\ Account(row, name, role, password).forced
  BY DEF Account, IsAccount

LEMMA InvInit == Init => Inv
<1> SUFFICES ASSUME Init PROVE Inv
  OBVIOUS
<1>1. PICK p \in Passwords :
         account = [u \in Users |->
              Account(IF u \in Administrators \cup Analysts THEN "present" ELSE "free",
                      NameOf[u], IF u \in Administrators THEN "admin" ELSE "analyst", p)]
  BY DEF Init
<1>2. /\ code = [c \in Codes |-> Free] /\ request = [r \in Requests |-> Waiting]
      /\ chosenBy = [u \in Users |-> "another"] /\ overlap = FALSE
  BY DEF Init
<1>3. \A u \in Users :
         /\ IsAccount(account[u]) /\ account[u].name = NameOf[u] /\ account[u].forced
         /\ account[u].row = "present" => u \in Administrators \cup Analysts
  <2> SUFFICES ASSUME NEW u \in Users
               PROVE  /\ IsAccount(account[u]) /\ account[u].name = NameOf[u]
                      /\ account[u].forced
                      /\ account[u].row = "present" => u \in Administrators \cup Analysts
    OBVIOUS
  <2> DEFINE row == IF u \in Administrators \cup Analysts THEN "present" ELSE "free"
             role == IF u \in Administrators THEN "admin" ELSE "analyst"
  <2>1. account[u] = Account(row, NameOf[u], role, p)
    BY <1>1
  <2>2. role \in Roles /\ (row = "present" => u \in Administrators \cup Analysts)
    BY DEF Roles
  <2> HIDE DEF row, role
  <2> DEFINE a == Account(row, NameOf[u], role, p)
  <2>3. IsAccount(a) /\ a.row = row /\ a.name = NameOf[u] /\ a.forced
    BY <2>2, AccountIs
  <2> HIDE DEF a
  <2>4. account[u] = a
    BY <2>1 DEF a
  <2> QED
    BY <2>2, <2>3, <2>4
<1>4. IsCode(Free) /\ IsRequest(Waiting) /\ Waiting.pc = "idle"
  BY DEF Free, Waiting, IsCode, IsRequest
<1>5. Shape
  BY <1>1, <1>2, <1>3, <1>4 DEF Shape
<1>6. InProgress = {}
  BY <1>2, <1>4 DEF InProgress
<1>7. OneAccountPerName
  BY <1>3, AccountsAssumption DEF OneAccountPerName, Present
<1>8. OthersPasswordsAreTemporary
  BY <1>3 DEF OthersPasswordsAreTemporary, Temporary, Present
<1> QED
  BY <1>5, <1>6, <1>7, <1>8 DEF Inv, Validated, Alone

\* A request that is over or begins, and nothing in the tables changes.
LEMMA Moves ==
    ASSUME Inv, NEW r \in Requests, NEW new, IsRequest(new),
           request' = [request EXCEPT ![r] = new]
    PROVE  /\ request'[r] = new /\ request' = [s \in Requests |-> request'[s]]
           /\ \A s \in Requests : IsRequest(request'[s])
           /\ \A s \in Requests : s # r => request'[s] = request[s]
           /\ InProgress' \ {r} = InProgress \ {r}
<1>1. request'[r] = new /\ \A s \in Requests : s # r => request'[s] = request[s]
  BY DEF Inv, Shape
<1>2. InProgress' \ {r} = InProgress \ {r}
  BY <1>1 DEF InProgress
<1>3. request' = [s \in Requests |-> request'[s]]
  BY DEF Inv, Shape
<1>4. \A s \in Requests : IsRequest(request'[s])
  BY <1>1 DEF Inv, Shape
<1> QED
  BY <1>1, <1>2, <1>3, <1>4

\* The end of a request.
LEMMA Ends ==
    ASSUME Inv, NEW r \in Requests, NEW answer \in {"refused", "done", "failed"},
           Answer(r, answer)
    PROVE  /\ request' = [s \in Requests |-> request'[s]]
           /\ \A s \in Requests : IsRequest(request'[s])
           /\ \A s \in Requests : s # r => request'[s] = request[s]
           /\ InProgress' = InProgress \ {r}
<1> DEFINE new == [Waiting EXCEPT !.pc = answer]
<1>1. new = [pc |-> answer, call |-> Waiting.call, seen |-> Waiting.seen]
  BY DEF Waiting
<1>2. IsRequest(new) /\ new.pc = answer
  BY <1>1 DEF IsRequest
<1>3. request' = [request EXCEPT ![r] = new]
  BY DEF Answer
<1> HIDE DEF new
<1>4. request'[r] = new /\ InProgress' \ {r} = InProgress \ {r}
  BY <1>2, <1>3, Moves
<1>5. r \notin InProgress'
  BY <1>2, <1>4 DEF InProgress
<1> QED
  BY <1>2, <1>3, <1>4, <1>5, Moves

LEMMA ManagersAreAdmins ==
    ASSUME NEW role \in Roles, "manage_users" \in ROLE_PERMISSIONS[role]
    PROVE  role = "admin"
<1>1. ROLE_PERMISSIONS["analyst"] =
         {"view_incidents", "view_alerts", "run_analysis", "export_reports", "view_dashboard"}
  BY DEF ROLE_PERMISSIONS, Roles
<1>2. ROLE_PERMISSIONS["senior_analyst"] =
         {"view_incidents", "view_alerts", "run_analysis", "export_reports", "view_dashboard"}
         \cup {"adjust_scores", "merge_incidents", "split_incidents", "manage_webhooks",
               "add_notes"}
  BY DEF ROLE_PERMISSIONS, Roles
<1>3. ROLE_PERMISSIONS["other"] = {}
  BY DEF ROLE_PERMISSIONS, Roles
<1> QED
  BY <1>1, <1>2, <1>3 DEF Roles

LEMMA InvBegin ==
    ASSUME Inv, NEW r \in Requests, Begin(r)
    PROVE  Inv'
<1>1. /\ request[r].pc = "idle" /\ UNCHANGED <<account, code, chosenBy, spent>>
      /\ r \notin InProgress
  BY DEF Begin, InProgress
<1>2. PICK call \in Calls :
         /\ IF Authorised(call)
            THEN request' = [request EXCEPT ![r] =
                                [pc |-> "reading", call |-> call, seen |-> @.seen]]
            ELSE Answer(r, "refused")
         /\ overlap' = (overlap \/ (Authorised(call) /\ InProgress # {}))
  BY DEF Begin
<1>3. Present' = Present /\ Admins' = Admins
  BY <1>1 DEF Present, Admins
<1>4. overlap' \in BOOLEAN /\ (~overlap' => ~overlap)
  BY <1>2 DEF Inv, Shape
<1>5. OneAccountPerName' /\ OthersPasswordsAreTemporary'
  BY <1>1, <1>3, <1>4 DEF Inv, OneAccountPerName, OthersPasswordsAreTemporary, Temporary
<1>6. CASE ~Authorised(call)
  <2>1. Answer(r, "refused")
    BY <1>2, <1>6
  <2>2. /\ request' = [s \in Requests |-> request'[s]]
        /\ \A s \in Requests : IsRequest(request'[s])
        /\ \A s \in Requests : s # r => request'[s] = request[s]
        /\ InProgress' = InProgress
    BY <1>1, <2>1, Ends
  <2>3. \A s \in InProgress : request'[s] = request[s]
    BY <1>1, <2>2 DEF InProgress
  <2>4. Shape' /\ Validated'
    BY <1>1, <1>4, <2>2, <2>3 DEF Inv, Shape, Validated
  <2>5. Alone'
    BY <1>1, <1>3, <1>4, <2>2, <2>3 DEF Inv, Alone, Subject
  <2> QED
    BY <1>5, <2>4, <2>5 DEF Inv
<1>7. CASE Authorised(call)
  <2> DEFINE new == [pc |-> "reading", call |-> call, seen |-> request[r].seen]
  <2>1. request' = [request EXCEPT ![r] = new]
    BY <1>2, <1>7
  <2>2. IsRequest(new) /\ new.pc = "reading" /\ new.call = call
    BY DEF IsRequest
  <2> HIDE DEF new
  <2>3. /\ request'[r] = new /\ request' = [s \in Requests |-> request'[s]]
        /\ \A s \in Requests : IsRequest(request'[s])
        /\ \A s \in Requests : s # r => request'[s] = request[s]
        /\ InProgress' \ {r} = InProgress
    <3>1. InProgress \ {r} = InProgress
      BY <1>1
    <3> QED
      BY <2>1, <2>2, <3>1, Moves
  <2>4. \A s \in InProgress : request'[s] = request[s]
    BY <1>1, <2>3 DEF InProgress
  <2>5. Shape'
    BY <1>1, <1>4, <2>3 DEF Inv, Shape
  <2>6. /\ call.op \in AllOperations
        /\ call.op \in {"create", "update"} => call.role \in Roles
        /\ call.op = "redeem" => call.code \in Codes
        /\ call.op = "change" => call.actor \in Users
        /\ call.op \in {"reset", "script", "update", "delete", "forgot"} => call.target \in Users
    BY DEF Calls, Present, AllOperations
  <2>7. Validated'
    BY <2>2, <2>3, <2>4, <2>6 DEF Inv, Validated
  <2>8. call.op = "delete" => call.actor \in Admins
    <3>1. SUFFICES ASSUME call.op = "delete" PROVE call.actor \in Admins
      OBVIOUS
    <3>2. call.op \in DOMAIN Required /\ Required[call.op] = "manage_users"
      BY <3>1 DEF Required
    <3>3. /\ call.actor \in Present /\ account[call.actor].active
          /\ "manage_users" \in ROLE_PERMISSIONS[account[call.actor].role]
      BY <1>7, <3>2 DEF Authorised
    <3>4. account[call.actor].role \in Roles
      BY <3>3 DEF Inv, Shape, Present, IsAccount
    <3> QED
      BY <3>3, <3>4, ManagersAreAdmins DEF Admins
  <2>9. Alone'
    <3>1. SUFFICES ASSUME ~overlap' PROVE Alone'
      BY DEF Alone
    <3>2. InProgress = {}
      BY <1>2, <1>7, <3>1
    <3>3. InProgress' \subseteq {r}
      BY <2>3, <3>2
    <3> QED
      BY <1>3, <2>2, <2>3, <2>8, <3>3 DEF Alone
  <2> QED
    BY <1>5, <2>5, <2>7, <2>9 DEF Inv
<1> QED
  BY <1>6, <1>7

LEMMA InvRead ==
    ASSUME Inv, NEW r \in Requests, Read(r)
    PROVE  Inv'
<1> DEFINE call == request[r].call
<1>1. /\ request[r].pc = "reading" /\ UNCHANGED <<account, code, chosenBy, spent, overlap>>
      /\ r \in InProgress
  BY DEF Read, InProgress
<1>2. Present' = Present /\ Admins' = Admins
  BY <1>1 DEF Present, Admins
<1>3. OneAccountPerName' /\ OthersPasswordsAreTemporary'
  BY <1>1, <1>2 DEF Inv, OneAccountPerName, OthersPasswordsAreTemporary, Temporary
<1>4. CASE ~Allowed(call)
  <2>1. Answer(r, "refused")
    BY <1>4 DEF Read
  <2>2. /\ request' = [s \in Requests |-> request'[s]]
        /\ \A s \in Requests : IsRequest(request'[s])
        /\ \A s \in Requests : s # r => request'[s] = request[s]
        /\ InProgress' = InProgress \ {r}
    BY <2>1, Ends
  <2>3. \A s \in InProgress' : s \in InProgress /\ request'[s] = request[s]
    BY <2>2 DEF InProgress
  <2>4. Shape' /\ Validated'
    BY <1>1, <2>2, <2>3 DEF Inv, Shape, Validated
  <2>5. Alone'
    BY <1>1, <1>2, <2>2, <2>3 DEF Inv, Alone, Subject
  <2> QED
    BY <1>3, <2>4, <2>5 DEF Inv
<1>5. CASE Allowed(call)
  <2> DEFINE seen == IF call.op = "create" THEN request[r].seen ELSE account[Subject(call)]
             new == [pc |-> "writing", call |-> call, seen |-> seen]
  <2>1. request' = [request EXCEPT ![r] = new]
    BY <1>5 DEF Read
  <2>2. IsRequest(new) /\ new.pc = "writing" /\ new.call = call /\ new.seen = seen
    BY DEF IsRequest
  <2> HIDE DEF new
  <2>3. /\ request'[r] = new /\ request' = [s \in Requests |-> request'[s]]
        /\ \A s \in Requests : IsRequest(request'[s])
        /\ \A s \in Requests : s # r => request'[s] = request[s]
        /\ InProgress' \ {r} = InProgress \ {r}
    BY <2>1, <2>2, Moves
  <2>4. \A s \in InProgress' : s # r => s \in InProgress /\ request'[s] = request[s]
    BY <2>3 DEF InProgress
  <2>5. Shape'
    BY <1>1, <2>3 DEF Inv, Shape
  <2>6. Validated'
    BY <1>1, <2>2, <2>3, <2>4 DEF Inv, Validated
  <2>7. Alone'
    <3>1. SUFFICES ASSUME ~overlap PROVE Alone'
      BY <1>1 DEF Alone
    <3>2. InProgress' \subseteq {r}
      BY <1>1, <2>3, <3>1 DEF Inv, Alone
    <3>3. call.op = "delete" => call.actor \in Admins /\ call.target # call.actor
      BY <1>1, <1>5, <3>1 DEF Inv, Alone, Allowed, DeleteAllowed
    <3>4. call.op # "create" => seen = account[Subject(call)]
      OBVIOUS
    <3>5. Subject(call)' = Subject(call)
      BY <1>1, <2>2, <2>3 DEF Subject
    <3> HIDE DEF seen, call
    <3>6. /\ \A s \in InProgress' : s = r /\ request'[s].call = call /\ request'[s].seen = seen
      BY <2>2, <2>3, <3>2
    <3>7. Subject(call) = IF call.op = "change" THEN call.actor
                          ELSE IF call.op = "redeem" THEN code[call.code].user
                          ELSE call.target
      BY DEF Subject
    <3> QED
      BY <1>1, <1>2, <3>3, <3>4, <3>6, <3>7 DEF Alone, Subject
  <2> QED
    BY <1>3, <2>5, <2>6, <2>7 DEF Inv
<1> QED
  BY <1>4, <1>5

\* What a commit may do to the accounts: names and rows stay, unless an account is
\* created with a name of its own or one is deleted.
LEMMA Overwritten ==
    ASSUME Inv, NEW u, NEW role \in Roles, NEW active, NEW password, NEW forced \in BOOLEAN,
           account' = Overwrite(u, role, active, password, forced)
    PROVE  /\ account' = [v \in Users |-> account'[v]]
           /\ \A v \in Users : IsAccount(account'[v])
           /\ \A v \in Users : v # u => account'[v] = account[v]
           /\ \A v \in Users : account'[v].row = account[v].row
                                /\ account'[v].name = account[v].name
           /\ u \in Users => account'[u].forced = forced
           /\ Present' = Present /\ OneAccountPerName'
<1> DEFINE new == [row |-> account[u].row, name |-> account[u].name, role |-> role,
                   active |-> active, password |-> password, forced |-> forced]
<1>1. account' = [account EXCEPT ![u] = new]
  BY DEF Overwrite
<1>2. IsAccount(new) /\ new.row = account[u].row /\ new.name = account[u].name
      /\ new.forced = forced
  BY DEF IsAccount
<1> HIDE DEF new
<1>3. account' = [v \in Users |-> IF v = u THEN new ELSE account[v]]
  BY <1>1 DEF Inv, Shape
<1>4. /\ account' = [v \in Users |-> account'[v]]
      /\ \A v \in Users : IsAccount(account'[v])
  BY <1>2, <1>3 DEF Inv, Shape
<1>5. /\ \A v \in Users : account'[v].row = account[v].row /\ account'[v].name = account[v].name
      /\ \A v \in Users : v # u => account'[v] = account[v]
      /\ u \in Users => account'[u].forced = forced
  BY <1>2, <1>3
<1>6. Present' = Present
  BY <1>5 DEF Present
<1>7. OneAccountPerName'
  BY <1>5, <1>6 DEF Inv, OneAccountPerName, Present
<1> QED
  BY <1>4, <1>5, <1>6, <1>7

\* A commit that keeps the tables in shape ends its request: nobody is left, if it was
\* alone.
LEMMA CommitEnds ==
    ASSUME Inv, NEW r \in InProgress, UNCHANGED overlap,
           NEW answer \in {"done", "failed"}, Answer(r, answer),
           account' = [u \in Users |-> account'[u]], \A u \in Users : IsAccount(account'[u]),
           code' = [c \in Codes |-> code'[c]], \A c \in Codes : IsCode(code'[c]),
           chosenBy' = [u \in Users |-> chosenBy'[u]],
           OneAccountPerName', OthersPasswordsAreTemporary'
    PROVE  Inv'
<1>1. r \in Requests
  BY DEF InProgress
<1>2. /\ request' = [s \in Requests |-> request'[s]]
      /\ \A s \in Requests : IsRequest(request'[s])
      /\ \A s \in Requests : s # r => request'[s] = request[s]
      /\ InProgress' = InProgress \ {r}
  BY <1>1, Ends
<1>3. Shape'
  BY <1>2 DEF Inv, Shape
<1>4. \A s \in InProgress' : s \in InProgress /\ request'[s] = request[s]
  BY <1>2 DEF InProgress
<1>5. Validated'
  BY <1>4 DEF Inv, Validated
<1>6. Alone'
  <2>1. ~overlap => InProgress' = {}
    BY <1>2 DEF Inv, Alone
  <2> QED
    BY <2>1 DEF Alone
<1> QED
  BY <1>3, <1>5, <1>6 DEF Inv

LEMMA Ended ==
    ASSUME Inv, NEW r \in InProgress, UNCHANGED overlap, Gone(r)
    PROVE  Inv'
<1>1. Answer(r, "failed") /\ UNCHANGED <<account, code, chosenBy>>
  BY DEF Gone
<1>2. OneAccountPerName' /\ OthersPasswordsAreTemporary'
  BY <1>1 DEF Inv, OneAccountPerName, OthersPasswordsAreTemporary, Temporary, Present
<1> QED
  BY <1>1, <1>2, CommitEnds DEF Inv, Shape

\* A password is written with the flag that its author calls for.
LEMMA PasswordWritten ==
    ASSUME Inv, NEW r \in InProgress, UNCHANGED overlap, NEW u, NEW new,
           NEW author \in {"self", "another"},
           ~overlap => request[r].seen = account[u],
           account' = WritePassword(u, request[r].seen, new, author = "another"),
           chosenBy' = [chosenBy EXCEPT ![u] = author], u \in Users,
           code' = [c \in Codes |-> code'[c]], \A c \in Codes : IsCode(code'[c]),
           Answer(r, "done")
    PROVE  Inv'
<1> DEFINE seen == request[r].seen
           forced == Column(seen.forced, author = "another", account[u].forced)
<1>1. u \in Users /\ IsAccount(account[u])
  BY DEF Inv, Shape
<1>2. forced \in BOOLEAN
  BY <1>1 DEF Column, IsAccount
<1>3. ~overlap /\ author = "another" => forced = TRUE
  BY <1>1 DEF Column, IsAccount
<1> HIDE DEF forced
<1>4. account' = Overwrite(u, account[u].role, account[u].active, new, forced)
  BY DEF WritePassword, forced
<1>5. /\ account' = [v \in Users |-> account'[v]]
      /\ \A v \in Users : IsAccount(account'[v])
      /\ \A v \in Users : v # u => account'[v] = account[v]
      /\ account'[u].forced = forced /\ Present' = Present /\ OneAccountPerName'
  <2>1. account[u].role \in Roles
    BY <1>1 DEF IsAccount
  <2> QED
    BY <1>1, <1>2, <1>4, <2>1, Overwritten
<1>6. /\ chosenBy' = [v \in Users |-> chosenBy'[v]] /\ chosenBy'[u] = author
      /\ \A v \in Users : v # u => chosenBy'[v] = chosenBy[v]
  BY <1>1 DEF Inv, Shape
<1>7. OthersPasswordsAreTemporary'
  <2>1. SUFFICES ASSUME ~overlap, NEW v \in Present, chosenBy'[v] = "another"
                 PROVE  account'[v].forced
    BY <1>5 DEF OthersPasswordsAreTemporary, Temporary
  <2>2. CASE v = u
    BY <1>3, <1>5, <1>6, <2>1, <2>2
  <2>3. CASE v # u
    BY <1>5, <1>6, <2>1, <2>3 DEF Inv, OthersPasswordsAreTemporary, Temporary, Present
  <2> QED
    BY <2>2, <2>3
<1> QED
  BY <1>5, <1>6, <1>7, CommitEnds

LEMMA InvPassword ==
    ASSUME Inv, NEW r \in InProgress, request[r].pc = "writing", UNCHANGED overlap, NEW u,
           request[r].call.op \in {"change", "reset", "script"},
           u = Subject(request[r].call), CommitPassword(r, u)
    PROVE  Inv'
<1>1. CASE u \notin Present
  BY <1>1, Ended DEF CommitPassword
<1>2. CASE u \in Present
  <2> DEFINE author == IF request[r].call.op = "change" THEN "self" ELSE "another"
  <2>1. /\ account' = WritePassword(u, request[r].seen, request[r].call.new,
                                    ~(request[r].call.op = "change"))
        /\ chosenBy' = [chosenBy EXCEPT ![u] = author]
        /\ Answer(r, "done") /\ UNCHANGED code
    BY <1>2 DEF CommitPassword
  <2>2. (~(request[r].call.op = "change")) = (author = "another")
    OBVIOUS
  <2>3. author \in {"self", "another"}
    OBVIOUS
  <2> HIDE DEF author
  <2>4. account' = WritePassword(u, request[r].seen, request[r].call.new, author = "another")
    BY <2>1, <2>2
  <2>5. ~overlap => request[r].seen = account[u]
    BY DEF Inv, Alone
  <2>6. code' = [c \in Codes |-> code'[c]] /\ \A c \in Codes : IsCode(code'[c])
    BY <2>1 DEF Inv, Shape
  <2> QED
    BY <1>2, <2>1, <2>3, <2>4, <2>5, <2>6, PasswordWritten DEF Present
<1> QED
  BY <1>1, <1>2

\* A code may be used or expire.
LEMMA CodeKept ==
    ASSUME NEW k, IsCode(k), NEW x
    PROVE  IsCode([k EXCEPT !.used = x]) /\ IsCode([k EXCEPT !.expired = x])
<1>1. [k EXCEPT !.used = x] =
         [row |-> k.row, user |-> k.user, used |-> x, expired |-> k.expired]
  BY DEF IsCode
<1>2. [k EXCEPT !.expired = x] =
         [row |-> k.row, user |-> k.user, used |-> k.used, expired |-> x]
  BY DEF IsCode
<1> QED
  BY <1>1, <1>2 DEF IsCode

LEMMA InvRedeem ==
    ASSUME Inv, NEW r \in InProgress, request[r].pc = "writing", UNCHANGED overlap,
           request[r].call.op = "redeem", CommitRedeem(r)
    PROVE  Inv'
<1> DEFINE call == request[r].call
           u == code[call.code].user
<1>1. CASE code[call.code].row # "present"
  BY <1>1, Ended DEF CommitRedeem
<1>2. CASE code[call.code].row = "present"
  <2>1. /\ account' = WritePassword(u, request[r].seen, call.new, TRUE)
        /\ code' = [code EXCEPT ![call.code].used = TRUE]
        /\ chosenBy' = [chosenBy EXCEPT ![u] = "another"]
        /\ Answer(r, "done")
    BY <1>2 DEF CommitRedeem, UseCode
  <2>2. call.code \in Codes
    BY DEF Inv, Validated
  <2>3. u \in Users
    BY <1>2, <2>2 DEF Inv, Shape, IsCode
  <2>4. ~overlap => request[r].seen = account[u]
    BY DEF Inv, Alone, Subject
  <2>5. code' = [c \in Codes |-> code'[c]] /\ \A c \in Codes : IsCode(code'[c])
    <3>1. PICK used : code' = [code EXCEPT ![call.code].used = used]
      BY <2>1, Zenon
    <3>2. code' = [code EXCEPT ![call.code] = [code[call.code] EXCEPT !.used = used]]
      BY <2>2, <3>1 DEF Inv, Shape
    <3>3. IsCode([code[call.code] EXCEPT !.used = used])
      BY <2>2, CodeKept DEF Inv, Shape
    <3> QED
      BY <3>2, <3>3 DEF Inv, Shape
  <2>6. account' = WritePassword(u, request[r].seen, call.new, "another" = "another")
    BY <2>1
  <2> QED
    BY <2>1, <2>3, <2>4, <2>5, <2>6, PasswordWritten
<1> QED
  BY <1>1, <1>2

LEMMA InvForgot ==
    ASSUME Inv, NEW r \in InProgress, UNCHANGED overlap, CommitForgot(r)
    PROVE  Inv'
<1> DEFINE u == request[r].call.target
<1>1. CASE u \notin Present
  BY <1>1, Ended DEF CommitForgot
<1>2. CASE u \in Present
  <2>1. PICK c \in Codes : code' = [code EXCEPT ![c].row = "present", ![c].user = u]
    BY <1>2 DEF CommitForgot
  <2>2. Answer(r, "done") /\ UNCHANGED <<account, chosenBy>>
    BY <1>2 DEF CommitForgot
  <2>3. code' = [d \in Codes |-> code'[d]] /\ \A d \in Codes : IsCode(code'[d])
    <3> DEFINE k == code[c]
               named == [row |-> "present", user |-> k.user, used |-> k.used,
                         expired |-> k.expired]
               new == [row |-> "present", user |-> u, used |-> k.used, expired |-> k.expired]
    <3>1. IsCode(k) /\ u \in Users
      BY <1>2 DEF Inv, Shape, Present
    <3>2. [k EXCEPT !.row = "present"] = named
      BY <3>1 DEF IsCode
    <3>3. [named EXCEPT !.user = u] = new
      OBVIOUS
    <3>4. IsCode(new)
      BY <3>1 DEF IsCode
    <3>5. code' = [code EXCEPT ![c] = [k EXCEPT !.row = "present", !.user = u]]
      BY <2>1 DEF Inv, Shape
    <3>6. [k EXCEPT !.row = "present", !.user = u] = [[k EXCEPT !.row = "present"] EXCEPT !.user = u]
      OBVIOUS
    <3> HIDE DEF new, named
    <3>7. code' = [code EXCEPT ![c] = new]
      BY <3>2, <3>3, <3>5, <3>6
    <3> QED
      BY <3>4, <3>7 DEF Inv, Shape
  <2>4. OneAccountPerName' /\ OthersPasswordsAreTemporary'
    BY <2>2 DEF Inv, OneAccountPerName, OthersPasswordsAreTemporary, Temporary, Present
  <2> QED
    BY <2>2, <2>3, <2>4, CommitEnds DEF Inv, Shape
<1> QED
  BY <1>1, <1>2

\* A name that the insertion finds taken ends the request; a new account has a temporary
\* password.
LEMMA InvCreate ==
    ASSUME Inv, NEW r \in InProgress, UNCHANGED overlap,
           request[r].call.op = "create", CommitCreate(r)
    PROVE  Inv'
<1> DEFINE call == request[r].call
<1>1. CASE Gone(r)
  BY <1>1, Ended
<1>2. CASE ~Gone(r)
  <2> DEFINE new == Account("present", call.name, call.role, call.new)
  <2>1. PICK u \in Users : /\ account[u].row = "free" /\ ~Taken(call.name)
                           /\ account' = [account EXCEPT ![u] = new]
    BY <1>2 DEF CommitCreate
  <2>2. Answer(r, "done") /\ UNCHANGED <<code, chosenBy>>
    BY <1>2 DEF CommitCreate
  <2>3. call.role \in Roles
    BY DEF Inv, Validated
  <2>4. /\ IsAccount(new) /\ new.row = "present" /\ new.name = call.name
        /\ new.forced
    BY <2>3, AccountIs
  <2> HIDE DEF new
  <2>5. account'[u] = new /\ \A v \in Users : v # u => account'[v] = account[v]
    BY <2>1 DEF Inv, Shape
  <2>6. account' = [v \in Users |-> account'[v]] /\ \A v \in Users : IsAccount(account'[v])
    BY <2>1, <2>4, <2>5 DEF Inv, Shape
  <2>7. Present' = Present \cup {u}
    BY <2>4, <2>5 DEF Present
  <2>8. \A v \in Present : account[v].name # call.name /\ v # u /\ v \in Users
    BY <2>1 DEF Taken, Present
  <2>9. OneAccountPerName'
    BY <2>4, <2>5, <2>7, <2>8 DEF Inv, OneAccountPerName
  <2>10. OthersPasswordsAreTemporary'
    <3>1. SUFFICES ASSUME ~overlap, NEW v \in Present', chosenBy[v] = "another"
                   PROVE  account'[v].forced
      BY <2>2 DEF OthersPasswordsAreTemporary, Temporary
    <3>2. CASE v = u
      BY <2>4, <2>5, <3>2
    <3>3. CASE v # u
      BY <2>5, <2>7, <2>8, <3>1, <3>3 DEF Inv, OthersPasswordsAreTemporary, Temporary
    <3> QED
      BY <3>2, <3>3
  <2> QED
    BY <2>2, <2>6, <2>9, <2>10, CommitEnds DEF Inv, Shape
<1> QED
  BY <1>1, <1>2

LEMMA InvUpdate ==
    ASSUME Inv, NEW r \in InProgress, UNCHANGED overlap,
           request[r].call.op = "update", CommitUpdate(r)
    PROVE  Inv'
<1> DEFINE call == request[r].call
           u == call.target
           seen == request[r].seen
           role == Column(seen.role, call.role, account[u].role)
           active == Column(seen.active, call.active, account[u].active)
<1>1. CASE Gone(r)
  BY <1>1, Ended
<1>2. CASE ~Gone(r)
  <2>1. /\ account' = Overwrite(u, role, active, account[u].password, account[u].forced)
        /\ Answer(r, "done") /\ UNCHANGED <<code, chosenBy>> /\ u \in Present
    BY <1>2 DEF CommitUpdate
  <2>2. u \in Users /\ IsAccount(account[u]) /\ call.role \in Roles
    BY <2>1 DEF Inv, Shape, Present, Validated
  <2>3. role \in Roles /\ account[u].forced \in BOOLEAN
    BY <2>2 DEF Column, IsAccount
  <2> HIDE DEF role, active
  <2>4. /\ account' = [v \in Users |-> account'[v]]
        /\ \A v \in Users : IsAccount(account'[v])
        /\ \A v \in Users : v # u => account'[v] = account[v]
        /\ account'[u].forced = account[u].forced /\ Present' = Present /\ OneAccountPerName'
    BY <2>1, <2>2, <2>3, Overwritten
  <2>5. OthersPasswordsAreTemporary'
    <3>1. SUFFICES ASSUME ~overlap, NEW v \in Present, chosenBy[v] = "another"
                   PROVE  account'[v].forced
      BY <2>1, <2>4 DEF OthersPasswordsAreTemporary, Temporary
    <3>2. account[v].forced /\ v \in Users
      BY <3>1 DEF Inv, OthersPasswordsAreTemporary, Temporary, Present
    <3>3. account'[v].forced = account[v].forced
      BY <2>4, <3>2
    <3> QED
      BY <3>2, <3>3
  <2> QED
    BY <2>1, <2>4, <2>5, CommitEnds DEF Inv, Shape
<1> QED
  BY <1>1, <1>2

LEMMA DropCodesKeeps ==
    ASSUME Inv, NEW u
    PROVE  /\ DropCodes(u) = [c \in Codes |-> DropCodes(u)[c]]
           /\ \A c \in Codes : IsCode(DropCodes(u)[c])
<1>1. ASSUME NEW c \in Codes PROVE IsCode(DropCodes(u)[c])
  <2> DEFINE k == code[c]
             new == [row |-> "deleted", user |-> k.user, used |-> k.used, expired |-> k.expired]
  <2>1. IsCode(k)
    BY DEF Inv, Shape
  <2>2. [k EXCEPT !.row = "deleted"] = new /\ IsCode(new)
    BY <2>1 DEF IsCode
  <2> HIDE DEF new
  <2> QED
    BY <2>1, <2>2 DEF DropCodes
<1> QED
  BY <1>1 DEF DropCodes

\* The row of a deleted account.
LEMMA Deleted ==
    ASSUME Inv, NEW u \in Users, account' = [account EXCEPT ![u].row = "deleted"]
    PROVE  /\ account' = [v \in Users |-> account'[v]]
           /\ \A v \in Users : IsAccount(account'[v])
           /\ \A v \in Users : v # u => account'[v] = account[v]
           /\ Present' = Present \ {u}
<1> DEFINE a == account[u]
           new == [row |-> "deleted", name |-> a.name, role |-> a.role, active |-> a.active,
                   password |-> a.password, forced |-> a.forced]
<1>1. IsAccount(a)
  BY DEF Inv, Shape
<1>2. [a EXCEPT !.row = "deleted"] = new
  BY <1>1 DEF IsAccount
<1>3. IsAccount(new) /\ new.row = "deleted"
  BY <1>1 DEF IsAccount
<1>4. account' = [account EXCEPT ![u] = [a EXCEPT !.row = "deleted"]]
  BY DEF Inv, Shape
<1> HIDE DEF new
<1>5. account' = [v \in Users |-> IF v = u THEN new ELSE account[v]]
  BY <1>2, <1>4 DEF Inv, Shape
<1> HIDE DEF a
<1>6. \A v \in Users : IsAccount(account'[v])
  BY <1>3, <1>5 DEF Inv, Shape
<1> QED
  BY <1>3, <1>5, <1>6 DEF Present

LEMMA InvDelete ==
    ASSUME Inv, NEW r \in InProgress, UNCHANGED overlap,
           request[r].call.op = "delete", CommitDelete(r)
    PROVE  Inv'
<1> DEFINE u == request[r].call.target
<1>1. /\ account' = [account EXCEPT ![u].row = "deleted"] /\ code' = DropCodes(u)
      /\ Answer(r, "done") /\ UNCHANGED chosenBy
  BY DEF CommitDelete
<1>2. u \in Users
  BY DEF Inv, Validated
<1>3. /\ account' = [v \in Users |-> account'[v]]
      /\ \A v \in Users : IsAccount(account'[v])
      /\ \A v \in Users : v # u => account'[v] = account[v]
      /\ Present' = Present \ {u}
  BY <1>1, <1>2, Deleted
<1>4. \A v \in Present' : v \in Present /\ account'[v] = account[v]
  BY <1>3 DEF Present
<1>5. OneAccountPerName' /\ OthersPasswordsAreTemporary'
  BY <1>1, <1>4 DEF Inv, OneAccountPerName, OthersPasswordsAreTemporary, Temporary
<1>6. code' = [c \in Codes |-> code'[c]] /\ \A c \in Codes : IsCode(code'[c])
  BY <1>1, DropCodesKeeps
<1> QED
  BY <1>1, <1>3, <1>5, <1>6, CommitEnds DEF Inv, Shape

LEMMA InvCommit ==
    ASSUME Inv, NEW r \in Requests, Commit(r)
    PROVE  Inv'
<1> DEFINE op == request[r].call.op
<1>1. r \in InProgress /\ request[r].pc = "writing" /\ UNCHANGED overlap
  BY DEF Commit, InProgress
<1>2. \/ op \in {"reset", "script"} /\ CommitPassword(r, request[r].call.target)
      \/ op = "change" /\ CommitPassword(r, request[r].call.actor)
      \/ op = "redeem" /\ CommitRedeem(r)
      \/ op = "forgot" /\ CommitForgot(r)
      \/ op = "create" /\ CommitCreate(r)
      \/ op = "update" /\ CommitUpdate(r)
      \/ op = "delete" /\ CommitDelete(r)
  <2>1. op \in AllOperations
    BY <1>1 DEF Inv, Validated
  <2> QED
    BY <2>1 DEF Commit, AllOperations
<1>3. CASE op \in {"reset", "script"} /\ CommitPassword(r, request[r].call.target)
  BY <1>1, <1>3, InvPassword DEF Subject
<1>4. CASE op = "change" /\ CommitPassword(r, request[r].call.actor)
  BY <1>1, <1>4, InvPassword DEF Subject
<1> QED
  BY <1>1, <1>2, <1>3, <1>4, InvRedeem, InvForgot, InvCreate, InvUpdate, InvDelete

LEMMA InvExpire ==
    ASSUME Inv, NEW c \in Codes, Expire(c)
    PROVE  Inv'
<1>1. UNCHANGED <<account, request, chosenBy, overlap>>
  BY DEF Expire
<1>2. PICK expired : code' = [code EXCEPT ![c].expired = expired]
  BY Zenon DEF Expire
<1> DEFINE new == [code[c] EXCEPT !.expired = expired]
<1>3. code' = [code EXCEPT ![c] = new]
  BY <1>2 DEF Inv, Shape
<1>4. IsCode(new)
  BY CodeKept DEF Inv, Shape
<1>5. new.user = code[c].user
  <2>1. IsCode(code[c])
    BY DEF Inv, Shape
  <2> QED
    BY <2>1 DEF IsCode
<1> HIDE DEF new
<1>6. \A d \in Codes : IsCode(code'[d]) /\ code'[d].user = code[d].user
  BY <1>3, <1>4, <1>5 DEF Inv, Shape
<1>7. Shape'
  BY <1>1, <1>3, <1>6 DEF Inv, Shape
<1>8. Validated' /\ OneAccountPerName' /\ OthersPasswordsAreTemporary'
  BY <1>1 DEF Inv, Validated, InProgress, OneAccountPerName, OthersPasswordsAreTemporary,
              Temporary, Present
<1>9. Alone'
  <2>1. \A r \in InProgress : Subject(request[r].call)' = Subject(request[r].call)
    BY <1>1, <1>6 DEF Inv, Validated, Subject
  <2>2. InProgress' = InProgress /\ Admins' = Admins
    BY <1>1 DEF InProgress, Admins, Present
  <2> QED
    BY <1>1, <2>1, <2>2 DEF Inv, Alone
<1> QED
  BY <1>7, <1>8, <1>9 DEF Inv

LEMMA InvNext == Inv /\ [Next]_vars => Inv'
<1> SUFFICES ASSUME Inv, [Next]_vars PROVE Inv'
  OBVIOUS
<1>1. CASE UNCHANGED vars
  <2> USE <1>1 DEF vars, Inv
  <2>1. Shape' /\ Validated'
    BY DEF Shape, Validated, InProgress
  <2>2. OneAccountPerName'
    BY DEF OneAccountPerName, Present
  <2>3. OthersPasswordsAreTemporary'
    BY DEF OthersPasswordsAreTemporary, Temporary, Present
  <2>4. Alone'
    BY DEF Alone, InProgress, Subject, Admins, Present
  <2> QED
    BY <2>1, <2>2, <2>3, <2>4
<1> QED
  BY <1>1, InvBegin, InvRead, InvCommit, InvExpire DEF Next, Finished

LEMMA InvAlways == Spec => []Inv
  BY InvInit, InvNext, PTL DEF Spec

-----------------------------------------------------------------------------
(* What follows *)

\* The unique column keeps names apart, although admin_create_user checks and inserts in
\* two steps.
THEOREM NamesAreUnique == Spec => []OneAccountPerName
<1>1. Inv => OneAccountPerName
  BY DEF Inv
<1> QED
  BY <1>1, InvAlways, PTL

\* While requests do not overlap, a password that someone else has set must be changed.
THEOREM PasswordsAreTemporary == Spec => []OthersPasswordsAreTemporary
<1>1. Inv => OthersPasswordsAreTemporary
  BY DEF Inv
<1> QED
  BY <1>1, InvAlways, PTL

\* An administrator who deletes accounts, one request at a time, remains one.
THEOREM AnAdministratorRemains == Spec => DeletionLeavesAnAdministrator
<1>1. ASSUME Inv, [Next]_vars, ~overlap', Admins # {}, Admins' = {}
      PROVE  Admins \subseteq Present'
  <2>1. CASE account' = account
    BY <1>1, <2>1 DEF Admins, Present
  <2>2. CASE account' # account
    <3>1. PICK r \in Requests : Commit(r)
      BY <1>1, <2>2 DEF Next, vars, Finished, Begin, Read, Expire
    <3> DEFINE call == request[r].call
    <3>2. r \in InProgress /\ request[r].pc = "writing" /\ ~overlap
      BY <1>1, <3>1 DEF Commit, InProgress
    <3>3. call.op \in AllOperations
      BY <1>1, <3>2 DEF Inv, Validated
    <3>4. CASE call.op = "delete"
      <4>1. account' = [account EXCEPT ![call.target].row = "deleted"] /\ call.target \in Users
        BY <1>1, <3>1, <3>2, <3>4 DEF Commit, CommitDelete, Inv, Validated
      <4>2. call.actor \in Admins /\ call.target # call.actor
        BY <1>1, <3>2, <3>4 DEF Inv, Alone
      <4>3. Present' = Present \ {call.target}
            /\ \A v \in Users : v # call.target => account'[v] = account[v]
        BY <1>1, <4>1, Deleted
      <4>4. call.actor \in Admins'
        BY <4>2, <4>3 DEF Admins, Present
      <4> QED
        BY <1>1, <4>4
    <3>5. CASE call.op # "delete"
      <4>1. \A v \in Users : account[v].row = "present" => account'[v].row = "present"
        <5>1. CASE \E u \in Users : /\ account[u].row = "free"
                                    /\ \E a : account' = [account EXCEPT ![u] = a]
          BY <1>1, <5>1 DEF Inv, Shape
        <5>2. CASE \E u, role, active, password, forced :
                       account' = Overwrite(u, role, active, password, forced)
          BY <1>1, <5>2 DEF Inv, Shape, Overwrite
        <5>3. \/ \E u : CommitPassword(r, u)
              \/ CommitRedeem(r) \/ CommitForgot(r) \/ CommitCreate(r) \/ CommitUpdate(r)
          BY <3>1, <3>3, <3>5 DEF Commit, AllOperations
        <5>4. ASSUME NEW u, CommitPassword(r, u)
              PROVE  \E role, active, password, forced :
                         account' = Overwrite(u, role, active, password, forced)
          BY <2>2, <5>4 DEF CommitPassword, WritePassword, Gone
        <5>5. CASE CommitRedeem(r)
          <6>1. account' = WritePassword(code[call.code].user, request[r].seen, call.new, TRUE)
            BY <2>2, <5>5 DEF CommitRedeem, Gone
          <6>2. \E role, active, password, forced :
                   account' = Overwrite(code[call.code].user, role, active, password, forced)
            BY <6>1, Zenon DEF WritePassword
          <6> QED
            BY <5>2, <6>2
        <5>6. CASE CommitCreate(r)
          <6>1. PICK u \in Users : /\ account[u].row = "free"
                                  /\ account' = [account EXCEPT ![u] =
                                        Account("present", call.name, call.role, call.new)]
            BY <2>2, <5>6 DEF CommitCreate, Gone
          <6> QED
            BY <5>1, <6>1
        <5>7. CASE CommitUpdate(r)
          BY <2>2, <5>2, <5>7 DEF CommitUpdate, Gone
        <5> QED
          BY <2>2, <5>2, <5>3, <5>4, <5>5, <5>6, <5>7 DEF CommitForgot, Gone
      <4> QED
        BY <4>1 DEF Admins, Present
    <3> QED
      BY <3>4, <3>5
  <2> QED
    BY <2>1, <2>2
<1>2. Inv /\ [Next]_vars => [Orderly]_vars
  BY <1>1 DEF Orderly
<1> QED
  BY <1>2, InvAlways, PTL DEF Spec, DeletionLeavesAnAdministrator

-----------------------------------------------------------------------------
(* The types *)

Rows == {"free", "present", "deleted"}
AccountRow ==
    [row : Rows, name : Names, role : Roles, active : BOOLEAN, password : Passwords,
     forced : BOOLEAN]
CodeRow == [row : Rows, user : Users \cup {Nobody}, used : BOOLEAN, expired : BOOLEAN]

\* The tables of a state, and who owns a code (ON DELETE CASCADE).
Tables ==
    /\ account \in [Users -> AccountRow]
    /\ code \in [Codes -> CodeRow]
    /\ chosenBy \in [Users -> {"self", "another"}]
    /\ spent \in [Codes -> Nat] /\ overlap \in BOOLEAN
    /\ \A c \in Codes : code[c].row = "present" => code[c].user \in Present

\* What validation and the handler's read leave of a request.
Stage(r) ==
    LET q == request[r]
        call == q.call
    IN  /\ q.pc \in {"idle", "reading", "writing", "refused", "done", "failed"}
        /\ call.op \in AllOperations \cup {"none"}
        /\ q.pc = "writing" /\ call.op # "create" => q.seen.row = "present"
        /\ q.pc \in {"reading", "writing"} =>
               /\ call.op \in {"change", "reset", "script", "redeem", "create"} =>
                      call.new \in Passwords
               /\ call.op = "create" => call.name \in Names /\ call.role \in Roles
               /\ call.op = "update" => call.active \in BOOLEAN

Types == Tables /\ \A r \in Requests : Stage(r)

LEMMA TypesInit == Init => Types
<1> SUFFICES ASSUME Init PROVE Types
  OBVIOUS
<1>1. PICK p \in Passwords :
         account = [u \in Users |->
              Account(IF u \in Administrators \cup Analysts THEN "present" ELSE "free",
                      NameOf[u], IF u \in Administrators THEN "admin" ELSE "analyst", p)]
  BY DEF Init
<1>2. account \in [Users -> AccountRow]
  BY <1>1, AccountsAssumption DEF Account, AccountRow, Rows, Roles
<1>3. /\ chosenBy = [u \in Users |-> "another"] /\ spent = [c \in Codes |-> 0]
      /\ overlap = FALSE /\ code = [c \in Codes |-> Free]
  BY DEF Init
<1>4. Free \in CodeRow /\ Free.row = "free"
  BY DEF Free, CodeRow, Rows
<1>5. \A r \in Requests : request[r].pc = "idle" /\ request[r].call.op = "none"
  BY DEF Init, Waiting
<1> QED
  BY <1>2, <1>3, <1>4, <1>5 DEF Types, Tables, Stage

\* A step of one request that leaves the tables in type.
LEMMA TypesOfOne ==
    ASSUME Inv, Types, NEW r \in Requests, NEW new, request' = [request EXCEPT ![r] = new],
           Stage(r)', Tables'
    PROVE  Types'
<1>1. \A s \in Requests : s # r => request'[s] = request[s]
  BY DEF Inv, Shape
<1>2. \A s \in Requests : s # r => Stage(s)'
  BY <1>1 DEF Types, Stage
<1> QED
  BY <1>2 DEF Types

LEMMA TypesAnswer ==
    ASSUME Inv, Types, NEW r \in Requests, NEW answer \in {"refused", "done", "failed"},
           Answer(r, answer), Tables'
    PROVE  Types'
<1> DEFINE new == [Waiting EXCEPT !.pc = answer]
<1>1. request' = [request EXCEPT ![r] = new]
  BY DEF Answer
<1>2. new.pc = answer /\ new.call.op = "none"
  BY DEF Waiting
<1> HIDE DEF new
<1>3. request'[r] = new
  BY <1>1 DEF Inv, Shape
<1>4. Stage(r)'
  BY <1>2, <1>3 DEF Stage
<1> QED
  BY <1>1, <1>4, TypesOfOne

LEMMA TypesKept ==
    ASSUME Types, UNCHANGED <<account, code, chosenBy, spent>>, overlap' \in BOOLEAN
    PROVE  Tables'
  BY DEF Types, Tables, Present

LEMMA TypesBegin ==
    ASSUME Inv, Types, NEW r \in Requests, Begin(r)
    PROVE  Types'
<1>1. PICK call \in Calls :
         /\ IF Authorised(call)
            THEN request' = [request EXCEPT ![r] =
                                [pc |-> "reading", call |-> call, seen |-> @.seen]]
            ELSE Answer(r, "refused")
         /\ overlap' = (overlap \/ (Authorised(call) /\ InProgress # {}))
  BY DEF Begin
<1>2. overlap' \in BOOLEAN /\ UNCHANGED <<account, code, chosenBy, spent>>
  BY <1>1 DEF Begin, Types, Tables
<1>3. Tables'
  BY <1>2, TypesKept
<1>4. CASE ~Authorised(call)
  BY <1>1, <1>3, <1>4, TypesAnswer
<1>5. CASE Authorised(call)
  <2> DEFINE new == [pc |-> "reading", call |-> call, seen |-> request[r].seen]
  <2>1. request' = [request EXCEPT ![r] = new] /\ new.pc = "reading" /\ new.call = call
    BY <1>1, <1>5
  <2> HIDE DEF new
  <2>2. request'[r] = new
    BY <2>1 DEF Inv, Shape
  <2>3. /\ call.op \in AllOperations
        /\ call.op \in {"change", "reset", "script", "redeem", "create"} => call.new \in Passwords
        /\ call.op = "create" => call.name \in Names /\ call.role \in Roles
        /\ call.op = "update" => call.active \in BOOLEAN
    BY DEF Calls, AllOperations
  <2>4. Stage(r)'
    BY <2>1, <2>2, <2>3 DEF Stage
  <2> QED
    BY <1>3, <2>1, <2>4, TypesOfOne
<1> QED
  BY <1>4, <1>5

LEMMA TypesRead ==
    ASSUME Inv, Types, NEW r \in Requests, Read(r)
    PROVE  Types'
<1> DEFINE call == request[r].call
<1>1. /\ request[r].pc = "reading" /\ UNCHANGED <<account, code, chosenBy, spent, overlap>>
      /\ overlap \in BOOLEAN /\ r \in InProgress /\ call.op \in AllOperations
  BY DEF Read, Types, Tables, Inv, Validated, InProgress
<1>2. Tables'
  BY <1>1, TypesKept
<1>3. CASE ~Allowed(call)
  BY <1>2, <1>3, TypesAnswer DEF Read
<1>4. CASE Allowed(call)
  <2> DEFINE seen == IF call.op = "create" THEN request[r].seen ELSE account[Subject(call)]
             new == [pc |-> "writing", call |-> call, seen |-> seen]
  <2>1. request' = [request EXCEPT ![r] = new]
    BY <1>4 DEF Read
  <2>2. call.op # "create" => Subject(call) \in Present
    <3>1. call.op = "redeem" => code[call.code].row = "present" /\ call.code \in Codes
      BY <1>1, <1>4 DEF Allowed, Redeemable, Inv, Validated
    <3>2. call.op = "redeem" => Subject(call) \in Present
      BY <3>1 DEF Subject, Types, Tables
    <3>3. call.op = "change" => Subject(call) \in Present
      BY <1>4 DEF Allowed, ChangeAllowed, Subject
    <3>4. call.op \in {"reset", "script", "update", "forgot", "delete"} => Subject(call) \in Present
      BY <1>4 DEF Allowed, DeleteAllowed, Subject
    <3> QED
      BY <1>1, <3>2, <3>3, <3>4 DEF AllOperations
  <2>3. new.pc = "writing" /\ new.call = call /\ (call.op # "create" => new.seen.row = "present")
    BY <2>2 DEF Present
  <2> HIDE DEF new
  <2>4. request'[r] = new
    BY <2>1 DEF Inv, Shape
  <2>5. Stage(r)
    BY DEF Types
  <2>6. Stage(r)'
    BY <1>1, <2>3, <2>4, <2>5 DEF Stage
  <2> QED
    BY <1>2, <2>1, <2>6, TypesOfOne
<1> QED
  BY <1>3, <1>4

LEMMA TypesOverwrite ==
    ASSUME Types, NEW u \in Users, NEW role \in Roles, NEW active \in BOOLEAN,
           NEW password \in Passwords, NEW forced \in BOOLEAN,
           account' = Overwrite(u, role, active, password, forced)
    PROVE  account' \in [Users -> AccountRow] /\ Present' = Present
<1> DEFINE new == [row |-> account[u].row, name |-> account[u].name, role |-> role,
                   active |-> active, password |-> password, forced |-> forced]
<1>1. account \in [Users -> AccountRow]
  BY DEF Types, Tables
<1>2. new \in AccountRow /\ new.row = account[u].row
  BY <1>1 DEF AccountRow
<1>3. account' = [account EXCEPT ![u] = new]
  BY DEF Overwrite
<1> HIDE DEF new
<1>4. account' \in [Users -> AccountRow] /\ \A v \in Users : account'[v].row = account[v].row
  BY <1>1, <1>2, <1>3
<1> QED
  BY <1>4 DEF Present

\* A password that is written.
LEMMA TypesPassword ==
    ASSUME Types, NEW u \in Users, NEW seen, NEW password \in Passwords, NEW force \in BOOLEAN,
           account' = WritePassword(u, seen, password, force)
    PROVE  account' \in [Users -> AccountRow] /\ Present' = Present
<1> DEFINE forced == Column(seen.forced, force, account[u].forced)
<1>1. account[u] \in AccountRow
  BY DEF Types, Tables
<1>2. forced \in BOOLEAN /\ account[u].role \in Roles /\ account[u].active \in BOOLEAN
  BY <1>1 DEF Column, AccountRow
<1> HIDE DEF forced
<1>3. account' = Overwrite(u, account[u].role, account[u].active, password, forced)
  BY DEF WritePassword, forced
<1> QED
  BY <1>2, <1>3, TypesOverwrite

LEMMA TypesCommit ==
    ASSUME Inv, Types, NEW r \in Requests, Commit(r)
    PROVE  Types'
<1> DEFINE call == request[r].call
<1>1. /\ r \in InProgress /\ request[r].pc = "writing" /\ UNCHANGED overlap
      /\ overlap \in BOOLEAN /\ call.op \in AllOperations
  BY DEF Commit, InProgress, Types, Tables, Inv, Validated
<1>2. /\ account \in [Users -> AccountRow] /\ code \in [Codes -> CodeRow]
      /\ chosenBy \in [Users -> {"self", "another"}] /\ spent \in [Codes -> Nat]
      /\ \A c \in Codes : code[c].row = "present" => code[c].user \in Present
  BY DEF Types, Tables
<1>3. Stage(r)
  BY DEF Types
<1>4. CASE Gone(r)
  BY <1>1, <1>4, TypesKept, TypesAnswer DEF Gone
<1>5. ASSUME NEW u \in Users, CommitPassword(r, u), call.op \in {"change", "reset", "script"}
      PROVE  Types'
  <2>1. CASE u \in Present
    <3> DEFINE author == IF call.op = "change" THEN "self" ELSE "another"
    <3>1. /\ account' = WritePassword(u, request[r].seen, call.new, ~(call.op = "change"))
          /\ chosenBy' = [chosenBy EXCEPT ![u] = author]
          /\ Answer(r, "done") /\ UNCHANGED <<code, spent>>
      BY <1>5, <2>1 DEF CommitPassword
    <3>2. call.new \in Passwords
      BY <1>1, <1>3, <1>5 DEF Stage
    <3>3. account' \in [Users -> AccountRow] /\ Present' = Present
      <4>1. (~(call.op = "change")) \in BOOLEAN
        OBVIOUS
      <4> QED
        BY <3>1, <3>2, <4>1, TypesPassword
    <3>4. chosenBy' \in [Users -> {"self", "another"}]
      BY <1>2, <3>1
    <3>5. Tables'
      BY <1>1, <1>2, <3>1, <3>3, <3>4 DEF Tables
    <3> QED
      BY <3>1, <3>5, TypesAnswer
  <2> QED
    BY <1>4, <1>5, <2>1 DEF CommitPassword
<1>6. CASE call.op = "redeem" /\ CommitRedeem(r)
  <2>1. CASE code[call.code].row = "present"
    <3> DEFINE u == code[call.code].user
    <3>1. call.code \in Codes /\ u \in Present /\ u \in Users
      BY <1>1, <1>2, <1>6, <2>1 DEF Inv, Validated, Present
    <3>2. /\ account' = WritePassword(u, request[r].seen, call.new, TRUE)
          /\ code' = [code EXCEPT ![call.code].used = TRUE]
          /\ chosenBy' = [chosenBy EXCEPT ![u] = "another"]
          /\ spent' = [spent EXCEPT ![call.code] = @ + 1]
          /\ Answer(r, "done")
      BY <1>6, <2>1 DEF CommitRedeem, UseCode
    <3>3. call.new \in Passwords
      BY <1>1, <1>3, <1>6 DEF Stage
    <3>4. account' \in [Users -> AccountRow] /\ Present' = Present
      BY <3>1, <3>2, <3>3, TypesPassword
    <3>5. /\ code' \in [Codes -> CodeRow]
          /\ \A c \in Codes : code'[c].row = code[c].row /\ code'[c].user = code[c].user
      <4>1. PICK new : new = [code[call.code] EXCEPT !.used = TRUE]
        OBVIOUS
      <4>2. code[call.code] \in CodeRow
        BY <1>2, <3>1
      <4>3. new \in CodeRow /\ new.row = code[call.code].row /\ new.user = code[call.code].user
        BY <4>1, <4>2 DEF CodeRow
      <4>4. code' = [code EXCEPT ![call.code] = new]
        BY <3>2, <4>1
      <4> QED
        BY <1>2, <3>1, <4>3, <4>4
    <3>6. chosenBy' \in [Users -> {"self", "another"}] /\ spent' \in [Codes -> Nat]
      <4>1. chosenBy' \in [Users -> {"self", "another"}]
        BY <1>2, <3>1, <3>2
      <4>2. spent[call.code] + 1 \in Nat
        BY <1>2, <3>1
      <4>3. spent' = [spent EXCEPT ![call.code] = spent[call.code] + 1]
        BY <3>2
      <4> QED
        BY <1>2, <4>1, <4>2, <4>3
    <3>7. Tables'
      BY <1>1, <1>2, <3>4, <3>5, <3>6 DEF Tables
    <3> QED
      BY <3>2, <3>7, TypesAnswer
  <2> QED
    BY <1>4, <1>6, <2>1 DEF CommitRedeem
<1>7. CASE call.op = "forgot" /\ CommitForgot(r)
  <2> DEFINE u == call.target
  <2>1. CASE u \in Present
    <3>1. PICK c \in Codes : code' = [code EXCEPT ![c].row = "present", ![c].user = u]
      BY <1>7, <2>1 DEF CommitForgot
    <3>2. Answer(r, "done") /\ UNCHANGED <<account, chosenBy, spent>>
      BY <1>7, <2>1 DEF CommitForgot
    <3>3. u \in Users
      BY <2>1 DEF Present
    <3>4. /\ code' \in [Codes -> CodeRow] /\ code'[c].user = u
          /\ \A d \in Codes : d # c => code'[d] = code[d]
      <4>1. PICK new : new = [code[c] EXCEPT !.row = "present", !.user = u]
        OBVIOUS
      <4>2. code[c] \in CodeRow
        BY <1>2
      <4>3. new \in CodeRow /\ new.user = u
        BY <3>3, <4>1, <4>2 DEF CodeRow, Rows
      <4>4. code' = [code EXCEPT ![c] = new]
        BY <1>2, <3>1, <4>1
      <4> QED
        BY <1>2, <4>3, <4>4
    <3>5. Present' = Present
      BY <3>2 DEF Present
    <3>6. Tables'
      BY <1>1, <1>2, <2>1, <3>2, <3>4, <3>5 DEF Tables
    <3> QED
      BY <3>2, <3>6, TypesAnswer
  <2> QED
    BY <1>4, <1>7, <2>1 DEF CommitForgot
<1>8. CASE call.op = "create" /\ CommitCreate(r)
  <2>1. CASE ~Gone(r)
    <3> DEFINE new == Account("present", call.name, call.role, call.new)
    <3>1. PICK u \in Users : account' = [account EXCEPT ![u] = new]
      BY <1>8, <2>1 DEF CommitCreate
    <3>2. Answer(r, "done") /\ UNCHANGED <<code, chosenBy, spent>>
      BY <1>8, <2>1 DEF CommitCreate
    <3>3. new \in AccountRow /\ new.row = "present"
      BY <1>1, <1>3, <1>8 DEF Stage, Account, AccountRow, Rows
    <3> HIDE DEF new
    <3>4. account' \in [Users -> AccountRow] /\ \A v \in Present : v \in Present'
      BY <1>2, <3>1, <3>3 DEF Present
    <3>5. Tables'
      BY <1>1, <1>2, <3>2, <3>4 DEF Tables
    <3> QED
      BY <3>2, <3>5, TypesAnswer
  <2> QED
    BY <1>4, <1>8, <2>1 DEF CommitCreate
<1>9. CASE call.op = "update" /\ CommitUpdate(r)
  <2> DEFINE u == call.target
             seen == request[r].seen
             role == Column(seen.role, call.role, account[u].role)
             active == Column(seen.active, call.active, account[u].active)
  <2>1. CASE ~Gone(r)
    <3>1. account' = Overwrite(u, role, active, account[u].password, account[u].forced)
          /\ Answer(r, "done") /\ UNCHANGED <<code, chosenBy, spent>> /\ u \in Present
      BY <1>9, <2>1 DEF CommitUpdate
    <3>2. u \in Users /\ account[u] \in AccountRow
      BY <1>2, <3>1 DEF Present
    <3>3. call.role \in Roles /\ call.active \in BOOLEAN
      BY <1>1, <1>3, <1>9 DEF Inv, Validated, Stage
    <3>4. /\ role \in Roles /\ active \in BOOLEAN
          /\ account[u].password \in Passwords /\ account[u].forced \in BOOLEAN
      BY <3>2, <3>3 DEF Column, AccountRow
    <3> HIDE DEF role, active
    <3>5. account' \in [Users -> AccountRow] /\ Present' = Present
      BY <3>1, <3>2, <3>4, TypesOverwrite
    <3>6. Tables'
      BY <1>1, <1>2, <3>1, <3>5 DEF Tables
    <3> QED
      BY <3>1, <3>6, TypesAnswer
  <2> QED
    BY <1>4, <1>9, <2>1 DEF CommitUpdate
<1>10. CASE call.op = "delete" /\ CommitDelete(r)
  <2> DEFINE u == call.target
  <2>1. /\ account' = [account EXCEPT ![u].row = "deleted"] /\ code' = DropCodes(u)
        /\ Answer(r, "done") /\ UNCHANGED <<chosenBy, spent>>
    BY <1>10 DEF CommitDelete
  <2>2. u \in Users
    BY <1>1, <1>10 DEF Inv, Validated
  <2>3. account' \in [Users -> AccountRow]
    <3>1. PICK new : new = [account[u] EXCEPT !.row = "deleted"]
      OBVIOUS
    <3>2. account[u] \in AccountRow
      BY <1>2, <2>2
    <3>3. new \in AccountRow
      BY <3>1, <3>2 DEF AccountRow, Rows
    <3>4. account' = [account EXCEPT ![u] = new]
      BY <2>1, <3>1
    <3> QED
      BY <1>2, <3>3, <3>4
  <2>4. Present' = Present \ {u}
    BY <2>1, <2>2, Deleted
  <2>5. /\ code' \in [Codes -> CodeRow]
        /\ \A c \in Codes : code'[c].user = code[c].user
        /\ \A c \in Codes : code[c].user = u => code'[c].row = "deleted"
        /\ \A c \in Codes : code[c].user # u => code'[c].row = code[c].row
    BY <1>2, <2>1 DEF DropCodes, CodeRow, Rows
  <2>6. Tables'
    BY <1>1, <1>2, <2>1, <2>3, <2>4, <2>5 DEF Tables
  <2> QED
    BY <2>1, <2>6, TypesAnswer
<1>11. CASE call.op = "change" /\ CommitPassword(r, call.actor)
  BY <1>1, <1>5, <1>11 DEF Inv, Validated
<1>12. CASE call.op \in {"reset", "script"} /\ CommitPassword(r, call.target)
  BY <1>1, <1>5, <1>12 DEF Inv, Validated
<1> QED
  BY <1>1, <1>6, <1>7, <1>8, <1>9, <1>10, <1>11, <1>12 DEF Commit, AllOperations

LEMMA TypesNext == Inv /\ Types /\ [Next]_vars => Types'
<1> SUFFICES ASSUME Inv, Types, [Next]_vars PROVE Types'
  OBVIOUS
<1>1. ASSUME NEW c \in Codes, Expire(c) PROVE Types'
  <2>1. /\ code' = [code EXCEPT ![c].expired = TRUE]
        /\ UNCHANGED <<account, request, chosenBy, spent, overlap>>
    BY <1>1 DEF Expire
  <2>2. /\ code' \in [Codes -> CodeRow]
        /\ \A d \in Codes : code'[d].row = code[d].row /\ code'[d].user = code[d].user
    BY <2>1 DEF Types, Tables, CodeRow
  <2>3. Tables'
    BY <2>1, <2>2 DEF Types, Tables, Present
  <2> QED
    BY <2>1, <2>3 DEF Types, Stage
<1>2. CASE UNCHANGED vars
  BY <1>2 DEF vars, Types, Tables, Present, Stage
<1> QED
  BY <1>1, <1>2, TypesBegin, TypesRead, TypesCommit DEF Next, Finished

\* Whatever requests overlap, and whatever text is given for a role, rows keep their
\* columns, a code belongs to an account, and a handler that goes on to write has found
\* its row.
THEOREM TypeCorrect == Spec => []TypeOK
<1>1. Types => TypeOK
  BY DEF Types, Tables, Stage, TypeOK, AccountRow, CodeRow, Rows
<1>2. Init => Types
  BY TypesInit
<1>3. Inv /\ Types /\ [Next]_vars => Types'
  BY TypesNext
<1> QED
  BY <1>1, <1>2, <1>3, InvAlways, PTL DEF Spec

-----------------------------------------------------------------------------
(* The codes *)

\* How many requests may be between their check and their commit, and those that are
\* about to use code c.
Limit == IF overlap THEN Workers ELSE 1
Redeemers(c) ==
    {r \in InProgress : /\ request[r].pc = "writing" /\ request[r].call.op = "redeem"
                        /\ request[r].call.code = c}

\* A code that is used finds no new redeemers: those that remain have checked it before.
SpentInTime(c) ==
    /\ IsFiniteSet(Redeemers(c)) /\ Limit \in Nat
    /\ code[c].used => spent[c] + Cardinality(Redeemers(c)) <= Limit
    /\ ~code[c].used => spent[c] = 0

Crew == IsFiniteSet(InProgress) /\ Cardinality(InProgress) <= Limit

Spending == Crew /\ \A c \in Codes : SpentInTime(c)

LEMMA LimitIs == ASSUME Types PROVE Limit \in Nat
  BY AccountsAssumption DEF Types, Tables, Limit

LEMMA SpendingInit == Init => Spending
<1> SUFFICES ASSUME Init PROVE Spending
  OBVIOUS
<1>1. Waiting.pc = "idle" /\ Free.used = FALSE
  BY DEF Waiting, Free
<1>2. InProgress = {} /\ overlap = FALSE
  BY <1>1 DEF Init, InProgress
<1>3. \A c \in Codes : Redeemers(c) = {} /\ spent[c] = 0 /\ code[c].used = FALSE
  BY <1>1, <1>2 DEF Init, Redeemers
<1>4. IsFiniteSet({}) /\ Cardinality({}) = 0 /\ Limit = 1
  BY <1>2, FS_EmptySet DEF Limit
<1> QED
  BY <1>2, <1>3, <1>4 DEF Spending, Crew, SpentInTime

\* A step that spends no code, and lets nobody redeem one that is used.
LEMMA SpendsNothing ==
    ASSUME Types, Spending, Limit' \in Nat, Limit <= Limit', Crew', UNCHANGED spent,
           \A c \in Codes : code'[c].used = code[c].used,
           \A c \in Codes : code[c].used => Redeemers(c)' \subseteq Redeemers(c)
    PROVE  Spending'
<1>1. ASSUME NEW c \in Codes PROVE SpentInTime(c)'
  <2>1. IsFiniteSet(InProgress') /\ Redeemers(c)' \subseteq InProgress'
    BY DEF Crew, Redeemers
  <2>2. IsFiniteSet(Redeemers(c)') /\ Cardinality(Redeemers(c)') \in Nat
    BY <2>1, FS_Subset, FS_CardinalityType
  <2>3. CASE code[c].used
    <3>1. /\ IsFiniteSet(Redeemers(c)) /\ Cardinality(Redeemers(c)) \in Nat
          /\ spent[c] + Cardinality(Redeemers(c)) <= Limit
      BY <2>3, FS_CardinalityType DEF Spending, SpentInTime
    <3>2. Cardinality(Redeemers(c)') <= Cardinality(Redeemers(c))
      BY <2>3, <3>1, FS_Subset
    <3>3. spent[c] \in Nat /\ spent'[c] = spent[c] /\ Limit \in Nat
      BY LimitIs DEF Types, Tables
    <3>4. spent'[c] + Cardinality(Redeemers(c)') <= Limit'
      BY <2>2, <3>1, <3>2, <3>3
    <3> QED
      BY <2>2, <2>3, <3>4 DEF SpentInTime
  <2>4. CASE ~code[c].used
    BY <2>2, <2>4 DEF Spending, SpentInTime
  <2> QED
    BY <2>3, <2>4
<1> QED
  BY <1>1 DEF Spending

\* The end of a request.
LEMMA CrewShrinks ==
    ASSUME Inv, Types, Spending, NEW r \in InProgress, UNCHANGED overlap,
           NEW answer \in {"refused", "done", "failed"}, Answer(r, answer)
    PROVE  /\ Crew' /\ Limit' = Limit /\ Limit \in Nat
           /\ \A c \in Codes : Redeemers(c)' = Redeemers(c) \ {r}
<1>1. r \in Requests
  BY DEF InProgress
<1>2. InProgress' = InProgress \ {r} /\ \A s \in Requests : s # r => request'[s] = request[s]
  BY <1>1, Ends
<1>3. Limit' = Limit /\ Limit \in Nat
  BY LimitIs DEF Limit
<1>4. /\ IsFiniteSet(InProgress) /\ Cardinality(InProgress) \in Nat
      /\ Cardinality(InProgress) <= Limit
  BY FS_CardinalityType DEF Spending, Crew
<1>5. IsFiniteSet(InProgress \ {r}) /\ Cardinality(InProgress \ {r}) = Cardinality(InProgress) - 1
  BY <1>4, FS_RemoveElement
<1>6. Crew'
  BY <1>2, <1>3, <1>4, <1>5 DEF Crew
<1>7. \A s \in InProgress' : s \in Requests /\ s # r
  BY <1>2 DEF InProgress
<1>8. \A c \in Codes : Redeemers(c)' = Redeemers(c) \ {r}
  BY <1>2, <1>7 DEF Redeemers
<1> QED
  BY <1>3, <1>6, <1>8

LEMMA SpendingBegin ==
    ASSUME Inv, Types, Spending, NEW r \in Requests, Begin(r)
    PROVE  Spending'
<1>1. /\ request[r].pc = "idle" /\ r \notin InProgress /\ Cardinality(InProgress) < Workers
      /\ UNCHANGED <<account, code, chosenBy, spent>>
  BY DEF Begin, InProgress
<1>2. PICK call \in Calls :
         /\ IF Authorised(call)
            THEN request' = [request EXCEPT ![r] =
                                [pc |-> "reading", call |-> call, seen |-> @.seen]]
            ELSE Answer(r, "refused")
         /\ overlap' = (overlap \/ (Authorised(call) /\ InProgress # {}))
  BY DEF Begin
<1>3. /\ IsFiniteSet(InProgress) /\ Cardinality(InProgress) \in Nat /\ Workers \in Nat
      /\ Cardinality(InProgress) <= Limit /\ Limit \in Nat
      /\ overlap \in BOOLEAN /\ overlap' \in BOOLEAN
      /\ (Cardinality(InProgress) = 0 <=> InProgress = {})
  BY <1>2, LimitIs, AccountsAssumption, FS_CardinalityType, FS_EmptySet
     DEF Spending, Crew, Types, Tables
<1>4. CASE ~Authorised(call)
  <2>1. /\ InProgress' = InProgress \ {r} /\ UNCHANGED overlap
        /\ \A s \in Requests : s # r => request'[s] = request[s]
    BY <1>2, <1>3, <1>4, Ends
  <2>2. InProgress' = InProgress /\ \A s \in InProgress : s \in Requests /\ s # r
    BY <1>1, <2>1 DEF InProgress
  <2>3. Crew' /\ Limit' = Limit
    BY <1>3, <2>1, <2>2 DEF Crew, Limit
  <2>4. \A c \in Codes : Redeemers(c)' = Redeemers(c)
    BY <2>1, <2>2 DEF Redeemers
  <2> QED
    BY <1>1, <1>3, <2>3, <2>4, SpendsNothing
<1>5. CASE Authorised(call)
  <2> DEFINE new == [pc |-> "reading", call |-> call, seen |-> request[r].seen]
  <2>1. request' = [request EXCEPT ![r] = new] /\ IsRequest(new) /\ new.pc = "reading"
    BY <1>2, <1>5 DEF IsRequest
  <2> HIDE DEF new
  <2>2. /\ request'[r] = new /\ InProgress' \ {r} = InProgress \ {r}
        /\ \A s \in Requests : s # r => request'[s] = request[s]
    BY <2>1, Moves
  <2>3. InProgress' = InProgress \cup {r}
    BY <1>1, <2>1, <2>2 DEF InProgress
  <2>4. /\ IsFiniteSet(InProgress \cup {r})
        /\ Cardinality(InProgress \cup {r}) = Cardinality(InProgress) + 1
    BY <1>1, <1>3, FS_AddElement
  <2>5. Limit' \in Nat /\ Limit <= Limit' /\ Cardinality(InProgress) + 1 <= Limit'
    <3>1. CASE InProgress = {}
      <4>1. overlap' = overlap /\ Cardinality(InProgress) = 0
        BY <1>2, <1>3, <3>1
      <4> QED
        BY <1>1, <1>3, <4>1 DEF Limit
    <3>2. CASE InProgress # {}
      <4>1. Cardinality(InProgress) > 0
        BY <1>3, <3>2
      <4>2. overlap'
        BY <1>2, <1>5, <3>2, Zenon
      <4> QED
        BY <1>1, <1>3, <4>1, <4>2 DEF Limit
    <3> QED
      BY <3>1, <3>2
  <2>6. Crew'
    BY <2>3, <2>4, <2>5 DEF Crew
  <2>7. \A s \in InProgress' : s # r => s \in InProgress /\ request'[s] = request[s]
    BY <2>2, <2>3 DEF InProgress
  <2>8. \A c \in Codes : Redeemers(c)' \subseteq Redeemers(c)
    BY <2>1, <2>2, <2>7 DEF Redeemers
  <2> QED
    BY <1>1, <2>5, <2>6, <2>8, SpendsNothing
<1> QED
  BY <1>4, <1>5

LEMMA SpendingRead ==
    ASSUME Inv, Types, Spending, NEW r \in Requests, Read(r)
    PROVE  Spending'
<1> DEFINE call == request[r].call
<1>1. /\ request[r].pc = "reading" /\ UNCHANGED <<account, code, chosenBy, spent, overlap>>
      /\ r \in InProgress
  BY DEF Read, InProgress
<1>2. CASE ~Allowed(call)
  <2>1. Answer(r, "refused")
    BY <1>2 DEF Read
  <2>2. /\ Crew' /\ Limit' = Limit /\ Limit \in Nat
        /\ \A c \in Codes : Redeemers(c)' = Redeemers(c) \ {r}
    BY <1>1, <2>1, CrewShrinks
  <2> QED
    BY <1>1, <2>2, SpendsNothing
<1>3. CASE Allowed(call)
  <2> DEFINE seen == IF call.op = "create" THEN request[r].seen ELSE account[Subject(call)]
             new == [pc |-> "writing", call |-> call, seen |-> seen]
  <2>1. request' = [request EXCEPT ![r] = new]
    BY <1>3 DEF Read
  <2>2. IsRequest(new) /\ new.pc = "writing" /\ new.call = call
    BY DEF IsRequest
  <2> HIDE DEF new
  <2>3. /\ request'[r] = new /\ InProgress' \ {r} = InProgress \ {r}
        /\ \A s \in Requests : s # r => request'[s] = request[s]
    BY <2>1, <2>2, Moves
  <2>4. InProgress' = InProgress
    BY <1>1, <2>2, <2>3 DEF InProgress
  <2>5. Crew' /\ Limit' = Limit /\ Limit \in Nat
    BY <1>1, <2>4, LimitIs DEF Spending, Crew, Limit
  <2>6. ASSUME NEW c \in Codes, code[c].used PROVE Redeemers(c)' \subseteq Redeemers(c)
    <3>1. ~(call.op = "redeem" /\ call.code = c)
      BY <1>3, <2>6 DEF Allowed, Redeemable
    <3>2. \A s \in InProgress : s # r => request'[s] = request[s]
      BY <2>3 DEF InProgress
    <3> QED
      BY <2>2, <2>3, <2>4, <3>1, <3>2 DEF Redeemers
  <2> QED
    BY <1>1, <2>5, <2>6, SpendsNothing
<1> QED
  BY <1>2, <1>3

\* The commit that uses the code.
LEMMA SpendingRedeem ==
    ASSUME Inv, Types, Spending, NEW r \in InProgress, request[r].pc = "writing",
           UNCHANGED overlap, request[r].call.op = "redeem", NEW k, k = request[r].call.code,
           code[k].row = "present", CommitRedeem(r)
    PROVE  Spending'
<1>1. /\ code' = [code EXCEPT ![k].used = TRUE] /\ spent' = [spent EXCEPT ![k] = @ + 1]
      /\ Answer(r, "done")
  BY DEF CommitRedeem, UseCode
<1>2. k \in Codes /\ code \in [Codes -> CodeRow] /\ spent \in [Codes -> Nat]
  BY DEF Inv, Validated, Types, Tables
<1>3. /\ Crew' /\ Limit' = Limit /\ Limit \in Nat
      /\ \A c \in Codes : Redeemers(c)' = Redeemers(c) \ {r}
  BY <1>1, CrewShrinks
<1>4. ASSUME NEW c \in Codes
      PROVE  /\ IsFiniteSet(Redeemers(c)) /\ Cardinality(Redeemers(c)) \in Nat
             /\ Cardinality(Redeemers(c)) <= Limit
             /\ IsFiniteSet(Redeemers(c) \ {r})
             /\ Cardinality(Redeemers(c) \ {r}) =
                   IF r \in Redeemers(c) THEN Cardinality(Redeemers(c)) - 1
                   ELSE Cardinality(Redeemers(c))
  <2>1. /\ IsFiniteSet(InProgress) /\ Redeemers(c) \subseteq InProgress
        /\ Cardinality(InProgress) <= Limit
    BY DEF Spending, Crew, Redeemers
  <2>2. /\ IsFiniteSet(Redeemers(c)) /\ Cardinality(Redeemers(c)) <= Cardinality(InProgress)
    BY <2>1, FS_Subset
  <2>3. Cardinality(Redeemers(c)) \in Nat /\ Cardinality(InProgress) \in Nat
    BY <2>1, <2>2, FS_CardinalityType
  <2> QED
    BY <1>3, <2>1, <2>2, <2>3, FS_RemoveElement
<1>5. r \in Redeemers(k) /\ \A c \in Codes : c # k => r \notin Redeemers(c)
  BY DEF Redeemers
<1>6. SpentInTime(k)'
  <2>1. code'[k].used = TRUE /\ spent'[k] = spent[k] + 1
    BY <1>1, <1>2 DEF CodeRow
  <2>2. Cardinality(Redeemers(k)') = Cardinality(Redeemers(k)) - 1 /\ IsFiniteSet(Redeemers(k)')
    BY <1>2, <1>3, <1>4, <1>5
  <2>3. spent[k] + Cardinality(Redeemers(k)) <= Limit
    <3>1. spent[k] \in Nat /\ code[k].used \in BOOLEAN
      BY <1>2 DEF CodeRow
    <3>2. Cardinality(Redeemers(k)) \in Nat /\ Cardinality(Redeemers(k)) <= Limit
      BY <1>2, <1>4
    <3>3. SpentInTime(k)
      BY <1>2 DEF Spending
    <3> QED
      BY <1>3, <3>1, <3>2, <3>3 DEF SpentInTime
  <2>4. Cardinality(Redeemers(k)) \in Nat /\ spent[k] \in Nat
    BY <1>2, <1>4
  <2>5. spent'[k] + Cardinality(Redeemers(k)') <= Limit'
    BY <1>3, <2>1, <2>2, <2>3, <2>4
  <2> QED
    BY <1>3, <2>1, <2>2, <2>5 DEF SpentInTime
<1>7. ASSUME NEW c \in Codes, c # k PROVE SpentInTime(c)'
  <2>1. code'[c] = code[c] /\ spent'[c] = spent[c] /\ Redeemers(c)' = Redeemers(c)
    <3>1. code'[c] = code[c]
      BY <1>1, <1>2, <1>7
    <3>2. spent'[c] = spent[c]
      BY <1>1, <1>2, <1>7
    <3>3. Redeemers(c)' = Redeemers(c) \ {r} /\ r \notin Redeemers(c)
      BY <1>3, <1>5, <1>7
    <3>4. Redeemers(c) \ {r} = Redeemers(c)
      BY <3>3
    <3> QED
      BY <3>1, <3>2, <3>3, <3>4
  <2>2. SpentInTime(c)
    BY DEF Spending
  <2> QED
    BY <1>3, <2>1, <2>2 DEF SpentInTime
<1> QED
  BY <1>3, <1>6, <1>7 DEF Spending

LEMMA SpendingCommit ==
    ASSUME Inv, Types, Spending, NEW r \in Requests, Commit(r)
    PROVE  Spending'
<1> DEFINE call == request[r].call
<1>1. /\ r \in InProgress /\ request[r].pc = "writing" /\ UNCHANGED overlap
      /\ call.op \in AllOperations /\ code \in [Codes -> CodeRow]
  BY DEF Commit, InProgress, Inv, Validated, Types, Tables
<1>2. ASSUME NEW answer \in {"done", "failed"}, Answer(r, answer), UNCHANGED spent,
             \A c \in Codes : code'[c].used = code[c].used
      PROVE  Spending'
  <2>1. /\ Crew' /\ Limit' = Limit /\ Limit \in Nat
        /\ \A c \in Codes : Redeemers(c)' = Redeemers(c) \ {r}
    BY <1>1, <1>2, CrewShrinks
  <2> QED
    BY <1>2, <2>1, SpendsNothing
<1>3. CASE Gone(r)
  BY <1>2, <1>3 DEF Gone
<1>4. ASSUME NEW u, CommitPassword(r, u) PROVE Spending'
  BY <1>2, <1>3, <1>4 DEF CommitPassword
<1>5. CASE call.op = "redeem" /\ CommitRedeem(r)
  BY <1>1, <1>3, <1>5, SpendingRedeem DEF CommitRedeem
<1>6. CASE CommitForgot(r)
  <2>1. CASE call.target \in Present
    <3>1. PICK c \in Codes : code' = [code EXCEPT ![c].row = "present", ![c].user = call.target]
      BY <1>6, <2>1 DEF CommitForgot
    <3>2. \A d \in Codes : code'[d].used = code[d].used
      BY <1>1, <3>1 DEF CodeRow
    <3> QED
      BY <1>2, <1>6, <2>1, <3>2 DEF CommitForgot
  <2> QED
    BY <1>3, <1>6, <2>1 DEF CommitForgot
<1>7. CASE CommitCreate(r)
  BY <1>2, <1>3, <1>7 DEF CommitCreate
<1>8. CASE CommitUpdate(r)
  BY <1>2, <1>3, <1>8 DEF CommitUpdate
<1>9. CASE CommitDelete(r)
  <2>1. \A c \in Codes : DropCodes(call.target)[c].used = code[c].used
    BY <1>1 DEF DropCodes, CodeRow
  <2> QED
    BY <1>2, <1>9, <2>1 DEF CommitDelete
<1> QED
  BY <1>1, <1>4, <1>5, <1>6, <1>7, <1>8, <1>9 DEF Commit, AllOperations

LEMMA SpendingNext == Inv /\ Types /\ Spending /\ [Next]_vars => Spending'
<1> SUFFICES ASSUME Inv, Types, Spending, [Next]_vars PROVE Spending'
  OBVIOUS
<1>1. ASSUME UNCHANGED <<request, overlap, spent>>,
             \A c \in Codes : code'[c].used = code[c].used
      PROVE  Spending'
  <2>1. InProgress' = InProgress /\ Limit' = Limit /\ Limit \in Nat
    BY <1>1, LimitIs DEF InProgress, Limit
  <2>2. Crew' /\ \A c \in Codes : Redeemers(c)' = Redeemers(c)
    BY <1>1, <2>1 DEF Spending, Crew, Redeemers
  <2> QED
    BY <1>1, <2>1, <2>2, SpendsNothing
<1>2. ASSUME NEW c \in Codes, Expire(c) PROVE Spending'
  <2>1. /\ code' = [code EXCEPT ![c].expired = TRUE] /\ UNCHANGED <<request, overlap, spent>>
        /\ code \in [Codes -> CodeRow]
    BY <1>2 DEF Expire, Types, Tables
  <2>2. \A d \in Codes : code'[d].used = code[d].used
    BY <2>1 DEF CodeRow
  <2> QED
    BY <1>1, <2>1, <2>2
<1>3. CASE UNCHANGED vars
  BY <1>1, <1>3 DEF vars
<1> QED
  BY <1>2, <1>3, SpendingBegin, SpendingRead, SpendingCommit DEF Next, Finished

\* reset_password_with_token looks at a code, hashes, and marks it used: what a code can
\* set more than once is what was checked before it was first used, and that is no more
\* than the requests in progress.
THEOREM CodesSpentOnce == Spec => []CodesAreSpentOnce
<1>1. ASSUME Types, Spending PROVE CodesAreSpentOnce
  <2> SUFFICES ASSUME NEW c \in Codes PROVE spent[c] <= Limit
    BY DEF CodesAreSpentOnce, Limit
  <2>1. /\ spent[c] \in Nat /\ code[c].used \in BOOLEAN /\ Limit \in Nat
        /\ SpentInTime(c)
    BY <1>1, LimitIs DEF Types, Tables, CodeRow, Spending
  <2>2. Cardinality(Redeemers(c)) \in Nat
    BY <2>1, FS_CardinalityType DEF SpentInTime
  <2> QED
    BY <2>1, <2>2 DEF SpentInTime
<1>2. Init => Types /\ Spending
  BY TypesInit, SpendingInit
<1>3. Inv /\ Types /\ Spending /\ [Next]_vars => Types' /\ Spending'
  BY TypesNext, SpendingNext
<1> QED
  BY <1>1, <1>2, <1>3, InvAlways, PTL DEF Spec
=============================================================================
