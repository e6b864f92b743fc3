------------------------------ MODULE Accounts ------------------------------
(***************************************************************************)
(* User accounts: the handlers of /auth and /admin/users, the functions of *)
(* src/api/middleware/auth.py behind them and scripts/reset_password.py.   *)
(* A request is authorised, then its handler reads, hashes a password for  *)
(* a good while, and commits; other requests run in between.               *)
(*                                                                         *)
(* A commit writes the columns that the handler has given another value    *)
(* than it read.  A hash is salted, so the password is always written.     *)
(***************************************************************************)
EXTENDS Naturals, FiniteSets

CONSTANTS
    Users,      \* ids of accounts
    Names, Passwords,
    Codes,      \* reset codes
    Requests,   \* requests; each is made once
    Workers,    \* how many may be in progress
    Operations, \* the operations that are called
    Administrators, Analysts,  \* the accounts of the seed
    NameOf      \* and their names

\* "other" is any text that ROLE_PERMISSIONS does not list: role is a free string in the
\* bodies of create and update, and in the table.
Roles == {"analyst", "senior_analyst", "admin", "other"}
AllOperations == {"change", "reset", "forgot", "redeem", "create", "update", "delete", "script"}

ASSUME AccountsAssumption ==
    /\ Administrators \cup Analysts \subseteq Users
    /\ Administrators \cap Analysts = {}
    /\ NameOf \in [Users -> Names]
    /\ \A u, v \in Administrators \cup Analysts : NameOf[u] = NameOf[v] => u = v
    /\ Operations \subseteq AllOperations
    /\ Workers \in Nat

VARIABLES
    account,  \* the users table
    code,     \* the password_reset_tokens table
    request,
    chosenBy, \* who chose the password of an account: its user, or another
    spent,    \* how many passwords a code has set
    overlap   \* whether two requests were ever in progress at once

vars == <<account, code, request, chosenBy, spent, overlap>>

Nobody == "nobody"

ROLE_PERMISSIONS ==
    LET analyst == {"view_incidents", "view_alerts", "run_analysis", "export_reports",
                    "view_dashboard"}
        senior == analyst \cup {"adjust_scores", "merge_incidents", "split_incidents",
                                "manage_webhooks", "add_notes"}
    IN  [role \in Roles |->
            CASE role = "analyst" -> analyst
              [] role = "senior_analyst" -> senior
              [] role = "admin" -> senior \cup {"manage_dlq", "manage_users", "view_config",
                                                "delete_data"}
              [] OTHER -> {}]

\* The permission that an operation requires; the others are open to everyone.
Required == [change |-> "view_dashboard", reset |-> "manage_users",
             create |-> "manage_users", update |-> "manage_users", delete |-> "manage_users"]

Account(row, name, role, password) ==
    [row |-> row, name |-> name, role |-> role, active |-> TRUE, password |-> password,
     forced |-> TRUE]

Present == {u \in Users : account[u].row = "present"}
Admins == {u \in Present : account[u].role = "admin" /\ account[u].active}

Free == [row |-> "free", user |-> Nobody, used |-> FALSE, expired |-> FALSE]
Waiting == [pc |-> "idle", call |-> [op |-> "none"], seen |-> [row |-> "free"]]
InProgress == {r \in Requests : request[r].pc \in {"reading", "writing"}}

Init ==
    \E p \in Passwords :
        /\ account = [u \in Users |->
              Account(IF u \in Administrators \cup Analysts THEN "present" ELSE "free",
                      NameOf[u], IF u \in Administrators THEN "admin" ELSE "analyst", p)]
        /\ code = [c \in Codes |-> Free]
        /\ request = [r \in Requests |-> Waiting]
        /\ chosenBy = [u \in Users |-> "another"]
        /\ spent = [c \in Codes |-> 0]
        /\ overlap = FALSE

Answer(r, answer) == request' = [request EXCEPT ![r] = [Waiting EXCEPT !.pc = answer]]

\* Bound: as many accounts and codes are created as there are ids.
Spare(op) ==
    LET pending == Cardinality({r \in InProgress : request[r].call.op = op}) IN
    CASE op = "forgot" -> Cardinality({c \in Codes : code[c].row = "free"}) > pending
      [] op = "create" -> Cardinality({u \in Users : account[u].row = "free"}) > pending
      [] OTHER -> TRUE

\* What clients may ask for.  Ids and codes are made up by the operations.
Calls ==
    [op : {"change"}, actor : Present, old : Passwords, new : Passwords]
    \cup [op : {"reset"}, actor : Present, target : Users, new : Passwords]
    \cup [op : {"script"}, target : Users, new : Passwords]
    \cup [op : {"forgot"}, target : Users]
    \cup [op : {"redeem"}, code : {c \in Codes : code[c].row # "free"}, new : Passwords]
    \cup [op : {"create"}, actor : Present, name : Names, role : Roles, new : Passwords]
    \cup [op : {"update"}, actor : Present, target : Users, role : Roles, active : BOOLEAN]
    \cup [op : {"delete"}, actor : Present, target : Users]

\* get_current_user and require_permission look at the row, not at the token's role.
Authorised(call) ==
    call.op \in DOMAIN Required =>
        /\ call.actor \in Present /\ account[call.actor].active
        /\ Required[call.op] \in ROLE_PERMISSIONS[account[call.actor].role]

Begin(r) ==
    /\ request[r].pc = "idle" /\ Cardinality(InProgress) < Workers
    /\ \E call \in Calls :
           /\ call.op \in Operations /\ Spare(call.op)
           /\ IF Authorised(call)
              THEN request' = [request EXCEPT ![r] =
                                  [pc |-> "reading", call |-> call, seen |-> @.seen]]
              ELSE Answer(r, "refused")
           /\ overlap' = (overlap \/ (Authorised(call) /\ InProgress # {}))
    /\ UNCHANGED <<account, code, chosenBy, spent>>

(* -- What a handler reads ---------------------------------------------- *)

\* change_password
ChangeAllowed(call) ==
    /\ call.actor \in Present
    /\ account[call.actor].password = call.old /\ call.new # call.old

\* reset_password_with_token
Redeemable(c) == code[c].row = "present" /\ ~code[c].used /\ ~code[c].expired

\* (variant without the comparison of the ids)
DeleteAnyone(call) == call.target \in Present
\* (variant that does not look whether there is an account)
DeleteUnseen(call) == call.target # call.actor
\* admin_delete_user
DeleteAllowed(call) == call.target \in Present /\ call.target # call.actor

\* The handler's checks, and the row it reads.
Allowed(call) ==
    CASE call.op = "change" -> ChangeAllowed(call)
      [] call.op \in {"reset", "script", "update"} -> call.target \in Present
      [] call.op = "forgot" -> call.target \in Present /\ account[call.target].active
      [] call.op = "redeem" -> Redeemable(call.code)
      [] call.op = "create" -> \A u \in Present : account[u].name # call.name
      [] call.op = "delete" -> DeleteAllowed(call)

\* The account that a call is about.
Subject(call) ==
    CASE call.op = "change" -> call.actor
      [] call.op = "redeem" -> code[call.code].user
      [] OTHER -> call.target

Read(r) ==
    LET call == request[r].call IN
    /\ request[r].pc = "reading"
    /\ IF ~Allowed(call) THEN Answer(r, "refused")
       ELSE request' = [request EXCEPT ![r] =
                [pc |-> "writing", call |-> call,
                 seen |-> IF call.op = "create" THEN @.seen ELSE account[Subject(call)]]]
    /\ UNCHANGED <<account, code, chosenBy, spent, overlap>>

(* -- What it commits ---------------------------------------------------- *)

\* UPDATE of the columns that differ from what was read.
Column(seen, new, now) == IF new = seen THEN now ELSE new

\* An UPDATE of row u; no handler renames an account.
Overwrite(u, role, active, password, forced) ==
    [account EXCEPT ![u] = [row |-> @.row, name |-> @.name, role |-> role, active |-> active,
                            password |-> password, forced |-> forced]]

\* (variant that clears the flag and does not set it)
OnlyClears(u, seen, new, force) ==
    Overwrite(u, account[u].role, account[u].active, new, account[u].forced /\ force)
\* A password and force_password_change.
WritePassword(u, seen, new, force) ==
    Overwrite(u, account[u].role, account[u].active, new,
              Column(seen.forced, force, account[u].forced))

\* A flush that finds its row gone raises.
Gone(r) == Answer(r, "failed") /\ UNCHANGED <<account, code, chosenBy, spent>>

\* change_password and reset_password.
CommitPassword(r, u) ==
    LET call == request[r].call
        own == call.op = "change"
    IN  IF u \notin Present THEN Gone(r)
        ELSE /\ account' = WritePassword(u, request[r].seen, call.new, ~own)
             /\ chosenBy' = [chosenBy EXCEPT ![u] = IF own THEN "self" ELSE "another"]
             /\ Answer(r, "done") /\ UNCHANGED <<code, spent>>

\* (variant that leaves the code open)
KeepCode(c) == code
UseCode(c) == [code EXCEPT ![c].used = TRUE]

\* reset_password_with_token: the code goes with its user (ON DELETE CASCADE).
CommitRedeem(r) ==
    LET call == request[r].call
        u == code[call.code].user
    IN  IF code[call.code].row # "present" THEN Gone(r)
        ELSE /\ account' = WritePassword(u, request[r].seen, call.new, TRUE)
             /\ code' = UseCode(call.code)
             /\ chosenBy' = [chosenBy EXCEPT ![u] = "another"]
             /\ spent' = [spent EXCEPT ![call.code] = @ + 1]
             /\ Answer(r, "done")

\* generate_reset_token: codes of earlier requests stay valid.
CommitForgot(r) ==
    LET u == request[r].call.target IN
    IF u \notin Present THEN Gone(r)
    ELSE /\ \E c \in Codes :
                /\ code[c].row = "free"
                /\ code' = [code EXCEPT ![c].row = "present", ![c].user = u]
         /\ Answer(r, "done") /\ UNCHANGED <<account, chosenBy, spent>>

\* (variant of a table without the constraint)
NotUnique(name) == FALSE
\* username is unique.
Taken(name) == \E u \in Present : account[u].name = name

\* Addresses are not kept: the one in the body may be that of any account but u.
EmailTaken(u) == Present \ {u} # {}

\* admin_create_user
CommitCreate(r) ==
    LET call == request[r].call IN
    \/ (Taken(call.name) \/ EmailTaken(Nobody)) /\ Gone(r)
    \/ /\ ~Taken(call.name)
       /\ \E u \in Users :
              /\ account[u].row = "free"
              /\ account' = [account EXCEPT
                                ![u] = Account("present", call.name, call.role, call.new)]
       /\ Answer(r, "done") /\ UNCHANGED <<code, chosenBy, spent>>

\* admin_update_user; with nothing to write a row that is gone goes unnoticed by the flush.
CommitUpdate(r) ==
    LET call == request[r].call
        u == call.target
        seen == request[r].seen
    IN  \/ (u \notin Present \/ EmailTaken(u)) /\ Gone(r)
        \/ /\ u \in Present
           /\ account' = Overwrite(u, Column(seen.role, call.role, account[u].role),
                                   Column(seen.active, call.active, account[u].active),
                                   account[u].password, account[u].forced)
           /\ Answer(r, "done") /\ UNCHANGED <<code, chosenBy, spent>>

\* ON DELETE CASCADE
DropCodes(u) ==
    [c \in Codes |-> IF code[c].user = u THEN [code[c] EXCEPT !.row = "deleted"] ELSE code[c]]

\* admin_delete_user; a row that is gone already is only a warning.
CommitDelete(r) ==
    LET u == request[r].call.target IN
    /\ account' = [account EXCEPT ![u].row = "deleted"]
    /\ code' = DropCodes(u)
    /\ Answer(r, "done") /\ UNCHANGED <<chosenBy, spent>>

Commit(r) ==
    LET op == request[r].call.op IN
    /\ request[r].pc = "writing"
    /\ CASE op \in {"reset", "script"} -> CommitPassword(r, request[r].call.target)
         [] op = "change" -> CommitPassword(r, request[r].call.actor)
         [] op = "redeem" -> CommitRedeem(r)
         [] op = "forgot" -> CommitForgot(r)
         [] op = "create" -> CommitCreate(r)
         [] op = "update" -> CommitUpdate(r)
         [] op = "delete" -> CommitDelete(r)
    /\ UNCHANGED overlap

\* Fifteen minutes pass.
Expire(c) ==
    /\ code[c].row = "present" /\ ~code[c].expired
    /\ code' = [code EXCEPT ![c].expired = TRUE]
    /\ UNCHANGED <<account, request, chosenBy, spent, overlap>>

Finished ==
    /\ \A r \in Requests : request[r].pc \in {"refused", "done", "failed"}
    /\ UNCHANGED vars

Next ==
    \/ \E r \in Requests : Begin(r) \/ Read(r) \/ Commit(r)
    \/ \E c \in Codes : Expire(c)
    \/ Finished

Spec == Init /\ [][Next]_vars

-----------------------------------------------------------------------------
(* Properties *)

\* A handler that goes on to write has found its row, although ids come from clients; a
\* role may be any text.
TypeOK ==
    /\ account \in [Users -> [row : {"free", "present", "deleted"}, name : Names, role : Roles,
                              active : BOOLEAN, password : Passwords, forced : BOOLEAN]]
    /\ code \in [Codes -> [row : {"free", "present", "deleted"}, user : Users \cup {Nobody},
                           used : BOOLEAN, expired : BOOLEAN]]
    /\ \A r \in Requests :
           /\ request[r].pc \in {"idle", "reading", "writing", "refused", "done", "failed"}
           /\ request[r].call.op \in AllOperations \cup {"none"}
           /\ request[r].pc = "writing" /\ request[r].call.op # "create" =>
                  request[r].seen.row = "present"
    /\ chosenBy \in [Users -> {"self", "another"}]
    /\ spent \in [Codes -> Nat] /\ overlap \in BOOLEAN

\* No two accounts have one name, although the check and the insertion are two steps.
OneAccountPerName ==
    \A u, v \in Present : account[u].name = account[v].name => u = v

Temporary == \A u \in Present : chosenBy[u] = "another" => account[u].forced

\* A password that someone else has set must be changed at the next login, also after
\* any sequence of changes, resets and codes; requests that overlap are excluded.
OthersPasswordsAreTemporary == ~overlap => Temporary

\* The same for requests that overlap, which is what the handler tells its caller.
ResetForcesChange == Temporary

\* A code sets one password; codes used at the same moment set as many as there are
\* requests between their check and their commit.
CodesAreSpentOnce == \A c \in Codes : spent[c] <= (IF overlap THEN Workers ELSE 1)

\* A step that leaves no administrator deletes none.
Orderly == ~overlap' /\ Admins # {} /\ Admins' = {} => Admins \subseteq Present'

\* Deleting accounts one request at a time never takes the last administrator: the last
\* one can only be demoted or deactivated.
DeletionLeavesAnAdministrator == [][Orderly]_vars
=============================================================================
