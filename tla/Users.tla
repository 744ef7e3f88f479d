------------------------------- MODULE Users -------------------------------
(***************************************************************************)
(* Who uses the scheduler's database, and how: the monitors' requests that *)
(* add, remove and log in users (fisk-scheduler.js), each of which reads   *)
(* the whole table of users, waits, and writes it back; and the links      *)
(* between environments (environments.js), kept in memory, written after   *)
(* every change and read when the scheduler starts.                        *)
(***************************************************************************)
EXTENDS Database

CONSTANTS
  Requests,   \* requests of monitors
  Syncs,      \* calls of syncLinks()
  Names,      \* of users
  Nobody,     \* no such user
  MaxChanges  \* how often links change

(* A user is who wrote the cookie, by addUser or login. *)
Tables == [Names -> Requests \cup {Nobody}]
NoUsers == [u \in Names |-> Nobody]

(* The records "users" and "links" of the database. *)
UserRecords == [table : Tables]
LinkRecords == [changes : 0..MaxChanges]

ASSUME UsersAssumption ==
  /\ Callers = Requests \cup Syncs /\ Requests \cap Syncs = {} /\ Syncs # {}
  /\ MaxChanges \in Nat
  /\ {"users", "links"} \subseteq Keys
  /\ UserRecords \cup LinkRecords \subseteq Values

VARIABLES
  req,          \* [Requests -> RequestRecord]
  pendingUsers, \* the names in pendingUsers
  links,        \* environments._links: how often they changed
  up,           \* "down", "loading" (the links) or "up"
  registry,     \* users as the monitors know from the replies of success
  overlapped    \* two requests were handled at a time

handlerVars == <<req, pendingUsers, links, up, registry, overlapped>>
vars == <<dbVars, handlerVars>>

Handling == {"getting", "computing", "setting"}
RequestRecord ==
  [kind : {"none", "addUser", "removeUser", "login"},
   name : Names \cup {"none"},
   pc : {"idle", "over"} \cup Handling,
   users : Tables]    \* the variable users of the handler
NoRequest == [kind |-> "none", name |-> "none", pc |-> "idle",
              users |-> NoUsers]

InHand == {r \in Requests : req[r].pc \in Handling}

Init ==
  /\ DbInit
  /\ req = [r \in Requests |-> NoRequest]
  /\ pendingUsers = {} /\ links = 0 /\ up = "down"
  /\ registry = NoUsers /\ overlapped = FALSE

-----------------------------------------------------------------------------
(* The monitors' requests.                                                 *)

GoTo(r, pc) == req' = [req EXCEPT ![r].pc = pc]

(* addUser and removeUser turn down who asks for a name that is in use. *)
Claim(kind, u) ==
  \/ /\ kind # "login" /\ u \notin pendingUsers
     /\ pendingUsers' = pendingUsers \cup {u}
  \/ kind = "login" /\ UNCHANGED pendingUsers

Begin(r, kind, u) ==
  /\ up = "up" /\ req[r].pc = "idle"
  /\ \/ /\ Claim(kind, u)
        /\ req' = [req EXCEPT ![r] = [kind |-> kind, name |-> u,
                                      pc |-> "getting", users |-> NoUsers]]
        /\ overlapped' = (overlapped \/ InHand # {})
        /\ Get(r, "users")
     \/ /\ kind # "login" /\ u \in pendingUsers
        /\ GoTo(r, "over")
        /\ UNCHANGED <<dbVars, pendingUsers, overlapped>>
  /\ UNCHANGED <<links, up, registry>>

(* Mutant of Finally: only success releases the name. *)
FinallyIfStored(r) ==
  pendingUsers' = IF req[r].kind = "login" \/ op[r].pc = "failed"
                  THEN pendingUsers ELSE pendingUsers \ {req[r].name}

(* .finally() *)
Finally(r) ==
  pendingUsers' = IF req[r].kind = "login" THEN pendingUsers
                  ELSE pendingUsers \ {req[r].name}

(* A reply of failure. *)
Refuse(r) ==
  /\ GoTo(r, "over") /\ Finally(r)
  /\ UNCHANGED <<dbVars, links, up, registry, overlapped>>

Read(r) == IF op[r].value = Nothing THEN NoUsers ELSE op[r].value.table

(* The users were read.  Whoever removes one writes at once, the others    *)
(* wait for random bytes and a hash first.                                 *)
GotUsers(r) ==
  /\ req[r].pc = "getting" /\ op[r].pc = "done"
  /\ LET u == req[r].name
         known == Read(r)[u] # Nobody
     IN \/ known = (req[r].kind = "addUser") /\ Refuse(r)
        \/ /\ known /\ req[r].kind = "removeUser"
           /\ Set(r, "users", [table |-> [Read(r) EXCEPT ![u] = Nobody]])
           /\ req' = [req EXCEPT ![r].pc = "setting",
                                 ![r].users = [Read(r) EXCEPT ![u] = Nobody]]
           /\ UNCHANGED <<pendingUsers, links, up, registry, overlapped>>
        \/ /\ known = (req[r].kind = "login") /\ req[r].kind # "removeUser"
           /\ req' = [req EXCEPT ![r].pc = "computing",
                                 ![r].users = [Read(r) EXCEPT ![u] = r]]
           /\ UNCHANGED <<dbVars, pendingUsers, links, up, registry,
                          overlapped>>

(* The password is wrong, or the database or the random bytes failed. *)
HandlerFails(r) ==
  /\ \/ req[r].pc \in {"getting", "setting"} /\ op[r].pc = "failed"
     \/ req[r].pc = "computing"
  /\ Refuse(r)

Computed(r) ==
  /\ req[r].pc = "computing"
  /\ Set(r, "users", [table |-> req[r].users])
  /\ GoTo(r, "setting")
  /\ UNCHANGED <<pendingUsers, links, up, registry, overlapped>>

(* Mutant of Stored: the reply does not wait for set(). *)
StoredEarly(r) ==
  /\ req[r].pc = "setting" /\ op[r].pc # "failed"
  /\ GoTo(r, "over") /\ Finally(r)
  /\ registry' = [registry EXCEPT ![req[r].name] = req[r].users[req[r].name]]
  /\ UNCHANGED <<dbVars, links, up, overlapped>>

(* A reply of success. *)
Stored(r) ==
  LET u == req[r].name
  IN /\ req[r].pc = "setting" /\ op[r].pc = "done"
     /\ GoTo(r, "over") /\ Finally(r)
     /\ registry' = [registry EXCEPT ![u] = req[r].users[u]]
     /\ UNCHANGED <<dbVars, links, up, overlapped>>

-----------------------------------------------------------------------------
(* Links and restarts.                                                     *)

(* link(), unlink(), or a step of remove(): a change and syncLinks(). *)
LinksChange(s) ==
  /\ up = "up" /\ links < MaxChanges
  /\ links' = links + 1
  /\ Set(s, "links", [changes |-> links + 1])
  /\ UNCHANGED <<req, pendingUsers, up, registry, overlapped>>

Loader == CHOOSE s \in Syncs : TRUE

(* environments.load(), before the server listens. *)
Load ==
  /\ up = "down" /\ Get(Loader, "links")
  /\ up' = "loading"
  /\ UNCHANGED <<req, pendingUsers, links, registry, overlapped>>
Loaded ==
  /\ up = "loading" /\ op[Loader].pc = "done"
  /\ up' = "up"
  /\ links' = IF op[Loader].value = Nothing THEN 0
              ELSE op[Loader].value.changes
  /\ UNCHANGED <<dbVars, req, pendingUsers, registry, overlapped>>

StoredUsers ==
  IF Contents["users"] = Nothing THEN NoUsers
  ELSE Contents["users"].table

(* The scheduler stops at any moment, or because it cannot load the links; *)
(* the monitors are disconnected, and see what is there when they return.  *)
SchedulerRestarts ==
  /\ Restart
  /\ req' = [r \in Requests |->
               IF r \in InHand THEN [NoRequest EXCEPT !.pc = "over"]
               ELSE req[r]]
  /\ pendingUsers' = {} /\ up' = "down" /\ links' = 0
  /\ registry' = StoredUsers
  /\ UNCHANGED overlapped

DatabaseStep(c) == Progress(c) /\ UNCHANGED handlerVars

RequestStep(r) ==
  GotUsers(r) \/ HandlerFails(r) \/ Computed(r) \/ Stored(r)

Next ==
  \/ \E r \in Requests :
       \/ RequestStep(r)
       \/ \E kind \in {"addUser", "removeUser", "login"}, u \in Names :
            Begin(r, kind, u)
  \/ \E s \in Syncs : LinksChange(s)
  \/ Load \/ Loaded \/ SchedulerRestarts
  \/ \E c \in Callers : DatabaseStep(c)

Spec == Init /\ [][Next]_vars

(* The thread pool does what it is given, and callbacks are called. *)
Fairness ==
  /\ \A c \in Callers : WF_vars(DatabaseStep(c))
  /\ \A r \in Requests : WF_vars(RequestStep(r))
  /\ WF_vars(Load) /\ WF_vars(Loaded)

FairSpec == Spec /\ Fairness

-----------------------------------------------------------------------------
TypeOK ==
  /\ DbTypeOK
  /\ req \in [Requests -> RequestRecord]
  /\ pendingUsers \subseteq Names
  /\ links \in 0..MaxChanges
  /\ up \in {"down", "loading", "up"}
  /\ registry \in Tables /\ overlapped \in BOOLEAN

(***************************************************************************)
(* A name is pending while, and only while, one request to add or remove   *)
(* that user is in hand: no error leaves it locked until the next restart. *)
(***************************************************************************)
PendingIsInHand ==
  LET changing == {r \in InHand : req[r].kind # "login"}
  IN /\ pendingUsers = {req[r].name : r \in changing}
     /\ \A r, q \in changing : req[r].name = req[q].name => r = q

(* The last change of the links is written. *)
LinksAreWritten ==
  \E s \in Syncs : /\ op[s].kind = "set" /\ op[s].pc = "done"
                   /\ op[s].value.changes = links

(***************************************************************************)
(* What was answered is what the file holds, errors and restarts included, *)
(* as long as no set() overtook a rename.  For users: what monitors were   *)
(* told, as long as no two requests were handled at a time (of two that    *)
(* were, one may write back what the other has changed).  For links, which *)
(* are written in the order they changed: what is in memory.               *)
(***************************************************************************)
RepliesAreKept ==
  /\ TypeOK
  /\ ~overtaken =>
       /\ ~overlapped /\ InHand = {} => StoredUsers = registry
       /\ up = "up" /\ LinksAreWritten
            => Contents["links"] = [changes |-> links]

(* Every call of get() and set() is answered, or the scheduler restarts. *)
CallsAreAnswered == \A c \in Callers : UnderWay(c) ~> ~UnderWay(c)
=============================================================================
