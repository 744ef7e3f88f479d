----------------------------- MODULE Supervisor -----------------------------
(***************************************************************************)
(* run-fisk-scheduler.js of the Debian package: the script that installs   *)
(* fisk from npm, runs the scheduler as a child process, starts it again   *)
(* when it goes away and looks for updates every five minutes.             *)
(*                                                                         *)
(* Its functions call each other within one turn of the event loop, so     *)
(* they are functions from the state of the script to its next state; an   *)
(* action is one event: a timer, the exit of the child, the end of npm, of *)
(* a shell command or of a request, a signal.  Nothing keeps two runs of   *)
(* checkForUpdate() apart, hence the set Checks.                           *)
(***************************************************************************)
EXTENDS Integers, FiniteSets

CONSTANTS
  Checks,         \* runs of checkForUpdate() that may overlap
  MaxCrashes,     \* how often the scheduler dies by itself
  MaxFailures,    \* how often "npm install" fails
  MaxPublishes    \* how often a new version gets the tag

(* Every crash can add one run to the first, and one may begin before the  *)
(* last has ended, so Checks never runs out.                               *)
ASSUME SupervisorAssumption ==
  /\ MaxCrashes \in Nat /\ MaxFailures \in Nat /\ MaxPublishes \in Nat
  /\ IsFiniteSet(Checks) /\ Cardinality(Checks) = MaxCrashes + 2

VARIABLES
  sup,        \* the script, its child, its timers and its directories
  crashes, failures, publishes   \* counters behind the bounds

supVars == <<sup, crashes, failures, publishes>>

(***************************************************************************)
(* prod/ and stage/: not there; without a package.json; an install that    *)
(* was cut short: a package.json but no scheduler/; or a whole install, of *)
(* the version that has the tag or of one that had it.                     *)
(***************************************************************************)
Trees == {"none", "empty", "half", "old", "new"}
Whole == {"old", "new"}

(* Where a run of checkForUpdate() waits: for npm dist-tag, having read    *)
(* the version of prod/; for npm install; for an answer of the scheduler;  *)
(* for its exit; for rm and mv.                                            *)
Asking == {"askOld", "askNew"}
Killing == {"killToUpdate", "killToRestart"}
Waits == {"idle", "install", "connect", "remove", "move"} \cup Asking
           \cup Killing

State ==
  [fisk : {"none", "child", "failed"},  \* fisk; "failed": fork emitted 'error'
   procs : 0..2,         \* scheduler processes that run
   young : BOOLEAN,      \* not 10 s since lastStart
   wedged : BOOLEAN,     \* the child accepts connections and never answers
   killed : BOOLEAN,     \* killed
   active : BOOLEAN,     \* checkForUpdateActive
   timer : BOOLEAN,      \* the timer checkForUpdateTimer is pending
   leaked : Nat,         \* pending timers that variable has forgotten
   restart : BOOLEAN,    \* setTimeout(startFisk, 1000) is pending
   removing : Nat,       \* "rm -rf prod" after an early crash is running
   recheck : Nat,        \* setTimeout(checkForUpdate, 1000) after it
   check : [Checks -> Waits],
   prod : Trees, stage : Trees]

Running(s) == {c \in Checks : s.check[c] # "idle"}

-----------------------------------------------------------------------------
(* The functions of the script.                                            *)

Mkdirp(tree) == IF tree = "none" THEN "empty" ELSE tree

(* checkForUpdate(), updateFisk() and needsUpdate() up to their first wait. *)
CheckForUpdate(s) ==
  LET c == CHOOSE c \in Checks : s.check[c] = "idle"
      first == CASE s.prod = "old" -> "askOld"
                 [] s.prod \in {"new", "half"} -> "askNew"
                 [] OTHER -> "install"
  IN [s EXCEPT !.active = TRUE, !.timer = FALSE, !.check[c] = first,
               !.prod = Mkdirp(@), !.stage = Mkdirp(@)]

(* fork() with a cwd that does not exist emits 'error' and never 'exit'. *)
Fork(s) ==
  IF s.prod \in Whole
  THEN [s EXCEPT !.fisk = "child", !.procs = @ + 1,
                 !.young = TRUE, !.wedged = FALSE]
  ELSE [s EXCEPT !.fisk = "failed"]

(* Mutant of StartFisk: without if (!fisk). *)
StartFiskAgain(s) == Fork(IF s.active THEN s ELSE CheckForUpdate(s))

StartFisk(s) ==
  IF s.fisk # "none" THEN s
  ELSE Fork(IF s.active THEN s ELSE CheckForUpdate(s))

(* Mutant of Final: no child is started. *)
FinalWithoutStart(s, c) ==
  [s EXCEPT !.check[c] = "idle", !.active = FALSE, !.timer = TRUE,
            !.leaked = @ + (IF s.timer THEN 1 ELSE 0)]

(* final(), the end of a check.  A timer set by another check is forgotten *)
(* but goes on.                                                            *)
Final(s, c) ==
  LET t == StartFisk(s)
  IN [t EXCEPT !.check[c] = "idle", !.active = FALSE, !.timer = TRUE,
               !.leaked = @ + (IF t.timer THEN 1 ELSE 0)]

(* What follows killFisk() once there is no child: copyToProd() or final(). *)
Killed(s, c, why) ==
  IF why = "killToUpdate" THEN [s EXCEPT !.check[c] = "remove"]
  ELSE Final(s, c)

(* Mutant of KillFisk: the exit is not awaited. *)
KillFiskAtOnce(s, c, why) ==
  Killed(IF s.fisk = "none" THEN s ELSE [s EXCEPT !.killed = TRUE], c, why)

KillFisk(s, c, why) ==
  IF s.fisk = "none" THEN Killed(s, c, why)
  ELSE [s EXCEPT !.killed = TRUE, !.check[c] = why]

-----------------------------------------------------------------------------
(* The steps of a check.                                                   *)

Quiet == UNCHANGED <<crashes, failures, publishes>>

(***************************************************************************)
(* npm dist-tag answers, or fails: then an update is needed.  If none is,  *)
(* updateFisk() throws whether prod/ lacks the scheduler, by now; thrown   *)
(* TRUE counts as updated although nothing was installed in stage/.        *)
(***************************************************************************)
NpmAnswers(c) ==
  /\ sup.check[c] \in Asking
  /\ \/ sup' = [sup EXCEPT !.check[c] = "install"]
     \/ /\ sup.check[c] = "askNew"
        /\ \/ /\ sup.prod \notin Whole
              /\ sup' = KillFisk(sup, c, "killToUpdate")
           \/ /\ sup.prod \in Whole /\ sup.fisk # "none"
              /\ sup' = [sup EXCEPT !.check[c] = "connect"]
           \/ /\ sup.prod \in Whole /\ sup.fisk = "none"
              /\ sup' = Final(sup, c)
  /\ Quiet

(* npm cache clear, init and install, in stage/. *)
Installed(c) ==
  /\ sup.check[c] = "install" /\ sup.stage # "none"
  /\ sup' = KillFisk([sup EXCEPT !.stage = "new"], c, "killToUpdate")
  /\ Quiet
InstallFails(c) ==
  /\ sup.check[c] = "install"
  /\ \/ sup.stage = "none" /\ sup' = Final(sup, c) /\ UNCHANGED failures
     \/ /\ sup.stage # "none" /\ failures < MaxFailures
        /\ failures' = failures + 1
        /\ \E left \in {sup.stage, "half"} :
             sup' = Final([sup EXCEPT !.stage = left], c)
  /\ UNCHANGED <<crashes, publishes>>

(* checkForConnection(): its timeout of 15 s has no listener, so without   *)
(* an answer it waits for ever.                                            *)
Connects(c) ==
  /\ sup.check[c] = "connect" /\ ~sup.wedged
  /\ \/ sup.procs > 0 /\ sup' = Final(sup, c)
     \/ sup' = KillFisk(sup, c, "killToRestart")
  /\ Quiet

(* copyToProd(): rm -rf prod && mv stage prod.  If prod/ is there again,   *)
(* stage/ ends up inside it.                                               *)
Removes(c) ==
  /\ sup.check[c] = "remove"
  /\ sup' = [sup EXCEPT !.check[c] = "move", !.prod = "none"]
  /\ Quiet
Moves(c) ==
  /\ sup.check[c] = "move"
  /\ sup' = Final([sup EXCEPT
                     !.stage = "none",
                     !.prod = IF @ = "none" THEN sup.stage ELSE @], c)
  /\ Quiet

-----------------------------------------------------------------------------
(* Events of the child, timers and signals.                                *)

(* Every check that waits in killFisk() goes on, in the order they came. *)
Waiting == {c \in Checks : sup.check[c] \in Killing}
(* Mutant of Resumed: one of them only. *)
ResumedOne(s) ==
  IF Waiting = {} THEN s
  ELSE LET c == CHOOSE c \in Waiting : TRUE IN Killed(s, c, sup.check[c])

Resumed(s) ==
  LET f[w \in SUBSET Waiting] ==
        IF w = {} THEN s
        ELSE LET c == CHOOSE c \in w : TRUE
             IN Killed(f[w \ {c}], c, sup.check[c])
  IN f[Waiting]

(* 'exit' after SIGTERM, or after SIGKILL five seconds later. *)
ExitsAsked ==
  /\ sup.fisk = "child" /\ sup.killed
  /\ sup' = Resumed([sup EXCEPT !.fisk = "none", !.procs = @ - 1,
                                !.killed = FALSE, !.wedged = FALSE])
  /\ Quiet

(***************************************************************************)
(* 'exit' that nobody asked for.  Early, the install is removed and a new  *)
(* check started, whether or not one is active.  Later, startFisk() is     *)
(* called in a second; that timer has fired before another child can have  *)
(* run for ten.                                                            *)
(***************************************************************************)
Crashes ==
  /\ sup.fisk = "child" /\ ~sup.killed /\ crashes < MaxCrashes
  /\ crashes' = crashes + 1
  /\ LET gone == [sup EXCEPT !.fisk = "none", !.procs = @ - 1,
                             !.wedged = FALSE]
     IN \/ sup.young /\ sup' = [gone EXCEPT !.removing = @ + 1]
        \/ ~sup.young /\ sup' = [gone EXCEPT !.restart = TRUE]
  /\ UNCHANGED <<failures, publishes>>

TenSecondsPass ==
  /\ sup.young /\ ~sup.restart
  /\ sup' = [sup EXCEPT !.young = FALSE] /\ Quiet
Wedges ==
  /\ sup.fisk = "child" /\ ~sup.wedged
  /\ sup' = [sup EXCEPT !.wedged = TRUE] /\ Quiet

RestartTimer ==
  /\ sup.restart
  /\ sup' = StartFisk([sup EXCEPT !.restart = FALSE]) /\ Quiet

(* The rm of an early crash is done; a second later the check begins. *)
InstallRemoved ==
  /\ sup.removing > 0
  /\ sup' = [sup EXCEPT !.removing = @ - 1, !.recheck = @ + 1,
                        !.prod = "none"]
  /\ Quiet
RecheckTimer ==
  /\ sup.recheck > 0
  /\ sup' = CheckForUpdate([sup EXCEPT !.recheck = @ - 1]) /\ Quiet

CheckTimer ==
  /\ \/ sup.timer /\ sup' = CheckForUpdate(sup)
     \/ sup.leaked > 0 /\ sup' = CheckForUpdate([sup EXCEPT !.leaked = @ - 1])
  /\ Quiet
SigHup == ~sup.active /\ sup' = CheckForUpdate(sup) /\ Quiet

(* A new version gets the tag: what was new is old. *)
Publish ==
  LET aged(x) == IF x = "new" THEN "old" ELSE x
  IN /\ publishes < MaxPublishes
     /\ publishes' = publishes + 1
     /\ sup' = [sup EXCEPT
          !.prod = aged(@), !.stage = aged(@),
          !.check = [c \in Checks |->
             IF @[c] = "askNew" /\ sup.prod # "half" THEN "askOld" ELSE @[c]]]
     /\ UNCHANGED <<crashes, failures>>

-----------------------------------------------------------------------------
Blank ==
  [fisk |-> "none", procs |-> 0, young |-> FALSE, wedged |-> FALSE,
   killed |-> FALSE, active |-> FALSE, timer |-> FALSE, leaked |-> 0,
   restart |-> FALSE, removing |-> 0, recheck |-> 0,
   check |-> [c \in Checks |-> "idle"], prod |-> "none", stage |-> "none"]

(***************************************************************************)
(* The script begins with a check, on what its last run left.  One tree is *)
(* left out: a prod/ cut short, which takes a crash or a failed install in *)
(* that earlier run, and from which fork() may fail without either in this *)
(* one.                                                                    *)
(***************************************************************************)
SupInit ==
  /\ \E prod \in {"none", "old", "new"}, stage \in {"none", "half", "old"} :
       sup = CheckForUpdate([Blank EXCEPT !.prod = prod, !.stage = stage])
  /\ crashes = 0 /\ failures = 0 /\ publishes = 0

CheckStep(c) ==
  \/ NpmAnswers(c) \/ Installed(c) \/ InstallFails(c) \/ Connects(c)
  \/ Removes(c) \/ Moves(c)

SupNext ==
  \/ \E c \in Checks : CheckStep(c)
  \/ ExitsAsked \/ Crashes \/ TenSecondsPass \/ Wedges
  \/ RestartTimer \/ InstallRemoved \/ RecheckTimer \/ CheckTimer
  \/ SigHup \/ Publish

SupSpec == SupInit /\ [][SupNext]_supVars

(***************************************************************************)
(* Timers fire, npm and shell commands end, a child that was killed exits, *)
(* a scheduler that is not wedged answers.                                 *)
(***************************************************************************)
Fairness ==
  /\ \A c \in Checks : WF_supVars(CheckStep(c))
  /\ WF_supVars(ExitsAsked) /\ WF_supVars(RestartTimer) /\ WF_supVars(InstallRemoved)
  /\ WF_supVars(RecheckTimer) /\ WF_supVars(CheckTimer)

FairSpec == SupSpec /\ Fairness

-----------------------------------------------------------------------------
(* Runs of checkForUpdate() that are going on or will begin by a timer. *)
Chains(s) ==
  Cardinality(Running(s)) + (IF s.timer THEN 1 ELSE 0) + s.leaked
    + s.removing + s.recheck

SupTypeOK ==
  /\ sup \in State
  /\ crashes \in 0..MaxCrashes /\ failures \in 0..MaxFailures
  /\ publishes \in 0..MaxPublishes

(***************************************************************************)
(* Timers, checks and crashes between them never run two schedulers, which *)
(* would fight over the port, and never lose track of the one that runs.   *)
(* There is always a check that goes on or will, and one more for each     *)
(* crash at most.  killed is set while, and only while, a check waits for  *)
(* the exit: were it left set, the next crash would be taken for that exit *)
(* and the scheduler not be started again.                                 *)
(***************************************************************************)
OneScheduler ==
  /\ SupTypeOK
  /\ sup.procs = IF sup.fisk = "child" THEN 1 ELSE 0
  /\ Chains(sup) \in 1..(1 + crashes)
  /\ sup.killed <=> Waiting # {}

(***************************************************************************)
(* prod/ is whole whenever a child runs from it: it is replaced after the  *)
(* exit only.  A crash can break that: its restart, or the check it adds,  *)
(* starts a child while another check is replacing prod/.  And fork()      *)
(* fails, after which no child will be started again, only once npm        *)
(* install failed or the scheduler crashed.                                *)
(***************************************************************************)
RunsFromWhole ==
  /\ sup.fisk = "child" /\ sup.prod \notin Whole => crashes > 0
  /\ sup.fisk = "failed" => failures + crashes > 0

(***************************************************************************)
(* A scheduler that went away is started again, with one exception: a      *)
(* fork() that fails leaves fisk set, so that startFisk() does nothing     *)
(* from then on and killFisk() waits for an exit that never comes.  That   *)
(* takes a failed install or a crash first; without one, and without such  *)
(* a fork, every wait for a child ends with a child.                       *)
(***************************************************************************)
ComesBack ==
  sup.fisk = "none"
    ~> sup.fisk = "child" \/ (sup.fisk = "failed" /\ failures + crashes > 0)

(***************************************************************************)
(* Every check comes to its end and sets the next timer, unless it waits   *)
(* for the exit of a child that never was, or for an answer without limit. *)
(***************************************************************************)
ChecksEnd ==
  \A c \in Checks :
    sup.check[c] # "idle"
      ~> sup.check[c] = "idle" \/ sup.fisk = "failed" \/ sup.wedged
=============================================================================
