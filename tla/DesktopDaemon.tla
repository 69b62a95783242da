--------------------------- MODULE DesktopDaemon ---------------------------
(* The desktop app as the keeper of a local daemon                          *)
(* (apps/desktop/src/main/daemon-manager.ts, driven by the renderer's       *)
(* App.tsx).  The renderer's logins, logouts and buttons become chains of   *)
(* asynchronous steps in the main process that share two files (the daemon's *)
(* token and the sidecar naming its owner), a guard, the status shown to     *)
(* the user, and a daemon process that nothing but the command line controls. *)
EXTENDS Naturals, Sequences, FiniteSets

CONSTANTS
  Users,      \* accounts of this machine
  Calls,      \* asynchronous chains that may be under way at once (bound)
  None,
  Patient,    \* TRUE: the user waits until the app has nothing left to do
  Faults,     \* what may go wrong: "mint", "kill", "boot", "slow", "cli", "quit"
  MaxFaults,  \* bounds: failures, acts of the user, tasks of the daemon
  MaxActs,
  MaxTasks

ASSUME DesktopAssumption ==
  /\ None \notin Users /\ Patient \in BOOLEAN
  /\ Faults \subseteq {"mint", "kill", "boot", "slow", "cli", "quit"}
  /\ MaxFaults \in Nat /\ MaxActs \in Nat /\ MaxTasks \in Nat

VARIABLES
  user,       \* the renderer's logged-in user
  token,      \* config.json: whose personal access token it holds
  sidecar,    \* .desktop-user-id: whose token it is said to be
  daemon,     \* the process: [st, cred, old, busy]
  cli,        \* resolveCliBinary: "resolving", "found" or "missing"
  shown,      \* currentState, the status sent to the renderer
  guard,      \* operationInProgress
  pendingVersionRestart,
  poll,       \* the health probe a poll is acting on
  call,       \* the chains: [todo, who, config, previous]
  hit,        \* the failures so far
  acts, tasks \* counters for the bounds

disk   == <<token, sidecar>>
status == <<cli, shown, poll, pendingVersionRestart>>
bounds == <<hit, acts, tasks>>
vars   == <<user, disk, daemon, status, guard, call, bounds>>

Off    == [st |-> "down", cred |-> None, old |-> FALSE, busy |-> FALSE]
Idle   == [todo |-> <<>>, who |-> None, config |-> None, previous |-> None]
Up     == daemon.st = "up"

-----------------------------------------------------------------------------
(* Chains.  A step at the head of a chain may put further steps before the  *)
(* rest of it; a chain with nothing left is idle.                           *)

Sync     == <<"readConfig", "readUserId", "chooseToken", "writeConfig", "writeUserId", "switched">>
OnLogin  == Sync \o <<"autoStart">>                        \* App.tsx, [user] effect
OnLogout == <<"clearRead", "clearUserId", "guard", "stopDaemon", "release">>
Start    == <<"guard", "startDaemon", "release">>          \* daemon:start, under withGuard
Stop     == <<"guard", "stopDaemon", "release">>
Restart  == <<"guard", "stopDaemon", "startDaemon", "release">>
RestartDaemon == <<"stopDaemon", "startDaemon">>           \* the function itself: no guard

StepNames ==
  {"readConfig", "readUserId", "chooseToken", "mint", "writeConfig", "writeUserId", "switched",
   "autoStart", "checkVersion", "clearRead", "clearWrite", "clearUserId", "guard", "release",
   "startDaemon", "startExec", "startWait", "stopDaemon", "stopExec"}

Free       == {c \in Calls : call[c].todo = <<>>}
Slot       == CHOOSE c \in Free : TRUE \* chains are alike: which slot does not matter
Chain(t, u) == [Idle EXCEPT !.todo = t, !.who = u]
At(c, s)   == call[c].todo # <<>> /\ Head(call[c].todo) = s
Settle(l)  == IF l.todo = <<>> THEN Idle ELSE l
Go(c, l)   == call' = [call EXCEPT ![c] = Settle(l)]
Rest(c)    == [call[c] EXCEPT !.todo = Tail(@)]
More(c, s) == [call[c] EXCEPT !.todo = s \o Tail(@)]

\* restartDaemon gives up when the stop failed.
Failed(l)  == IF l.todo # <<>> /\ Head(l.todo) = "startDaemon"
              THEN [l EXCEPT !.todo = Tail(@)] ELSE l

Fault(f)   == f \in Faults /\ Cardinality(hit) < MaxFaults /\ hit' = hit \cup {f}

\* A start of the app: a restored session runs the login effect.
First   == CHOOSE c \in Calls : TRUE
Opening == [c \in Calls |-> IF c = First /\ user # None THEN Chain(OnLogin, user) ELSE Idle]

\* Nothing is under way and nothing is put off.
Quiet == Free = Calls /\ daemon.st # "booting" /\ cli # "resolving" /\ ~pendingVersionRestart

-----------------------------------------------------------------------------
(* The app is started with what its last session left: nothing, or the user *)
(* still logged in, with a daemon that may be up and of an older version.   *)

Init ==
  /\ \/ user = None /\ daemon = Off
     \/ user \in Users /\ daemon \in {Off} \cup {[Off EXCEPT !.st = "up", !.cred = user, !.old = o] : o \in BOOLEAN}
  /\ token = user /\ call = Opening
  /\ sidecar = token
  /\ cli = "resolving" /\ shown = "installing_cli" /\ poll = "none"
  /\ pendingVersionRestart = FALSE /\ guard = FALSE
  /\ hit = {} /\ acts = 0 /\ tasks = 0

-----------------------------------------------------------------------------
(* syncToken: two reads, a choice that may ask the server, two writes, and a *)
(* restart that is started but not awaited.                                 *)

ReadConfig(c) ==
  /\ At(c, "readConfig")
  /\ Go(c, [Rest(c) EXCEPT !.config = token])
  /\ UNCHANGED <<user, disk, daemon, status, guard, bounds>>

ReadUserId(c) ==
  /\ At(c, "readUserId")
  /\ Go(c, [Rest(c) EXCEPT !.previous = sidecar])
  /\ UNCHANGED <<user, disk, daemon, status, guard, bounds>>

UserChanged(l)    == l.previous # None /\ l.previous # l.who
ReusableAnyway(l) == l.config # None \* mutant: the sidecar is not compared
Reusable(l)       == l.previous = l.who /\ l.config # None

\* The renderer's own token is a session token, never a personal access token.
ChooseToken(c) ==
  /\ At(c, "chooseToken")
  /\ Go(c, IF Reusable(call[c]) THEN Rest(c) ELSE More(c, <<"mint">>))
  /\ UNCHANGED <<user, disk, daemon, status, guard, bounds>>

\* mintPat asks for a token of the caller; when it throws, the renderer's
\* chain ends in its catch and autoStart is not called.
Mint(c) ==
  /\ At(c, "mint")
  /\ \/ Go(c, [Rest(c) EXCEPT !.config = call[c].who]) /\ UNCHANGED hit
     \/ Go(c, Idle) /\ Fault("mint")
  /\ UNCHANGED <<user, disk, daemon, status, guard, acts, tasks>>

WriteConfig(c) ==
  /\ At(c, "writeConfig")
  /\ token' = call[c].config
  /\ Go(c, Rest(c))
  /\ UNCHANGED <<user, sidecar, daemon, status, guard, bounds>>

WriteUserId(c) ==
  /\ At(c, "writeUserId")
  /\ sidecar' = call[c].who
  /\ Go(c, Rest(c))
  /\ UNCHANGED <<user, token, daemon, status, guard, bounds>>

SwitchedStopOnly(c) == \* mutant: the daemon of the old user is stopped, not restarted
  /\ At(c, "switched")
  /\ IF UserChanged(call[c]) /\ Up
     THEN Free # {} /\ call' = [call EXCEPT ![c] = Settle(Rest(c)), ![Slot] = Chain(<<"stopDaemon">>, None)]
     ELSE Go(c, Rest(c))
  /\ UNCHANGED <<user, disk, daemon, status, guard, bounds>>

SwitchedQuietly(c) == \* mutant: a user switch leaves the daemon alone
  /\ At(c, "switched")
  /\ Go(c, Rest(c))
  /\ UNCHANGED <<user, disk, daemon, status, guard, bounds>>

Switched(c) ==
  /\ At(c, "switched")
  /\ IF UserChanged(call[c]) /\ Up
     THEN Free # {} /\ call' = [call EXCEPT ![c] = Settle(Rest(c)), ![Slot] = Chain(RestartDaemon, None)]
     ELSE Go(c, Rest(c))
  /\ UNCHANGED <<user, disk, daemon, status, guard, bounds>>

-----------------------------------------------------------------------------
(* clearToken *)

ClearRead(c) ==
  /\ At(c, "clearRead")
  /\ Go(c, IF token # None THEN More(c, <<"clearWrite">>) ELSE Rest(c))
  /\ UNCHANGED <<user, disk, daemon, status, guard, bounds>>

ClearWrite(c) ==
  /\ At(c, "clearWrite")
  /\ token' = None
  /\ Go(c, Rest(c))
  /\ UNCHANGED <<user, sidecar, daemon, status, guard, bounds>>

ClearUserIdIfToken(c) == \* mutant: the sidecar goes only while a token is there
  /\ At(c, "clearUserId")
  /\ sidecar' = IF token # None THEN None ELSE sidecar
  /\ Go(c, Rest(c))
  /\ UNCHANGED <<user, token, daemon, status, guard, bounds>>

ClearUserId(c) ==
  /\ At(c, "clearUserId")
  /\ sidecar' = None
  /\ Go(c, Rest(c))
  /\ UNCHANGED <<user, token, daemon, status, guard, bounds>>

-----------------------------------------------------------------------------
(* withGuard refuses at once; the caller is told and does not ask again.    *)

TakeGuard(c) ==
  /\ At(c, "guard")
  /\ guard' = TRUE
  /\ Go(c, IF guard THEN Idle ELSE Rest(c))
  /\ UNCHANGED <<user, disk, daemon, status, bounds>>

Release(c) ==
  /\ At(c, "release")
  /\ guard' = FALSE
  /\ Go(c, Rest(c))
  /\ UNCHANGED <<user, disk, daemon, status, bounds>>

(* startDaemon: a look at /health, then `daemon start`, which refuses when   *)
(* one is up, and otherwise waits for up to 15 s and reports success anyway. *)

StartDaemon(c) ==
  /\ At(c, "startDaemon") /\ cli # "resolving"
  /\ IF cli = "missing" \/ Up
     THEN Go(c, Rest(c)) /\ UNCHANGED shown
     ELSE Go(c, More(c, <<"startExec">>)) /\ shown' = "starting"
  /\ UNCHANGED <<user, disk, daemon, cli, poll, pendingVersionRestart, guard, bounds>>

StartExec(c) ==
  /\ At(c, "startExec")
  /\ IF Up
     THEN Go(c, Rest(c)) /\ shown' = "stopped" /\ UNCHANGED daemon
     ELSE /\ Go(c, More(c, <<"startWait">>))
          /\ daemon' = [daemon EXCEPT !.st = "booting"]
          /\ UNCHANGED shown
  /\ UNCHANGED <<user, disk, cli, poll, pendingVersionRestart, guard, bounds>>

StartWait(c) ==
  /\ At(c, "startWait")
  /\ IF daemon.st # "booting" THEN UNCHANGED hit ELSE Fault("slow")
  /\ Go(c, Rest(c))
  /\ UNCHANGED <<user, disk, daemon, status, guard, acts, tasks>>

(* stopDaemon: `daemon stop` has no effect on a daemon that is not up yet,   *)
(* and reports success.                                                     *)

StopDaemon(c) ==
  /\ At(c, "stopDaemon") /\ cli # "resolving"
  /\ IF cli = "missing"
     THEN Go(c, Failed(Rest(c))) /\ UNCHANGED shown
     ELSE Go(c, More(c, <<"stopExec">>)) /\ shown' = "stopping"
  /\ UNCHANGED <<user, disk, daemon, cli, poll, pendingVersionRestart, guard, bounds>>

StopExec(c) ==
  /\ At(c, "stopExec")
  /\ shown' = "stopped"
  /\ \/ /\ Go(c, Rest(c))
        /\ daemon' = IF Up THEN Off ELSE daemon
        /\ UNCHANGED hit
     \/ Up /\ Fault("kill") /\ Go(c, Failed(Rest(c))) /\ UNCHANGED daemon
  /\ UNCHANGED <<user, disk, cli, poll, pendingVersionRestart, guard, acts, tasks>>

-----------------------------------------------------------------------------
(* daemon:auto-start, with the default preference *)

AutoStart(c) ==
  /\ At(c, "autoStart") /\ cli # "resolving"
  /\ Go(c, IF cli = "missing" THEN Rest(c)
           ELSE IF Up THEN More(c, <<"checkVersion">>) ELSE More(c, <<"startDaemon">>))
  /\ UNCHANGED <<user, disk, daemon, status, guard, bounds>>

decideVersionAction ==
  IF ~Up THEN "not_running"
  ELSE IF cli = "missing" \/ ~daemon.old THEN "ok"
  ELSE IF daemon.busy THEN "defer" ELSE "restart"

\* ensureRunningDaemonVersionMatches
CheckVersion(c) ==
  LET action == decideVersionAction IN
  /\ At(c, "checkVersion") /\ cli # "resolving"
  /\ pendingVersionRestart' = (action = "defer")
  /\ Go(c, IF action = "restart" THEN More(c, RestartDaemon) ELSE Rest(c))
  /\ UNCHANGED <<user, disk, daemon, cli, shown, poll, guard, bounds>>

-----------------------------------------------------------------------------
(* Status: the poll loop reads /health and then shows what it read.  It      *)
(* starts when the binary is found, and its period is longer than a probe.  *)

Bootstrap ==
  /\ cli = "resolving"
  /\ \/ cli' = "found" /\ shown' = "stopped" /\ UNCHANGED hit
     \/ cli' = "missing" /\ shown' = "cli_not_found" /\ Fault("cli")
  /\ UNCHANGED <<user, disk, daemon, poll, pendingVersionRestart, guard, call, acts, tasks>>

PollBegin ==
  /\ cli = "found" /\ poll = "none"
  /\ poll' = IF Up THEN "running" ELSE "stopped"
  /\ UNCHANGED <<user, disk, daemon, cli, shown, pendingVersionRestart, guard, call, bounds>>

fetchHealthSticky == IF shown = "starting" THEN "starting" ELSE poll \* mutant

\* A daemon that does not answer is shown as starting for as long as it was.
fetchHealth == IF poll = "stopped" /\ shown = "starting" THEN "starting" ELSE poll

PollEndOnce == \* mutant: a deferred restart is not tried again
  /\ poll # "none"
  /\ poll' = "none" /\ shown' = fetchHealth
  /\ UNCHANGED <<user, disk, daemon, cli, pendingVersionRestart, guard, call, bounds>>

PollEnd ==
  /\ poll # "none"
  /\ poll' = "none" /\ shown' = fetchHealth
  /\ IF pendingVersionRestart /\ poll = "running"
     THEN Free # {} /\ call' = [call EXCEPT ![Slot] = Chain(<<"checkVersion">>, None)]
     ELSE UNCHANGED call
  /\ UNCHANGED <<user, disk, daemon, cli, pendingVersionRestart, guard, bounds>>

-----------------------------------------------------------------------------
(* The daemon process (the Go program): it reads the token once, when it    *)
(* boots, and gives up when there is none or the server does not answer.    *)

BootReadsTokenAnyway == \* mutant: no token is no reason to give up
  /\ daemon.st = "booting" /\ daemon.cred = None
  /\ daemon' = [daemon EXCEPT !.cred = token, !.st = IF token = None THEN "up" ELSE @]
  /\ UNCHANGED <<user, disk, status, guard, call, bounds>>

BootReadsToken ==
  /\ daemon.st = "booting" /\ daemon.cred = None
  /\ daemon' = IF token = None THEN Off ELSE [daemon EXCEPT !.cred = token]
  /\ UNCHANGED <<user, disk, status, guard, call, bounds>>

BootEnds ==
  /\ daemon.st = "booting" /\ daemon.cred # None
  /\ \/ daemon' = [daemon EXCEPT !.st = "up"] /\ UNCHANGED hit
     \/ daemon' = Off /\ Fault("boot")
  /\ UNCHANGED <<user, disk, status, guard, call, acts, tasks>>

TaskBegins ==
  /\ Up /\ ~daemon.busy /\ tasks < MaxTasks
  /\ tasks' = tasks + 1
  /\ daemon' = [daemon EXCEPT !.busy = TRUE]
  /\ UNCHANGED <<user, disk, status, guard, call, hit, acts>>

TaskEnds ==
  /\ daemon.busy
  /\ daemon' = [daemon EXCEPT !.busy = FALSE]
  /\ UNCHANGED <<user, disk, status, guard, call, bounds>>

-----------------------------------------------------------------------------
(* The user.  Every act starts chains and waits for none of them.           *)

Acts(t, u) ==
  /\ Patient => Quiet
  /\ acts < MaxActs /\ acts' = acts + 1
  /\ Free # {} /\ call' = [call EXCEPT ![Slot] = Chain(t, u)]
  /\ UNCHANGED <<disk, daemon, poll, pendingVersionRestart, guard, hit, tasks>>

\* A login, a deep link that switches accounts, and a refresh of the profile
\* all store a new user object, which runs the login effect.
Login(u) == user' = u /\ Acts(OnLogin, u) /\ UNCHANGED <<cli, shown>>

\* useLogout logs out and navigates to /login, which the desktop's adapter
\* turns into a second logout: handleDaemonLogout runs twice.
Logout ==
  /\ user # None /\ (Patient => Quiet)
  /\ acts < MaxActs /\ acts' = acts + 1
  /\ Cardinality(Free) > 1
  /\ LET other == CHOOSE c \in Free \ {Slot} : TRUE IN
     call' = [call EXCEPT ![Slot] = Chain(OnLogout, None), ![other] = Chain(OnLogout, None)]
  /\ user' = None
  /\ UNCHANGED <<disk, daemon, status, guard, hit, tasks>>

PressStart == user # None /\ shown = "stopped" /\ Acts(Start, None) /\ UNCHANGED <<user, cli, shown>>
PressStop  == user # None /\ shown = "running" /\ Acts(Stop, None) /\ UNCHANGED <<user, cli, shown>>

\* The button, or the effect on a user's first workspace, which has no look
\* at the status.
RestartForWorkspace == user # None /\ Acts(Restart, None) /\ UNCHANGED <<user, cli, shown>>

RetryInstall ==
  /\ user # None /\ shown = "cli_not_found" /\ cli = "missing"
  /\ cli' = "resolving"
  /\ acts < MaxActs /\ acts' = acts + 1
  /\ UNCHANGED <<user, disk, daemon, shown, poll, pendingVersionRestart, guard, call, hit, tasks>>

\* The app quits or dies and is opened again: files and daemon stay, and the
\* session is restored for the same user.  It is a failure while something is
\* under way: the chains end where they are.
AppRestart ==
  /\ IF Quiet THEN "quit" \in Faults /\ UNCHANGED hit ELSE Fault("quit")
  /\ acts < MaxActs /\ acts' = acts + 1
  /\ cli' = "resolving" /\ shown' = "installing_cli" /\ poll' = "none"
  /\ pendingVersionRestart' = FALSE /\ guard' = FALSE
  /\ call' = Opening
  /\ UNCHANGED <<user, disk, daemon, tasks>>

-----------------------------------------------------------------------------
Step(c) ==
  \/ ReadConfig(c) \/ ReadUserId(c) \/ ChooseToken(c) \/ Mint(c) \/ WriteConfig(c)
  \/ WriteUserId(c) \/ Switched(c) \/ ClearRead(c) \/ ClearWrite(c) \/ ClearUserId(c)
  \/ TakeGuard(c) \/ Release(c) \/ StartDaemon(c) \/ StartExec(c) \/ StartWait(c)
  \/ StopDaemon(c) \/ StopExec(c) \/ AutoStart(c) \/ CheckVersion(c)

Polling == PollBegin \/ PollEnd
Booting == BootReadsToken \/ BootEnds

User ==
  \/ \E u \in Users : Login(u)
  \/ Logout \/ PressStart \/ PressStop \/ RestartForWorkspace \/ RetryInstall \/ AppRestart

Next ==
  \/ \E c \in Calls : Step(c)
  \/ Bootstrap \/ Polling \/ Booting \/ TaskBegins \/ TaskEnds \/ User

Spec == Init /\ [][Next]_vars

\* The event loop runs one of the chains when one can go on, timers tick, the
\* boot and the tasks of the daemon end.  Nothing is assumed of the user.
Fairness ==
  /\ WF_vars(\E c \in Calls : Step(c))
  /\ WF_vars(Bootstrap) /\ WF_vars(Polling) /\ WF_vars(Booting) /\ WF_vars(TaskEnds)

FairSpec == Spec /\ Fairness

-----------------------------------------------------------------------------
TypeOK ==
  /\ user \in Users \cup {None} /\ token \in Users \cup {None} /\ sidecar \in Users \cup {None}
  /\ daemon \in [st : {"down", "booting", "up"}, cred : Users \cup {None}, old : BOOLEAN, busy : BOOLEAN]
  /\ Up => daemon.cred # None
  /\ cli \in {"resolving", "found", "missing"}
  /\ shown \in {"installing_cli", "cli_not_found", "starting", "running", "stopping", "stopped"}
  /\ poll \in {"none", "running", "stopped"}
  /\ guard \in BOOLEAN /\ pendingVersionRestart \in BOOLEAN
  /\ \A c \in Calls :
       /\ call[c].todo \in Seq(StepNames)
       /\ <<call[c].who, call[c].config, call[c].previous>> \in (Users \cup {None}) \X (Users \cup {None}) \X (Users \cup {None})
  /\ hit \subseteq Faults /\ acts \in 0 .. MaxActs /\ tasks \in 0 .. MaxTasks

\* Once the app has settled, a daemon that runs does so with the credentials of
\* the user who is logged in: none runs after a logout, and none is inherited
\* by the next user, whichever chain (login, detached restart, version check,
\* first workspace) came last.  A failed stop or mint is not made good, nor is
\* what a quit left undone.
DaemonIsUsers ==
  Quiet /\ hit \cap {"mint", "kill", "cli", "quit"} = {} /\ Up => daemon.cred = user

\* Once settled, the sidecar tells the truth about the token: the cached token
\* that the next login of this user reuses is that user's, whatever failed.  A
\* quit between the two writes is made good at the next start, if that can mint.
SidecarTruthful ==
  Quiet /\ ~({"quit", "mint"} \subseteq hit) /\ sidecar # None /\ token # None => sidecar = token

\* Once settled, a logged-out machine keeps neither token nor sidecar, unless
\* the app was quit before it had cleared them.
LoggedOutClean == Quiet /\ "quit" \notin hit /\ user = None => token = None /\ sidecar = None

\* A login ends with a daemon that runs as this user.
LoginRuns ==
  (\E c \in Calls : At(c, "autoStart")) ~> (Up /\ daemon.cred = user) \/ hit # {}

\* A restart for a newer version that was put off because of a task happens
\* once the daemon is idle.
VersionCatchesUp == pendingVersionRestart ~> (Up /\ ~daemon.old) \/ hit # {}

\* The status never stays in transition, where the panel has no button.
ShownSettles == shown \in {"starting", "stopping"} ~> shown \in {"running", "stopped"} \/ hit # {}
=============================================================================
