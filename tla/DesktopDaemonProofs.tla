------------------------ MODULE DesktopDaemonProofs ------------------------
(***************************************************************************)
(* Proofs about the desktop app's daemon manager.  Types hold whatever the *)
(* user does.  The token file and its sidecar tell the truth, a logout     *)
(* leaves nothing and the daemon is the user's (SidecarTruthful,           *)
(* LoggedOutClean, DaemonIsUsers) if the user waits for the app between    *)
(* two acts: the theorems assume Patient, without which TLC refutes the    *)
(* last (run v_logout).                                                    *)
(***************************************************************************)
EXTENDS DesktopDaemon, FiniteSetTheorems, SequenceTheorems, TLAPS

Owners  == Users \cup {None}
Records == [todo : Seq(StepNames), who : Owners, config : Owners, previous : Owners]

Daemons == [st : {"down", "booting", "up"}, cred : Owners, old : BOOLEAN, busy : BOOLEAN]

Typed ==
  /\ user \in Owners /\ token \in Owners /\ sidecar \in Owners
  /\ daemon \in Daemons /\ (Up => daemon.cred # None)
  /\ cli \in {"resolving", "found", "missing"}
  /\ shown \in {"installing_cli", "cli_not_found", "starting", "running", "stopping", "stopped"}
  /\ poll \in {"none", "running", "stopped"}
  /\ guard \in BOOLEAN /\ pendingVersionRestart \in BOOLEAN
  /\ call \in [Calls -> Records]
  /\ hit \subseteq Faults /\ acts \in 0 .. MaxActs /\ tasks \in 0 .. MaxTasks

-----------------------------------------------------------------------------
(* Chains *)

\* What is left of a login's chain, step by step.
L2 == <<"readUserId", "chooseToken", "writeConfig", "writeUserId", "switched", "autoStart">>
L3 == <<"chooseToken", "writeConfig", "writeUserId", "switched", "autoStart">>
L4 == <<"writeConfig", "writeUserId", "switched", "autoStart">>
LM == <<"mint">> \o L4
L5 == <<"writeUserId", "switched", "autoStart">>
L6 == <<"switched", "autoStart">>

\* What is left of a logout's chain.
C2 == <<"clearUserId", "guard", "stopDaemon", "release">>
C1 == <<"clearWrite">> \o C2
G1 == <<"stopDaemon", "release">>
G3 == <<"release">>
G2 == <<"stopExec">> \o G3

\* The steps of a chain that works on the daemon, past the guard.
Inner == {"autoStart", "checkVersion", "release", "startDaemon", "startExec", "startWait",
          "stopDaemon", "stopExec"}

\* A step put before the rest of a chain is the next to run.
LEMMA Cons ==
  ASSUME NEW S, NEW s \in S, NEW t \in Seq(S)
  PROVE  /\ <<s>> \o t \in Seq(S) /\ <<s>> \o t # <<>>
         /\ Head(<<s>> \o t) = s /\ Tail(<<s>> \o t) = t
<1> DEFINE u == <<s>> \o t
<1>1. <<s>> \in Seq(S) /\ Len(<<s>>) = 1 /\ <<s>>[1] = s
  OBVIOUS
<1>2. /\ u \in Seq(S) /\ Len(u) = 1 + Len(t)
      /\ \A i \in 1 .. 1 + Len(t) : u[i] = IF i <= 1 THEN <<s>>[i] ELSE t[i - 1]
  <2>1. /\ u \in Seq(S) /\ Len(u) = Len(<<s>>) + Len(t)
        /\ \A i \in 1 .. Len(<<s>>) + Len(t) : u[i] = IF i <= Len(<<s>>) THEN <<s>>[i] ELSE t[i - Len(<<s>>)]
    BY <1>1, ConcatProperties
  <2> QED BY <2>1, <1>1
<1> HIDE DEF u
<1>3. Len(t) \in Nat
  BY LenProperties
<1>4. u # <<>> /\ u[1] = s
  BY <1>1, <1>2, <1>3
<1>5. Head(u) = s
  BY <1>2, <1>4
<1>6. Tail(u) \in Seq(S) /\ Len(Tail(u)) = Len(t) /\ \A i \in 1 .. Len(Tail(u)) : Tail(u)[i] = u[i + 1]
  BY <1>2, <1>3, <1>4, HeadTailProperties
<1>7. \A i \in 1 .. Len(t) : u[i + 1] = t[i]
  BY <1>2, <1>3
<1>8. Tail(u) = t
  BY <1>6, <1>7, SeqEqual
<1> QED BY <1>2, <1>4, <1>5, <1>8 DEF u

LEMMA LoginLists ==
  /\ OnLogin \in Seq(StepNames) /\ OnLogin # <<>> /\ Head(OnLogin) = "readConfig" /\ Tail(OnLogin) = L2
  /\ L2 \in Seq(StepNames) /\ L2 # <<>> /\ Head(L2) = "readUserId" /\ Tail(L2) = L3
  /\ L3 \in Seq(StepNames) /\ L3 # <<>> /\ Head(L3) = "chooseToken" /\ Tail(L3) = L4
  /\ LM \in Seq(StepNames) /\ LM # <<>> /\ Head(LM) = "mint" /\ Tail(LM) = L4
  /\ L4 \in Seq(StepNames) /\ L4 # <<>> /\ Head(L4) = "writeConfig" /\ Tail(L4) = L5
  /\ L5 \in Seq(StepNames) /\ L5 # <<>> /\ Head(L5) = "writeUserId" /\ Tail(L5) = L6
  /\ L6 \in Seq(StepNames) /\ L6 # <<>> /\ Head(L6) = "switched" /\ Tail(L6) = <<"autoStart">>
<1> DEFINE L1 == <<"readConfig", "readUserId", "chooseToken", "writeConfig", "writeUserId", "switched", "autoStart">>
<1>1. OnLogin = L1
  <2> DEFINE last == <<"autoStart">>
  <2>1. /\ Sync \in Seq(StepNames) /\ Len(Sync) = 6
        /\ last \in Seq(StepNames) /\ Len(last) = 1 /\ last[1] = "autoStart"
    BY DEF Sync, StepNames
  <2>2. OnLogin = Sync \o last
    BY DEF OnLogin
  <2> HIDE DEF last
  <2>3. /\ OnLogin \in Seq(StepNames) /\ Len(OnLogin) = Len(Sync) + Len(last)
        /\ \A i \in 1 .. Len(Sync) + Len(last) :
             OnLogin[i] = IF i <= Len(Sync) THEN Sync[i] ELSE last[i - Len(Sync)]
    BY <2>1, <2>2, ConcatProperties
  <2>4. L1 \in Seq(StepNames) /\ Len(L1) = 7
    BY DEF StepNames
  <2>5. \A i \in 1 .. 7 : OnLogin[i] = L1[i]
    BY <2>1, <2>3 DEF Sync
  <2> QED BY <2>1, <2>3, <2>4, <2>5, SeqEqual
<1>2. OnLogin \in Seq(StepNames) /\ OnLogin # <<>> /\ Head(OnLogin) = "readConfig" /\ Tail(OnLogin) = L2
  BY <1>1 DEF L2, StepNames
<1>3. L2 \in Seq(StepNames) /\ L2 # <<>> /\ Head(L2) = "readUserId" /\ Tail(L2) = L3
  BY DEF L2, L3, StepNames
<1>4. L3 \in Seq(StepNames) /\ L3 # <<>> /\ Head(L3) = "chooseToken" /\ Tail(L3) = L4
  BY DEF L3, L4, StepNames
<1>5. LM \in Seq(StepNames) /\ LM # <<>> /\ Head(LM) = "mint" /\ Tail(LM) = L4
  <2>1. L4 \in Seq(StepNames) /\ "mint" \in StepNames
    BY DEF L4, StepNames
  <2> QED BY <2>1, Cons DEF LM
<1>6. L4 \in Seq(StepNames) /\ L4 # <<>> /\ Head(L4) = "writeConfig" /\ Tail(L4) = L5
  BY DEF L4, L5, StepNames
<1>7. L5 \in Seq(StepNames) /\ L5 # <<>> /\ Head(L5) = "writeUserId" /\ Tail(L5) = L6
  BY DEF L5, L6, StepNames
<1>8. L6 \in Seq(StepNames) /\ L6 # <<>> /\ Head(L6) = "switched" /\ Tail(L6) = <<"autoStart">>
  BY DEF L6, StepNames
<1> QED BY <1>2, <1>3, <1>4, <1>5, <1>6, <1>7, <1>8

LEMMA ClearLists ==
  /\ OnLogout \in Seq(StepNames) /\ OnLogout # <<>> /\ Head(OnLogout) = "clearRead" /\ Tail(OnLogout) = C2
  /\ C1 \in Seq(StepNames) /\ C1 # <<>> /\ Head(C1) = "clearWrite" /\ Tail(C1) = C2
  /\ C2 \in Seq(StepNames) /\ C2 # <<>> /\ Head(C2) = "clearUserId" /\ Tail(C2) = Stop
  /\ Stop \in Seq(StepNames) /\ Stop # <<>> /\ Head(Stop) = "guard" /\ Tail(Stop) = G1
  /\ G1 \in Seq(StepNames) /\ G1 # <<>> /\ Head(G1) = "stopDaemon" /\ Tail(G1) = G3
  /\ G2 \in Seq(StepNames) /\ G2 # <<>> /\ Head(G2) = "stopExec" /\ Tail(G2) = G3
  /\ G3 \in Seq(StepNames) /\ G3 # <<>> /\ Head(G3) = "release" /\ Tail(G3) = <<>>
<1>1. OnLogout \in Seq(StepNames) /\ OnLogout # <<>> /\ Head(OnLogout) = "clearRead" /\ Tail(OnLogout) = C2
  BY DEF OnLogout, C2, StepNames
<1>2. C1 \in Seq(StepNames) /\ C1 # <<>> /\ Head(C1) = "clearWrite" /\ Tail(C1) = C2
  <2>1. C2 \in Seq(StepNames) /\ "clearWrite" \in StepNames
    BY DEF C2, StepNames
  <2> QED BY <2>1, Cons DEF C1
<1>3. C2 \in Seq(StepNames) /\ C2 # <<>> /\ Head(C2) = "clearUserId" /\ Tail(C2) = Stop
  BY DEF C2, Stop, StepNames
<1>4. Stop \in Seq(StepNames) /\ Stop # <<>> /\ Head(Stop) = "guard" /\ Tail(Stop) = G1
  BY DEF Stop, G1, StepNames
<1>5. G1 \in Seq(StepNames) /\ G1 # <<>> /\ Head(G1) = "stopDaemon" /\ Tail(G1) = G3
  BY DEF G1, G3, StepNames
<1>6. G2 \in Seq(StepNames) /\ G2 # <<>> /\ Head(G2) = "stopExec" /\ Tail(G2) = G3
  <2>1. G3 \in Seq(StepNames) /\ "stopExec" \in StepNames
    BY DEF G3, StepNames
  <2> QED BY <2>1, Cons DEF G2
<1>7. G3 \in Seq(StepNames) /\ G3 # <<>> /\ Head(G3) = "release" /\ Tail(G3) = <<>>
  BY DEF G3, StepNames
<1> QED BY <1>1, <1>2, <1>3, <1>4, <1>5, <1>6, <1>7

\* The chains that ask for the guard, and those that do without.
LEMMA InnerLists ==
  /\ Start \in Seq(StepNames) /\ Start # <<>> /\ Head(Start) = "guard"
  /\ Restart \in Seq(StepNames) /\ Restart # <<>> /\ Head(Restart) = "guard"
  /\ RestartDaemon \in Seq(Inner) /\ RestartDaemon # <<>> /\ Head(RestartDaemon) = "stopDaemon"
  /\ <<>> \in Seq(Inner) /\ Inner \subseteq StepNames
<1>1. Start \in Seq(StepNames) /\ Start # <<>> /\ Head(Start) = "guard"
  BY DEF Start, StepNames
<1>2. Restart \in Seq(StepNames) /\ Restart # <<>> /\ Head(Restart) = "guard"
  BY DEF Restart, StepNames
<1>3. RestartDaemon \in Seq(Inner) /\ RestartDaemon # <<>> /\ Head(RestartDaemon) = "stopDaemon"
  BY DEF RestartDaemon, Inner
<1>4. <<>> \in Seq(Inner) /\ Inner \subseteq StepNames
  BY EmptySeq DEF Inner, StepNames
<1> QED BY <1>1, <1>2, <1>3, <1>4

\* A chain that was given the guard and still has to give it back.
Holding(t) == t # <<>> /\ t \in Seq(Inner) /\ t[Len(t)] = "release"

LEMMA HoldingStarts == Holding(Tail(Start)) /\ Holding(Tail(Stop)) /\ Holding(Tail(Restart))
<1>1. Tail(Start) = <<"startDaemon", "release">>
  BY DEF Start
<1>2. Tail(Stop) = <<"stopDaemon", "release">>
  BY DEF Stop
<1>3. Tail(Restart) = <<"stopDaemon", "startDaemon", "release">>
  BY DEF Restart
<1>4. Holding(<<"startDaemon", "release">>)
  BY DEF Holding, Inner
<1>5. Holding(<<"stopDaemon", "release">>)
  BY DEF Holding, Inner
<1>6. Holding(<<"stopDaemon", "startDaemon", "release">>)
  BY DEF Holding, Inner
<1> QED BY <1>1, <1>2, <1>3, <1>4, <1>5, <1>6

\* A chain that holds the guard goes on holding it until the step that gives
\* it back; steps put before the rest change nothing in this.
LEMMA HoldingTail ==
  ASSUME NEW t \in Seq(Inner), t # <<>>
  PROVE  /\ Head(t) \in Inner /\ Tail(t) \in Seq(Inner)
         /\ Holding(t) /\ Head(t) # "release" => Holding(Tail(t))
<1>1. /\ Head(t) \in Inner /\ Tail(t) \in Seq(Inner) /\ Len(Tail(t)) = Len(t) - 1
      /\ \A i \in 1 .. Len(Tail(t)) : Tail(t)[i] = t[i + 1]
  BY HeadTailProperties
<1>2. Len(t) \in Nat \ {0} /\ Head(t) = t[1]
  BY EmptySeq
<1>3. ASSUME Holding(t), Head(t) # "release"
      PROVE  Holding(Tail(t))
  <2>1. Len(t) # 1
    BY <1>2, <1>3 DEF Holding
  <2>2. Len(Tail(t)) \in Nat \ {0}
    BY <1>1, <1>2, <2>1
  <2>3. Tail(t)[Len(Tail(t))] = t[Len(t)]
    BY <1>1, <1>2, <2>2
  <2>4. Tail(t) # <<>>
    BY <2>2, EmptySeq
  <2> QED BY <1>1, <1>3, <2>3, <2>4 DEF Holding
<1> QED BY <1>1, <1>3

LEMMA HoldingConcat ==
  ASSUME NEW s \in Seq(Inner), NEW t \in Seq(Inner)
  PROVE  s \o t \in Seq(Inner) /\ (Holding(t) => Holding(s \o t))
<1> DEFINE u == s \o t
<1>1. /\ u \in Seq(Inner) /\ Len(u) = Len(s) + Len(t)
      /\ \A i \in 1 .. Len(s) + Len(t) : u[i] = IF i <= Len(s) THEN s[i] ELSE t[i - Len(s)]
  BY ConcatProperties
<1> HIDE DEF u
<1>2. ASSUME Holding(t)
      PROVE  Holding(u)
  <2>1. Len(s) \in Nat /\ Len(t) \in Nat \ {0}
    BY <1>2, EmptySeq, LenProperties DEF Holding
  <2>2. Len(u) # 0 /\ u[Len(u)] = t[Len(t)]
    BY <1>1, <2>1
  <2>3. u # <<>>
    BY <2>2, EmptySeq
  <2> QED BY <1>1, <1>2, <2>2, <2>3 DEF Holding
<1> QED BY <1>1, <1>2 DEF u

-----------------------------------------------------------------------------
(* One step of one chain *)

LEMMA IdleRecord == Idle \in Records /\ Idle.todo = <<>>
BY EmptySeq DEF Idle, Records, Owners

LEMMA RestartDaemonSteps == RestartDaemon \in Seq(StepNames)
BY DEF RestartDaemon, StepNames

LEMMA Goes ==
  ASSUME call \in [Calls -> Records], NEW c \in Calls, NEW l \in Records, Go(c, l)
  PROVE  /\ call' \in [Calls -> Records]
         /\ call'[c].todo = l.todo
         /\ l.todo # <<>> => call'[c] = l
         /\ \A d \in Calls : d # c => call'[d] = call[d]
<1>2. Settle(l) \in Records /\ Settle(l).todo = l.todo /\ (l.todo # <<>> => Settle(l) = l)
  BY IdleRecord DEF Settle
<1> QED BY <1>2 DEF Go

LEMMA Rests ==
  ASSUME call \in [Calls -> Records], NEW c \in Calls, call[c].todo # <<>>
  PROVE  /\ Rest(c) \in Records
         /\ Rest(c).todo = Tail(call[c].todo) /\ Rest(c).who = call[c].who
         /\ Rest(c).config = call[c].config /\ Rest(c).previous = call[c].previous
<1>1. call[c] \in Records
  OBVIOUS
<1>2. Tail(call[c].todo) \in Seq(StepNames)
  BY <1>1, HeadTailProperties DEF Records
<1> QED BY <1>1, <1>2 DEF Rest, Records

LEMMA Mores ==
  ASSUME call \in [Calls -> Records], NEW c \in Calls, call[c].todo # <<>>,
         NEW s \in Seq(StepNames)
  PROVE  /\ More(c, s) \in Records
         /\ More(c, s).todo = s \o Tail(call[c].todo) /\ More(c, s).who = call[c].who
         /\ More(c, s).config = call[c].config /\ More(c, s).previous = call[c].previous
<1>1. call[c] \in Records
  OBVIOUS
<1>2. Tail(call[c].todo) \in Seq(StepNames)
  BY <1>1, HeadTailProperties DEF Records
<1>3. s \o Tail(call[c].todo) \in Seq(StepNames)
  BY <1>2, ConcatProperties
<1> QED BY <1>1, <1>3 DEF More, Records

LEMMA Chains ==
  ASSUME NEW t \in Seq(StepNames), NEW u \in Owners
  PROVE  /\ Chain(t, u) \in Records
         /\ Chain(t, u).todo = t /\ Chain(t, u).who = u
BY EmptySeq DEF Chain, Idle, Records, Owners

LEMMA Fails ==
  ASSUME NEW l \in Records
  PROVE  /\ Failed(l) \in Records
         /\ Failed(l).todo \in {l.todo, Tail(l.todo)}
         /\ l.todo = <<>> => Failed(l).todo = <<>>
         /\ Failed(l).todo # l.todo => l.todo # <<>> /\ Head(l.todo) = "startDaemon"
<1>1. l.todo # <<>> => Tail(l.todo) \in Seq(StepNames)
  BY HeadTailProperties DEF Records
<1> QED BY <1>1 DEF Failed, Records

-----------------------------------------------------------------------------
(* Types *)

LEMMA OffDaemon == Off \in Daemons /\ Off.st = "down" /\ Off.cred = None
BY DEF Off, Daemons, Owners

\* The daemon found at a start is down, or up with the session's user.
LEMMA InitialDaemon ==
  Init => /\ daemon \in Daemons /\ daemon.st # "booting" /\ daemon.cred \in {None, user}
          /\ Up => daemon.cred # None
          /\ daemon.st = "down" => daemon.cred = None
          /\ user = None => daemon.st = "down"
<1> SUFFICES ASSUME Init
    PROVE  /\ daemon \in Daemons /\ daemon.st # "booting" /\ daemon.cred \in {None, user}
           /\ Up => daemon.cred # None
           /\ daemon.st = "down" => daemon.cred = None
           /\ user = None => daemon.st = "down"
  OBVIOUS
<1>1. CASE daemon = Off
  BY <1>1, OffDaemon DEF Up
<1>2. CASE user \in Users /\ \E o \in BOOLEAN : daemon = [Off EXCEPT !.st = "up", !.cred = user, !.old = o]
  <2>1. PICK o \in BOOLEAN : daemon = [Off EXCEPT !.st = "up", !.cred = user, !.old = o]
    BY <1>2
  <2>2. daemon = [st |-> "up", cred |-> user, old |-> o, busy |-> FALSE]
    BY <2>1 DEF Off
  <2> QED BY <1>2, <2>2, DesktopAssumption DEF Daemons, Owners, Up
<1> QED BY <1>1, <1>2 DEF Init

LEMMA TypedInit == Init => Typed
<1> SUFFICES ASSUME Init PROVE Typed
  OBVIOUS
<1>1. user \in Owners /\ token \in Owners /\ sidecar \in Owners
  BY DEF Init, Owners
<1>2. daemon \in Daemons /\ (Up => daemon.cred # None)
  BY InitialDaemon
<1>3. call \in [Calls -> Records]
  <2>1. Chain(OnLogin, user) \in Records
    BY <1>1, Chains, LoginLists
  <2>2. Idle \in Records
    BY EmptySeq DEF Idle, Records, Owners
  <2>3. call = Opening
    BY DEF Init
  <2> QED BY <2>1, <2>2, <2>3 DEF Opening
<1>4. hit \subseteq Faults /\ acts \in 0 .. MaxActs /\ tasks \in 0 .. MaxTasks
  <2>1. hit = {} /\ acts = 0 /\ tasks = 0
    BY DEF Init
  <2> QED BY <2>1, DesktopAssumption
<1>5. guard \in BOOLEAN /\ pendingVersionRestart \in BOOLEAN
  BY DEF Init
<1> QED BY <1>1, <1>2, <1>3, <1>4, <1>5 DEF Init, Typed

LEMMA TypedNext == Typed /\ [Next]_vars => Typed'
<1> SUFFICES ASSUME Typed, [Next]_vars PROVE Typed'
  OBVIOUS
<1> USE DEF disk, status, bounds
<1>0. /\ call \in [Calls -> Records] /\ user \in Owners /\ token \in Owners /\ sidecar \in Owners
      /\ None \in Owners
  BY DEF Typed, Owners
<1>1. \A c \in Calls : call[c].who \in Owners /\ call[c].config \in Owners /\ call[c].previous \in Owners
  BY <1>0 DEF Records
<1>2. ASSUME NEW c \in Calls, ReadConfig(c)
      PROVE  Typed'
  <2>1. call[c].todo # <<>> /\ Go(c, [Rest(c) EXCEPT !.config = token])
    BY <1>2 DEF ReadConfig, At
  <2>2. [Rest(c) EXCEPT !.config = token] \in Records
    BY <1>0, <2>1, Rests DEF Records
  <2>3. call' \in [Calls -> Records]
    BY <1>0, <2>1, <2>2, Goes
  <2> QED BY <1>0, <1>1, <1>2, <2>3 DEF ReadConfig, Typed, Up
<1>3. ASSUME NEW c \in Calls, ReadUserId(c)
      PROVE  Typed'
  <2>1. call[c].todo # <<>> /\ Go(c, [Rest(c) EXCEPT !.previous = sidecar])
    BY <1>3 DEF ReadUserId, At
  <2>2. [Rest(c) EXCEPT !.previous = sidecar] \in Records
    BY <1>0, <2>1, Rests DEF Records
  <2>3. call' \in [Calls -> Records]
    BY <1>0, <2>1, <2>2, Goes
  <2> QED BY <1>0, <1>1, <1>3, <2>3 DEF ReadUserId, Typed, Up
<1>4. ASSUME NEW c \in Calls, ChooseToken(c)
      PROVE  Typed'
  <2>1. call[c].todo # <<>> /\ Go(c, (IF Reusable(call[c]) THEN Rest(c) ELSE More(c, <<"mint">>)))
    BY <1>4 DEF ChooseToken, At
  <2>2. (IF Reusable(call[c]) THEN Rest(c) ELSE More(c, <<"mint">>)) \in Records
    <3>1. <<"mint">> \in Seq(StepNames)
      BY DEF StepNames
    <3> QED BY <1>0, <2>1, <3>1, Rests, Mores
  <2>3. call' \in [Calls -> Records]
    BY <1>0, <2>1, <2>2, Goes
  <2> QED BY <1>0, <1>1, <1>4, <2>3 DEF ChooseToken, Typed, Up
<1>5. ASSUME NEW c \in Calls, Mint(c)
      PROVE  Typed'
  <2>1. call[c].todo # <<>>
    BY <1>5 DEF Mint, At
  <2>2. [Rest(c) EXCEPT !.config = call[c].who] \in Records /\ Idle \in Records
    BY <1>0, <1>1, <2>1, Rests, EmptySeq DEF Records, Idle, Owners
  <2>3. call' \in [Calls -> Records] /\ hit' \subseteq Faults
    BY <1>0, <1>5, <2>2, Goes DEF Mint, Fault, Typed
  <2> QED BY <1>0, <1>5, <2>3 DEF Mint, Typed, Up
<1>6. ASSUME NEW c \in Calls, WriteConfig(c)
      PROVE  Typed'
  <2>1. call[c].todo # <<>> /\ Go(c, Rest(c))
    BY <1>6 DEF WriteConfig, At
  <2>2. Rest(c) \in Records
    BY <1>0, <2>1, Rests
  <2>3. call' \in [Calls -> Records]
    BY <1>0, <2>1, <2>2, Goes
  <2> QED BY <1>0, <1>1, <1>6, <2>3 DEF WriteConfig, Typed, Up
<1>7. ASSUME NEW c \in Calls, WriteUserId(c)
      PROVE  Typed'
  <2>1. call[c].todo # <<>> /\ Go(c, Rest(c))
    BY <1>7 DEF WriteUserId, At
  <2>2. Rest(c) \in Records
    BY <1>0, <2>1, Rests
  <2>3. call' \in [Calls -> Records]
    BY <1>0, <2>1, <2>2, Goes
  <2> QED BY <1>0, <1>1, <1>7, <2>3 DEF WriteUserId, Typed, Up
<1>8. ASSUME NEW c \in Calls, Switched(c)
      PROVE  Typed'
  <2>1. call[c].todo # <<>>
    BY <1>8 DEF Switched, At
  <2>2. /\ Rest(c) \in Records /\ Settle(Rest(c)) \in Records /\ Chain(RestartDaemon, None) \in Records
    BY <1>0, <2>1, Rests, Chains, RestartDaemonSteps, IdleRecord DEF Settle
  <2>3. call' \in [Calls -> Records]
    BY <1>0, <1>8, <2>2, Goes DEF Switched
  <2> QED BY <1>0, <1>8, <2>3 DEF Switched, Typed, Up
<1>9. ASSUME NEW c \in Calls, ClearRead(c)
      PROVE  Typed'
  <2>1. call[c].todo # <<>> /\ Go(c, (IF token # None THEN More(c, <<"clearWrite">>) ELSE Rest(c)))
    BY <1>9 DEF ClearRead, At
  <2>2. (IF token # None THEN More(c, <<"clearWrite">>) ELSE Rest(c)) \in Records
    <3>1. <<"clearWrite">> \in Seq(StepNames)
      BY DEF StepNames
    <3> QED BY <1>0, <2>1, <3>1, Rests, Mores
  <2>3. call' \in [Calls -> Records]
    BY <1>0, <2>1, <2>2, Goes
  <2> QED BY <1>0, <1>1, <1>9, <2>3 DEF ClearRead, Typed, Up
<1>10. ASSUME NEW c \in Calls, ClearWrite(c)
      PROVE  Typed'
  <2>1. call[c].todo # <<>> /\ Go(c, Rest(c))
    BY <1>10 DEF ClearWrite, At
  <2>2. Rest(c) \in Records
    BY <1>0, <2>1, Rests
  <2>3. call' \in [Calls -> Records]
    BY <1>0, <2>1, <2>2, Goes
  <2> QED BY <1>0, <1>1, <1>10, <2>3 DEF ClearWrite, Typed, Up
<1>11. ASSUME NEW c \in Calls, ClearUserId(c)
      PROVE  Typed'
  <2>1. call[c].todo # <<>> /\ Go(c, Rest(c))
    BY <1>11 DEF ClearUserId, At
  <2>2. Rest(c) \in Records
    BY <1>0, <2>1, Rests
  <2>3. call' \in [Calls -> Records]
    BY <1>0, <2>1, <2>2, Goes
  <2> QED BY <1>0, <1>1, <1>11, <2>3 DEF ClearUserId, Typed, Up
<1>12. ASSUME NEW c \in Calls, TakeGuard(c)
      PROVE  Typed'
  <2>1. call[c].todo # <<>> /\ Go(c, (IF guard THEN Idle ELSE Rest(c)))
    BY <1>12 DEF TakeGuard, At
  <2>2. (IF guard THEN Idle ELSE Rest(c)) \in Records
    BY <1>0, <2>1, Rests, IdleRecord
  <2>3. call' \in [Calls -> Records]
    BY <1>0, <2>1, <2>2, Goes
  <2> QED BY <1>0, <1>1, <1>12, <2>3 DEF TakeGuard, Typed, Up
<1>13. ASSUME NEW c \in Calls, Release(c)
      PROVE  Typed'
  <2>1. call[c].todo # <<>> /\ Go(c, Rest(c))
    BY <1>13 DEF Release, At
  <2>2. Rest(c) \in Records
    BY <1>0, <2>1, Rests
  <2>3. call' \in [Calls -> Records]
    BY <1>0, <2>1, <2>2, Goes
  <2> QED BY <1>0, <1>1, <1>13, <2>3 DEF Release, Typed, Up
<1>14. ASSUME NEW c \in Calls, StartDaemon(c)
      PROVE  Typed'
  <2>1. call[c].todo # <<>>
    BY <1>14 DEF StartDaemon, At
  <2>2. Rest(c) \in Records /\ More(c, <<"startExec">>) \in Records
    <3>1. <<"startExec">> \in Seq(StepNames)
      BY DEF StepNames
    <3> QED BY <1>0, <2>1, <3>1, Rests, Mores, Fails
  <2>3. call' \in [Calls -> Records]
    BY <1>0, <1>14, <2>2, Goes DEF StartDaemon
  <2> QED BY <1>0, <1>14, <2>3 DEF StartDaemon, Typed, Up, Fault, Off, Owners
<1>15. ASSUME NEW c \in Calls, StartExec(c)
      PROVE  Typed'
  <2>1. call[c].todo # <<>>
    BY <1>15 DEF StartExec, At
  <2>2. Rest(c) \in Records /\ More(c, <<"startWait">>) \in Records
    <3>1. <<"startWait">> \in Seq(StepNames)
      BY DEF StepNames
    <3> QED BY <1>0, <2>1, <3>1, Rests, Mores, Fails
  <2>3. call' \in [Calls -> Records]
    BY <1>0, <1>15, <2>2, Goes DEF StartExec
  <2>4. daemon' \in {daemon, [daemon EXCEPT !.st = "booting"]}
    BY <1>15 DEF StartExec
  <2>5. daemon' \in Daemons /\ (Up' => daemon'.cred # None)
    BY <2>4 DEF Typed, Daemons, Up
  <2>6. shown' \in {shown, "stopped"} /\ UNCHANGED <<user, disk, cli, poll, pendingVersionRestart, guard, bounds>>
    BY <1>15 DEF StartExec
  <2> QED BY <2>3, <2>5, <2>6 DEF Typed
<1>16. ASSUME NEW c \in Calls, StartWait(c)
      PROVE  Typed'
  <2>1. call[c].todo # <<>>
    BY <1>16 DEF StartWait, At
  <2>2. Rest(c) \in Records
    BY <1>0, <2>1, Rests
  <2>3. call' \in [Calls -> Records]
    BY <1>0, <1>16, <2>2, Goes DEF StartWait
  <2> QED BY <1>0, <1>16, <2>3 DEF StartWait, Typed, Up, Fault, Off, Owners
<1>17. ASSUME NEW c \in Calls, StopDaemon(c)
      PROVE  Typed'
  <2>1. call[c].todo # <<>>
    BY <1>17 DEF StopDaemon, At
  <2>2. Failed(Rest(c)) \in Records /\ More(c, <<"stopExec">>) \in Records
    <3>1. <<"stopExec">> \in Seq(StepNames)
      BY DEF StepNames
    <3> QED BY <1>0, <2>1, <3>1, Rests, Mores, Fails
  <2>3. call' \in [Calls -> Records]
    BY <1>0, <1>17, <2>2, Goes DEF StopDaemon
  <2> QED BY <1>0, <1>17, <2>3 DEF StopDaemon, Typed, Up, Fault, Off, Owners
<1>18. ASSUME NEW c \in Calls, StopExec(c)
      PROVE  Typed'
  <2>1. call[c].todo # <<>>
    BY <1>18 DEF StopExec, At
  <2>2. Rest(c) \in Records /\ Failed(Rest(c)) \in Records
    BY <1>0, <2>1, Rests, Fails
  <2>3. call' \in [Calls -> Records]
    BY <1>0, <1>18, <2>2, Goes DEF StopExec
  <2>4. daemon' \in {daemon, Off} /\ hit' \subseteq Faults
    BY <1>0, <1>18 DEF StopExec, Fault, Typed
  <2>5. daemon' \in Daemons /\ (Up' => daemon'.cred # None)
    BY <2>4, OffDaemon DEF Typed, Up
  <2>6. shown' = "stopped" /\ UNCHANGED <<user, disk, cli, poll, pendingVersionRestart, guard, acts, tasks>>
    BY <1>18 DEF StopExec
  <2> QED BY <1>0, <2>3, <2>4, <2>5, <2>6 DEF Typed
<1>19. ASSUME NEW c \in Calls, AutoStart(c)
      PROVE  Typed'
  <2>1. call[c].todo # <<>>
    BY <1>19 DEF AutoStart, At
  <2>2. Rest(c) \in Records /\ More(c, <<"checkVersion">>) \in Records /\ More(c, <<"startDaemon">>) \in Records
    <3>1. <<"checkVersion">> \in Seq(StepNames) /\ <<"startDaemon">> \in Seq(StepNames)
      BY DEF StepNames
    <3> QED BY <1>0, <2>1, <3>1, Rests, Mores
  <2>3. call' \in [Calls -> Records]
    BY <1>0, <1>19, <2>2, Goes DEF AutoStart
  <2> QED BY <1>0, <1>19, <2>3 DEF AutoStart, Typed, Up, Fault, Off, Owners
<1>20. ASSUME NEW c \in Calls, CheckVersion(c)
      PROVE  Typed'
  <2>1. call[c].todo # <<>>
    BY <1>20 DEF CheckVersion, At
  <2>2. Rest(c) \in Records /\ More(c, RestartDaemon) \in Records
    BY <1>0, <2>1, Rests, Mores, RestartDaemonSteps
  <2>3. call' \in [Calls -> Records]
    BY <1>0, <1>20, <2>2, Goes DEF CheckVersion
  <2> QED BY <1>0, <1>20, <2>3 DEF CheckVersion, Typed, Up, Fault, Off, Owners
<1>21. CASE Bootstrap
  BY <1>21 DEF Bootstrap, Typed, Up, Fault, Off, Owners
<1>22. CASE PollBegin
  BY <1>22 DEF PollBegin, Typed, Up, Fault, Off, Owners
<1>23. CASE PollEnd
  <2>1. Chain(<<"checkVersion">>, None) \in Records
    <3>1. <<"checkVersion">> \in Seq(StepNames)
      BY DEF StepNames
    <3> QED BY <1>0, <3>1, Chains
  <2>2. call' \in [Calls -> Records]
    BY <1>0, <1>23, <2>1 DEF PollEnd
  <2>3. shown' \in {"installing_cli", "cli_not_found", "starting", "running", "stopping", "stopped"}
    BY <1>23 DEF PollEnd, fetchHealth, Typed
  <2> QED BY <1>23, <2>2, <2>3 DEF PollEnd, Typed, Up
<1>24. CASE BootReadsToken
  <2>1. daemon.st = "booting" /\ (daemon' = Off \/ daemon' = [daemon EXCEPT !.cred = token])
    BY <1>24 DEF BootReadsToken
  <2>2. daemon' \in Daemons /\ (Up' => daemon'.cred # None)
    BY <1>0, <2>1, OffDaemon DEF Typed, Daemons, Up
  <2>3. hit' \subseteq Faults /\ acts' \in 0 .. MaxActs /\ tasks' \in 0 .. MaxTasks
    BY <1>24, DesktopAssumption DEF BootReadsToken, Typed, Fault
  <2>4. UNCHANGED <<user, disk, status, guard, call>>
    BY <1>24 DEF BootReadsToken
  <2> QED BY <2>2, <2>3, <2>4 DEF Typed
<1>25. CASE BootEnds
  <2>1. daemon.cred # None /\ (daemon' = Off \/ daemon' = [daemon EXCEPT !.st = "up"])
    BY <1>25 DEF BootEnds
  <2>2. daemon' \in Daemons /\ (Up' => daemon'.cred # None)
    BY <1>0, <2>1, OffDaemon DEF Typed, Daemons, Up
  <2>3. hit' \subseteq Faults /\ acts' \in 0 .. MaxActs /\ tasks' \in 0 .. MaxTasks
    BY <1>25, DesktopAssumption DEF BootEnds, Typed, Fault
  <2>4. UNCHANGED <<user, disk, status, guard, call>>
    BY <1>25 DEF BootEnds
  <2> QED BY <2>2, <2>3, <2>4 DEF Typed
<1>26. CASE TaskBegins
  <2>1. daemon' = [daemon EXCEPT !.busy = TRUE]
    BY <1>26 DEF TaskBegins
  <2>2. daemon' \in Daemons /\ (Up' => daemon'.cred # None)
    BY <1>0, <2>1, OffDaemon DEF Typed, Daemons, Up
  <2>3. hit' \subseteq Faults /\ acts' \in 0 .. MaxActs /\ tasks' \in 0 .. MaxTasks
    BY <1>26, DesktopAssumption DEF TaskBegins, Typed, Fault
  <2>4. UNCHANGED <<user, disk, status, guard, call>>
    BY <1>26 DEF TaskBegins
  <2> QED BY <2>2, <2>3, <2>4 DEF Typed
<1>27. CASE TaskEnds
  <2>1. daemon' = [daemon EXCEPT !.busy = FALSE]
    BY <1>27 DEF TaskEnds
  <2>2. daemon' \in Daemons /\ (Up' => daemon'.cred # None)
    BY <1>0, <2>1, OffDaemon DEF Typed, Daemons, Up
  <2>3. hit' \subseteq Faults /\ acts' \in 0 .. MaxActs /\ tasks' \in 0 .. MaxTasks
    BY <1>27, DesktopAssumption DEF TaskEnds, Typed, Fault
  <2>4. UNCHANGED <<user, disk, status, guard, call>>
    BY <1>27 DEF TaskEnds
  <2> QED BY <2>2, <2>3, <2>4 DEF Typed
<1>28. ASSUME NEW u \in Users, Login(u)
      PROVE  Typed'
  <2>1. Chain(OnLogin, u) \in Records
    BY <1>0, LoginLists, Chains DEF Owners
  <2>2. call' \in [Calls -> Records]
    BY <1>0, <1>28, <2>1 DEF Login, Acts
  <2> QED BY <1>0, <1>28, <2>2, DesktopAssumption DEF Login, Acts, Typed, Up, Owners
<1>29. CASE Logout
  <2>1. Chain(OnLogout, None) \in Records
    BY <1>0, ClearLists, Chains DEF Owners
  <2>2. call' \in [Calls -> Records]
    BY <1>0, <1>29, <2>1 DEF Logout
  <2> QED BY <1>0, <1>29, <2>2, DesktopAssumption DEF Logout, Typed, Up, Owners
<1>30. CASE PressStart
  <2>1. Chain(Start, None) \in Records
    BY <1>0, InnerLists, Chains DEF Owners
  <2>2. call' \in [Calls -> Records]
    BY <1>0, <1>30, <2>1 DEF PressStart, Acts
  <2> QED BY <1>0, <1>30, <2>2, DesktopAssumption DEF PressStart, Acts, Typed, Up, Owners
<1>31. CASE PressStop
  <2>1. Chain(Stop, None) \in Records
    BY <1>0, ClearLists, Chains DEF Owners
  <2>2. call' \in [Calls -> Records]
    BY <1>0, <1>31, <2>1 DEF PressStop, Acts
  <2> QED BY <1>0, <1>31, <2>2, DesktopAssumption DEF PressStop, Acts, Typed, Up, Owners
<1>32. CASE RestartForWorkspace
  <2>1. Chain(Restart, None) \in Records
    BY <1>0, InnerLists, Chains DEF Owners
  <2>2. call' \in [Calls -> Records]
    BY <1>0, <1>32, <2>1 DEF RestartForWorkspace, Acts
  <2> QED BY <1>0, <1>32, <2>2, DesktopAssumption DEF RestartForWorkspace, Acts, Typed, Up, Owners
<1>33. CASE RetryInstall
  BY <1>33, DesktopAssumption DEF RetryInstall, Typed, Up
<1>34. CASE AppRestart
  <2>1. Chain(OnLogin, user) \in Records
    BY <1>0, LoginLists, Chains
  <2>2. call' \in [Calls -> Records]
    BY <1>34, <2>1, IdleRecord DEF AppRestart, Opening
  <2>3. acts' \in 0 .. MaxActs /\ UNCHANGED <<user, disk, daemon, tasks>>
    BY <1>34, DesktopAssumption DEF AppRestart, Typed
  <2>5. hit' \subseteq Faults
    BY <1>34 DEF AppRestart, Fault, Typed
  <2>4. /\ cli' = "resolving" /\ shown' = "installing_cli" /\ poll' = "none"
        /\ pendingVersionRestart' = FALSE /\ guard' = FALSE
    BY <1>34 DEF AppRestart
  <2> QED BY <2>2, <2>3, <2>4, <2>5 DEF Typed, Up
<1>35. CASE UNCHANGED vars
  BY <1>35 DEF vars, Typed, Up
<1> QED BY <1>2, <1>3, <1>4, <1>5, <1>6, <1>7, <1>8, <1>9, <1>10, <1>11, <1>12, <1>13, <1>14, <1>15, <1>16, <1>17, <1>18, <1>19, <1>20, <1>21, <1>22, <1>23, <1>24, <1>25, <1>26, <1>27, <1>28, <1>29, <1>30, <1>31, <1>32, <1>33, <1>34, <1>35
  DEF Next, Step, Polling, Booting, User

\* Every variable keeps the shape it is declared with, and a daemon that is up
\* has credentials.
THEOREM DesktopTyped == Spec => []TypeOK
<1>1. Typed => TypeOK
  BY DEF Typed, TypeOK, Records, Daemons, Owners
<1> QED BY <1>1, TypedInit, TypedNext, PTL DEF Spec

-----------------------------------------------------------------------------
(* The two files.  With a patient user a login's chain is the only one while *)
(* it rewrites them, and a logout's chains run while nobody is logged in.    *)

SyncTodos == {OnLogin, L2, L3, LM, L4, L5, L6}
InTodos   == Seq(Inner) \cup {Start, Stop, Restart}
OutTodos  == {<<>>, OnLogout, C1, C2, Stop, G1, G2, G3}

Syncing(c) == call[c].todo \in SyncTodos
Holds(c)   == Holding(call[c].todo)
Truth      == sidecar # None /\ token # None => sidecar = token

\* What a quit left undone is not made good if the next start cannot mint.
Broken == {"quit", "mint"} \subseteq hit

\* A login's chain finds the app as it was when the user acted, or as a quit
\* left it.
Alone(c) ==
  /\ \A d \in Calls : d # c => call[d].todo = <<>>
  /\ ~pendingVersionRestart
  /\ "quit" \notin hit => daemon.st # "booting"

\* What a login's chain has read is still what the files say, and what it
\* writes is its user's.
SyncOK(c) ==
  /\ user # None /\ call[c].who = user /\ Alone(c)
  /\ call[c].todo \in {L2, L3} => call[c].config = token
  /\ call[c].todo = L3 => call[c].previous = sidecar
  /\ call[c].todo = L4 => call[c].config = user
  /\ call[c].todo \in {L5, L6} => token = user
  /\ call[c].todo = L6 => sidecar = user

LoggedIn == user # None => \A c \in Calls : call[c].todo \in SyncTodos \cup InTodos
SyncInv  == \A c \in Calls : Syncing(c) => SyncOK(c)

\* The chain of a login will write the sidecar, either because it has just
\* written the token or because a quit kept another one from it.
Rewriting(c) == call[c].todo = L5 \/ ("quit" \in hit /\ Syncing(c) /\ token = user)

\* The sidecar is wrong until then only.
TruthInv == Truth \/ \E c \in Calls : Rewriting(c)

\* After a logout a file that is still there has a chain that will clear it,
\* unless the app was quit.
Leftovers ==
  /\ daemon.st # "booting"
  /\ token # None => \E c \in Calls : call[c].todo \in {OnLogout, C1}
  /\ sidecar # None => \E c \in Calls : call[c].todo \in {OnLogout, C1, C2}

LoggedOut ==
  user = None =>
    /\ \A c \in Calls : call[c].todo \in OutTodos
    /\ ~pendingVersionRestart
    /\ "quit" \notin hit => Leftovers

GuardInv == guard => \E c \in Calls : Holds(c)

FilesInv == LoggedIn /\ SyncInv /\ TruthInv /\ LoggedOut /\ GuardInv

\* The step a chain is at tells what is left of it.
LEMMA HeadsTell ==
  ASSUME NEW t \in SyncTodos \cup InTodos \cup OutTodos, t # <<>>
  PROVE  /\ Head(t) = "readConfig" => t = OnLogin
         /\ Head(t) = "readUserId" => t = L2
         /\ Head(t) = "chooseToken" => t = L3
         /\ Head(t) = "mint" => t = LM
         /\ Head(t) = "writeConfig" => t = L4
         /\ Head(t) = "writeUserId" => t = L5
         /\ Head(t) = "switched" => t = L6
         /\ Head(t) = "clearRead" => t = OnLogout
         /\ Head(t) = "clearWrite" => t = C1
         /\ Head(t) = "clearUserId" => t = C2
         /\ Head(t) = "guard" => t \in {Start, Stop, Restart}
         /\ Head(t) \in Inner => t \in Seq(Inner)
         /\ t \in SyncTodos => t \notin InTodos /\ t \notin OutTodos
<1> USE LoginLists, ClearLists, InnerLists
<1>1. \A u \in Seq(Inner) : u # <<>> => Head(u) \in Inner
  BY HoldingTail
<1>2. G1 \in Seq(Inner) /\ G2 \in Seq(Inner) /\ G3 \in Seq(Inner)
  <2>1. G3 \in Seq(Inner) /\ <<"stopExec">> \in Seq(Inner)
    BY DEF G3, Inner
  <2>2. G1 \in Seq(Inner)
    BY DEF G1, Inner
  <2> QED BY <2>1, <2>2, HoldingConcat DEF G2
<1>3. t \in SyncTodos \/ t \in InTodos \/ t \in {OnLogout, C1, C2, Stop, G1, G2, G3}
  BY DEF OutTodos
<1> USE <1>1, <1>2
<1>4. CASE t \in SyncTodos
  <2>1. \/ t = OnLogin /\ Head(t) = "readConfig"
        \/ t = L2 /\ Head(t) = "readUserId"
        \/ t = L3 /\ Head(t) = "chooseToken"
        \/ t = LM /\ Head(t) = "mint"
        \/ t = L4 /\ Head(t) = "writeConfig"
        \/ t = L5 /\ Head(t) = "writeUserId"
        \/ t = L6 /\ Head(t) = "switched"
    BY <1>4 DEF SyncTodos
  <2>2. t \notin InTodos
    BY <2>1 DEF InTodos, Inner
  <2>3. t \notin OutTodos
    BY <2>1 DEF OutTodos
  <2> QED BY <2>1, <2>2, <2>3 DEF Inner
<1>5. CASE t \in InTodos
  <2>1. \/ t \in Seq(Inner) /\ Head(t) \in Inner
        \/ t \in {Start, Stop, Restart} /\ Head(t) = "guard"
    BY <1>5 DEF InTodos
  <2>2. t \notin SyncTodos
    BY <2>1 DEF SyncTodos, Inner
  <2> QED BY <2>1, <2>2 DEF Inner
<1>6. CASE t \in {OnLogout, C1, C2, Stop, G1, G2, G3}
  <2>1. \/ t = OnLogout /\ Head(t) = "clearRead"
        \/ t = C1 /\ Head(t) = "clearWrite"
        \/ t = C2 /\ Head(t) = "clearUserId"
        \/ t = Stop /\ Head(t) = "guard"
        \/ t \in {G1, G2, G3} /\ Head(t) \in Inner
    BY <1>6 DEF Inner
  <2>2. t \notin SyncTodos
    BY <2>1 DEF SyncTodos, Inner
  <2> QED BY <2>1, <2>2 DEF Inner
<1> QED BY <1>3, <1>4, <1>5, <1>6

LEMMA OutTell ==
  ASSUME NEW t \in OutTodos, t # <<>>
  PROVE  /\ Head(t) \in {"clearRead", "clearWrite", "clearUserId", "guard", "stopDaemon", "stopExec", "release"}
         /\ Head(t) = "guard" => t = Stop
         /\ Head(t) = "stopDaemon" => t = G1
         /\ Head(t) = "stopExec" => t = G2
         /\ Head(t) = "release" => t = G3
<1>1. \/ t = OnLogout /\ Head(t) = "clearRead"
      \/ t = C1 /\ Head(t) = "clearWrite"
      \/ t = C2 /\ Head(t) = "clearUserId"
      \/ t = Stop /\ Head(t) = "guard"
      \/ t = G1 /\ Head(t) = "stopDaemon"
      \/ t = G2 /\ Head(t) = "stopExec"
      \/ t = G3 /\ Head(t) = "release"
  BY ClearLists DEF OutTodos
<1> QED BY <1>1

LEMMA HoldingIsInner ==
  ASSUME NEW t, Holding(t)
  PROVE  t \in Seq(Inner) /\ t # <<>>
BY DEF Holding

\* Every chain is of one of the three kinds.
LEMMA Kinds ==
  ASSUME Typed, FilesInv, NEW c \in Calls
  PROVE  /\ call[c].todo \in SyncTodos \cup InTodos \cup OutTodos
         /\ user # None => call[c].todo \in SyncTodos \cup InTodos
         /\ user = None => call[c].todo \in OutTodos
BY DEF FilesInv, LoggedIn, LoggedOut

\* While a login's chain is under way nothing else is, and the guard is free.
LEMMA WhileSyncing ==
  ASSUME Typed, FilesInv, NEW c \in Calls, Syncing(c)
  PROVE  /\ SyncOK(c) /\ user \in Users /\ guard = FALSE /\ call[c].todo # <<>>
         /\ \A d \in Calls : d # c => call[d].todo = <<>> /\ ~Syncing(d)
<1>1. SyncOK(c)
  BY DEF FilesInv, SyncInv
<1>2. call[c].todo # <<>>
  BY LoginLists DEF Syncing, SyncTodos
<1>3. \A d \in Calls : d # c => call[d].todo = <<>> /\ ~Syncing(d)
  BY <1>1, LoginLists DEF SyncOK, Alone, Syncing, SyncTodos
<1>4. \A d \in Calls : ~Holds(d)
  <2>1. call[c].todo \notin Seq(Inner)
    BY <1>2, HeadsTell DEF Syncing, InTodos
  <2> QED BY <1>3, <2>1 DEF Holds, Holding
<1>5. guard = FALSE
  BY <1>4 DEF FilesInv, GuardInv, Typed
<1> QED BY <1>1, <1>2, <1>3, <1>5 DEF SyncOK, Typed, Owners

\* A step of any other chain: no login's chain is under way.
LEMMA NoneSyncing ==
  ASSUME Typed, FilesInv, NEW c \in Calls, call[c].todo # <<>>, ~Syncing(c)
  PROVE  \A d \in Calls : ~Syncing(d)
BY WhileSyncing

\* With nobody logging in, the files are settled.
LEMMA Settled ==
  ASSUME Typed, FilesInv, \A d \in Calls : ~Syncing(d)
  PROVE  Truth
BY DEF FilesInv, TruthInv, Rewriting, Syncing, SyncTodos

LEMMA FilesInit == Init => Typed /\ FilesInv
<1> SUFFICES ASSUME Init PROVE FilesInv
  BY TypedInit
<1>1. /\ user \in Users \cup {None} /\ token = user /\ sidecar = user /\ guard = FALSE
      /\ daemon.st # "booting" /\ ~pendingVersionRestart
  BY InitialDaemon DEF Init
<1>2. \A c \in Calls : call[c] = IF c = First /\ user # None THEN Chain(OnLogin, user) ELSE Idle
  BY DEF Init, Opening
<1>3. \A c \in Calls : call[c].todo = IF c = First /\ user # None THEN OnLogin ELSE <<>>
  BY <1>2, IdleRecord DEF Chain, Idle
<1>4. <<>> \in InTodos /\ <<>> \in OutTodos /\ <<>> \notin SyncTodos /\ OnLogin \in SyncTodos
  BY InnerLists, LoginLists DEF InTodos, OutTodos, SyncTodos
<1>5. LoggedIn /\ LoggedOut /\ GuardInv /\ TruthInv
  BY <1>1, <1>3, <1>4 DEF LoggedIn, LoggedOut, Leftovers, GuardInv, TruthInv, Truth
<1>6. ASSUME NEW c \in Calls, Syncing(c)
      PROVE  SyncOK(c)
  <2>1. c = First /\ user # None /\ call[c].todo = OnLogin
    BY <1>3, <1>4, <1>6 DEF Syncing
  <2>2. call[c].who = user
    BY <1>2, <2>1 DEF Chain, Idle
  <2>3. Alone(c)
    BY <1>1, <1>3, <2>1 DEF Alone
  <2>4. OnLogin \notin {L2, L3, L4, L5, L6}
    BY LoginLists
  <2> QED BY <2>1, <2>2, <2>3, <2>4 DEF SyncOK
<1> QED BY <1>5, <1>6 DEF FilesInv, SyncInv

-----------------------------------------------------------------------------
(* Three kinds of step *)

\* A step of a login's chain c: it alone goes on, and it stays in order.
LEMMA SyncStep ==
  ASSUME FilesInv, NEW c \in Calls, user # None, user' = user,
         call'[c].todo \in SyncTodos, \A d \in Calls : d # c => call'[d].todo = <<>>,
         SyncOK(c)', Truth' \/ Rewriting(c)', guard' = FALSE
  PROVE  FilesInv'
<1>1. <<>> \in InTodos /\ <<>> \notin SyncTodos
  BY InnerLists, LoginLists DEF InTodos, SyncTodos
<1>2. LoggedIn' /\ LoggedOut'
  BY <1>1 DEF LoggedIn, LoggedOut
<1>3. SyncInv'
  BY <1>1 DEF SyncInv, Syncing
<1>4. TruthInv' /\ GuardInv'
  BY DEF TruthInv, GuardInv
<1> QED BY <1>2, <1>3, <1>4 DEF FilesInv

\* A step that leaves the files alone and starts no login.
LEMMA InStep ==
  ASSUME FilesInv, user # None, user' = user, Truth,
         token' = token, sidecar' = sidecar,
         \A d \in Calls : call'[d].todo \in InTodos,
         guard' => \E d \in Calls : Holds(d)'
  PROVE  FilesInv'
<1>1. \A d \in Calls : ~Syncing(d)'
  BY HeadsTell, LoginLists DEF Syncing, SyncTodos
<1>2. LoggedIn' /\ LoggedOut' /\ SyncInv'
  BY <1>1 DEF LoggedIn, LoggedOut, SyncInv
<1>3. TruthInv' /\ GuardInv'
  BY DEF TruthInv, Truth, GuardInv
<1> QED BY <1>2, <1>3 DEF FilesInv

\* A step while nobody is logged in, which may clear a file.
LEMMA OutStep ==
  ASSUME FilesInv, user' = None, Truth,
         token' \in {token, None}, sidecar' \in {sidecar, None},
         \A d \in Calls : call'[d].todo \in OutTodos,
         ~pendingVersionRestart', "quit" \notin hit' => Leftovers',
         guard' => \E d \in Calls : Holds(d)'
  PROVE  FilesInv'
<1>1. \A d \in Calls : ~Syncing(d)'
  BY HeadsTell, LoginLists DEF Syncing, SyncTodos
<1>2. LoggedIn' /\ LoggedOut' /\ SyncInv'
  BY <1>1 DEF LoggedIn, LoggedOut, SyncInv
<1>3. TruthInv' /\ GuardInv'
  BY DEF TruthInv, Truth, GuardInv
<1> QED BY <1>2, <1>3 DEF FilesInv

-----------------------------------------------------------------------------
(* The steps of a login's chain *)

\* One step of a login's chain leaves it ready for the next.
SyncAct(c) ==
  \/ ReadConfig(c) \/ ReadUserId(c) \/ ChooseToken(c) \/ Mint(c) \/ WriteConfig(c) \/ WriteUserId(c)

LEMMA SyncNext ==
  ASSUME Typed, FilesInv, Typed', ~Broken', NEW c \in Calls, SyncAct(c)
  PROVE  FilesInv'
<1> USE DEF disk, status, bounds
<1>1. call \in [Calls -> Records] /\ call[c].todo # <<>>
  BY DEF SyncAct, Typed, At, ReadConfig, ReadUserId, ChooseToken, Mint, WriteConfig, WriteUserId
<1>2. call[c].todo \in SyncTodos
  <2>1. Head(call[c].todo) \in {"readConfig", "readUserId", "chooseToken", "mint", "writeConfig", "writeUserId"}
    BY DEF SyncAct, At, ReadConfig, ReadUserId, ChooseToken, Mint, WriteConfig, WriteUserId
  <2> QED BY <1>1, <2>1, Kinds, HeadsTell DEF SyncTodos
<1>3. /\ SyncOK(c) /\ user \in Users /\ user # None /\ guard = FALSE
      /\ \A d \in Calls : d # c => call[d].todo = <<>>
  BY <1>2, WhileSyncing, DesktopAssumption DEF Syncing
<1>4. user' = user /\ guard' = guard /\ daemon' = daemon /\ pendingVersionRestart' = pendingVersionRestart
  BY DEF SyncAct, ReadConfig, ReadUserId, ChooseToken, Mint, WriteConfig, WriteUserId
<1>16. hit \subseteq hit'
  BY DEF SyncAct, ReadConfig, ReadUserId, ChooseToken, Mint, WriteConfig, WriteUserId, Fault
<1> DEFINE made == "quit" \in hit /\ token = user
           Sound == Truth' \/ (made /\ token' = token)
\* What a step of c has to establish.
<1>5. ASSUME NEW l \in Records, Go(c, l), l.todo \in SyncTodos, l.who = call[c].who,
             l.todo \in {L2, L3} => l.config = token',
             l.todo = L3 => l.previous = sidecar',
             l.todo = L4 => l.config = user,
             l.todo \in {L5, L6} => token' = user,
             l.todo = L6 => sidecar' = user,
             Sound \/ l.todo = L5
      PROVE  FilesInv'
  <2>1. l.todo # <<>>
    BY <1>5, LoginLists DEF SyncTodos
  <2>2. call'[c] = l /\ \A d \in Calls : d # c => call'[d] = call[d]
    BY <1>1, <1>5, <2>1, Goes
  <2>3. SyncOK(c)'
    BY <1>3, <1>4, <1>5, <1>16, <2>2 DEF SyncOK, Alone
  <2>4. Truth' \/ Rewriting(c)'
    BY <1>4, <1>5, <1>16, <2>2 DEF Rewriting, Syncing
  <2> QED BY <1>3, <1>4, <1>5, <2>2, <2>3, <2>4, SyncStep
<1>6. Rest(c) \in Records /\ Rest(c).todo = Tail(call[c].todo) /\ Rest(c).who = call[c].who
      /\ Rest(c).config = call[c].config /\ Rest(c).previous = call[c].previous
  BY <1>1, Rests
<1> DEFINE t == call[c].todo
<1>7. t \in SyncTodos \cup InTodos \cup OutTodos
  BY <1>2
<1>8. Truth \/ t = L5 \/ made
  BY <1>3, LoginLists DEF FilesInv, TruthInv, Rewriting
<1>9. L2 \in SyncTodos /\ L3 \in SyncTodos /\ LM \in SyncTodos /\ L4 \in SyncTodos /\ L5 \in SyncTodos /\ L6 \in SyncTodos
  BY DEF SyncTodos
<1>10. CASE ReadConfig(c)
  <2> DEFINE l == [Rest(c) EXCEPT !.config = token]
  <2>1. t = OnLogin
    BY <1>1, <1>7, <1>10, HeadsTell DEF ReadConfig, At
  <2>2. l \in Records /\ l.todo = L2 /\ l.who = call[c].who /\ l.config = token
    BY <1>6, <2>1, LoginLists DEF Records, Typed
  <2>3. Go(c, l) /\ UNCHANGED <<token, sidecar>>
    BY <1>10 DEF ReadConfig
  <2>4. Sound
    BY <1>8, <2>1, <2>3, LoginLists DEF Truth
  <2> HIDE DEF l
  <2>5. L2 \notin {L3, L4, L5, L6}
    BY LoginLists
  <2> QED BY <1>5, <1>9, <2>2, <2>3, <2>4, <2>5
<1>11. CASE ReadUserId(c)
  <2> DEFINE l == [Rest(c) EXCEPT !.previous = sidecar]
  <2>1. t = L2
    BY <1>1, <1>7, <1>11, HeadsTell DEF ReadUserId, At
  <2>2. l \in Records /\ l.todo = L3 /\ l.who = call[c].who /\ l.config = token /\ l.previous = sidecar
    BY <1>3, <1>6, <2>1, LoginLists DEF Records, Typed, SyncOK
  <2>3. Go(c, l) /\ UNCHANGED <<token, sidecar>>
    BY <1>11 DEF ReadUserId
  <2>4. Sound
    BY <1>8, <2>1, <2>3, LoginLists DEF Truth
  <2> HIDE DEF l
  <2>5. L3 \notin {L4, L5, L6}
    BY LoginLists
  <2> QED BY <1>5, <1>9, <2>2, <2>3, <2>4, <2>5
<1>12. CASE ChooseToken(c)
  <2>1. t = L3
    BY <1>1, <1>7, <1>12, HeadsTell DEF ChooseToken, At
  <2>2. (Truth \/ made) /\ UNCHANGED <<token, sidecar>>
    BY <1>8, <1>12, <2>1, LoginLists DEF ChooseToken
  <2>3. Sound
    BY <2>2 DEF Truth
  <2>4. CASE Reusable(call[c])
    <3>1. Go(c, Rest(c))
      BY <1>12, <2>4 DEF ChooseToken
    <3>2. Rest(c).todo = L4
      BY <1>6, <2>1, LoginLists
    \* The sidecar names this user, a token is there, and the sidecar is true;
    \* or the token is the one that was written before a quit.
    <3>3. Rest(c).config = user
      BY <1>3, <1>6, <2>1, <2>2, <2>4 DEF Reusable, SyncOK, Truth
    <3>4. L4 \notin {L2, L3, L5, L6}
      BY LoginLists
    <3> QED BY <1>5, <1>6, <1>9, <2>3, <3>1, <3>2, <3>3, <3>4
  <2>5. CASE ~Reusable(call[c])
    <3> DEFINE l == More(c, <<"mint">>)
    <3>1. Go(c, l)
      BY <1>12, <2>5 DEF ChooseToken
    <3>2. <<"mint">> \in Seq(StepNames)
      BY DEF StepNames
    <3>3. l \in Records /\ l.todo = <<"mint">> \o Tail(t) /\ l.who = call[c].who
      BY <1>1, <3>2, Mores
    <3>4. l.todo = LM
      BY <2>1, <3>3, LoginLists DEF LM
    <3> HIDE DEF l
    <3>5. LM \notin {L2, L3, L4, L5, L6}
      BY LoginLists
    <3> QED BY <1>5, <1>9, <2>3, <3>1, <3>3, <3>4, <3>5
  <2> QED BY <2>4, <2>5
<1>13. CASE Mint(c)
  <2>1. t = LM
    BY <1>1, <1>7, <1>13, HeadsTell DEF Mint, At
  <2>2. UNCHANGED <<token, sidecar>>
    BY <1>13 DEF Mint
  <2>3. (Truth \/ made) /\ Sound
    BY <1>8, <2>1, <2>2, LoginLists DEF Truth
  <2>4. CASE Go(c, [Rest(c) EXCEPT !.config = call[c].who])
    <3> DEFINE l == [Rest(c) EXCEPT !.config = call[c].who]
    <3>1. l \in Records /\ l.todo = L4 /\ l.who = call[c].who /\ l.config = user
      BY <1>3, <1>6, <2>1, LoginLists DEF Records, SyncOK, Owners
    <3>2. Go(c, l)
      BY <2>4
    <3> HIDE DEF l
    <3>3. L4 \notin {L2, L3, L5, L6}
      BY LoginLists
    <3> QED BY <1>5, <1>9, <2>3, <3>1, <3>2, <3>3
  <2>5. CASE Go(c, Idle) /\ Fault("mint")
    <3>3. Truth
      <4>1. ~made
        BY <2>5 DEF Fault, Broken
      <4> QED BY <2>3, <4>1
    <3>1. \A d \in Calls : call'[d].todo = <<>>
      BY <1>1, <1>3, <2>5, IdleRecord, Goes
    <3>2. <<>> \in InTodos
      BY InnerLists DEF InTodos
    <3> QED BY <1>3, <1>4, <2>2, <3>1, <3>2, <3>3, InStep
  <2> QED BY <1>13, <2>4, <2>5 DEF Mint
<1>14. CASE WriteConfig(c)
  <2>1. t = L4
    BY <1>1, <1>7, <1>14, HeadsTell DEF WriteConfig, At
  <2>2. Go(c, Rest(c)) /\ token' = call[c].config /\ sidecar' = sidecar
    BY <1>14 DEF WriteConfig
  <2>3. Rest(c).todo = L5 /\ token' = user
    BY <1>3, <1>6, <2>1, <2>2, LoginLists DEF SyncOK
  <2>4. L5 \notin {L2, L3, L4, L6}
    BY LoginLists
  <2> QED BY <1>5, <1>6, <1>9, <2>2, <2>3, <2>4
<1>15. CASE WriteUserId(c)
  <2>1. t = L5
    BY <1>1, <1>7, <1>15, HeadsTell DEF WriteUserId, At
  <2>2. Go(c, Rest(c)) /\ sidecar' = call[c].who /\ token' = token
    BY <1>15 DEF WriteUserId
  <2>3. Rest(c).todo = L6 /\ token' = user /\ sidecar' = user
    BY <1>3, <1>6, <2>1, <2>2, LoginLists DEF SyncOK
  <2>4. L6 \notin {L2, L3, L4, L5}
    BY LoginLists
  <2>5. Sound
    BY <2>3 DEF Truth
  <2> QED BY <1>5, <1>6, <1>9, <2>2, <2>3, <2>4, <2>5
<1> QED BY <1>10, <1>11, <1>12, <1>13, <1>14, <1>15 DEF SyncAct

LEMMA SlotFree == Free # {} => Slot \in Calls /\ call[Slot].todo = <<>>
BY DEF Slot, Free

\* The last step of syncToken: every chain there is after it works on the daemon.
LEMMA SwitchedFacts ==
  ASSUME Typed, FilesInv, NEW c \in Calls, Switched(c)
  PROVE  /\ call[c].todo = L6 /\ user # None /\ token = user /\ sidecar = user /\ guard = FALSE
         /\ \A d \in Calls : d # c => call[d].todo = <<>>
         /\ \A d \in Calls : call'[d].todo \in Seq(Inner)
         /\ UNCHANGED <<user, disk, daemon, guard, cli>>
<1> USE DEF disk, status, bounds
<1>1. call \in [Calls -> Records] /\ call[c].todo = L6
  <2>1. call[c].todo # <<>> /\ Head(call[c].todo) = "switched" /\ call \in [Calls -> Records]
    BY DEF Switched, At, Typed
  <2> QED BY <2>1, Kinds, HeadsTell
<1>2. /\ user # None /\ token = user /\ sidecar = user /\ guard = FALSE
      /\ \A d \in Calls : d # c => call[d].todo = <<>>
  <2>1. Syncing(c)
    BY <1>1 DEF Syncing, SyncTodos
  <2> QED BY <1>1, <2>1, WhileSyncing DEF SyncOK
<1>3. Rest(c) \in Records /\ Rest(c).todo = <<"autoStart">>
  BY <1>1, LoginLists, Rests
<1>4. <<"autoStart">> \in Seq(Inner) /\ RestartDaemon \in Seq(Inner) /\ <<>> \in Seq(Inner)
  BY InnerLists DEF Inner
<1>5. \A d \in Calls : call'[d].todo \in Seq(Inner)
  <2>1. CASE Go(c, Rest(c))
    <3>1. /\ call'[c].todo = <<"autoStart">>
          /\ \A d \in Calls : d # c => call'[d] = call[d]
      BY <1>1, <1>3, <2>1, Goes
    <3>2. ASSUME NEW d \in Calls PROVE call'[d].todo \in Seq(Inner)
      <4>1. CASE d = c
        BY <1>4, <3>1, <4>1
      <4>2. CASE d # c
        <5>1. call'[d].todo = <<>>
          BY <1>2, <3>1, <4>2
        <5> QED BY <1>4, <5>1
      <4> QED BY <4>1, <4>2
    <3> QED BY <3>2
  <2>2. CASE call' = [call EXCEPT ![c] = Settle(Rest(c)), ![Slot] = Chain(RestartDaemon, None)]
    <3>1. Settle(Rest(c)).todo \in Seq(Inner)
      BY <1>3, <1>4, IdleRecord DEF Settle
    <3>2. Chain(RestartDaemon, None).todo = RestartDaemon
      BY DEF Chain, Idle
    <3> QED BY <1>1, <1>2, <1>4, <2>2, <3>1, <3>2
  <2> QED BY <2>1, <2>2 DEF Switched
<1>6. UNCHANGED <<user, disk, daemon, guard, cli>>
  BY DEF Switched
<1> QED BY <1>1, <1>2, <1>5, <1>6

LEMMA SwitchedNext ==
  ASSUME Typed, FilesInv, NEW c \in Calls, Switched(c)
  PROVE  FilesInv'
<1>1. /\ user # None /\ token = user /\ guard = FALSE /\ Truth
      /\ \A d \in Calls : call'[d].todo \in InTodos
      /\ UNCHANGED <<user, token, sidecar, guard>>
  BY SwitchedFacts DEF disk, Truth, InTodos
<1> QED BY <1>1, InStep

-----------------------------------------------------------------------------
(* The steps of a logout's chain *)

LEMMA ClearNext ==
  ASSUME Typed, FilesInv, NEW c \in Calls, ClearRead(c) \/ ClearWrite(c) \/ ClearUserId(c)
  PROVE  FilesInv'
<1> USE DEF disk, status, bounds
<1>1. call \in [Calls -> Records] /\ call[c].todo # <<>>
  BY DEF Typed, At, ClearRead, ClearWrite, ClearUserId
<1>2. Head(call[c].todo) \in {"clearRead", "clearWrite", "clearUserId"}
  BY DEF At, ClearRead, ClearWrite, ClearUserId
<1>3. user = None /\ \A d \in Calls : call[d].todo \in OutTodos
  <2>1. call[c].todo \notin SyncTodos
    BY <1>2, LoginLists DEF SyncTodos
  <2>2. call[c].todo \notin InTodos
    BY <1>1, <1>2, InnerLists, ClearLists, HoldingTail DEF InTodos, Inner
  <2> QED BY <2>1, <2>2 DEF FilesInv, LoggedIn, LoggedOut
<1>4. ~pendingVersionRestart /\ ("quit" \notin hit => Leftovers)
  BY <1>3 DEF FilesInv, LoggedOut
<1>5. UNCHANGED <<user, daemon, pendingVersionRestart, guard, hit>>
  BY DEF ClearRead, ClearWrite, ClearUserId
<1>6. Truth
  <2>1. \A d \in Calls : ~Syncing(d)
    BY <1>3, HeadsTell, LoginLists DEF Syncing, SyncTodos
  <2> QED BY <2>1, Settled
<1>7. Rest(c) \in Records /\ Rest(c).todo = Tail(call[c].todo)
  BY <1>1, Rests
<1>8. ~Holds(c)
  BY <1>2, HoldingIsInner, HoldingTail DEF Holds, Inner
\* What a step of c has to establish.
<1>9. ASSUME NEW l \in Records, Go(c, l), l.todo \in OutTodos,
             token' \in {token, None}, sidecar' \in {sidecar, None},
             token' # None /\ call[c].todo \in {OnLogout, C1} => l.todo \in {OnLogout, C1},
             sidecar' # None /\ call[c].todo \in {OnLogout, C1, C2} => l.todo \in {OnLogout, C1, C2}
      PROVE  FilesInv'
  <2>1. call'[c].todo = l.todo /\ \A d \in Calls : d # c => call'[d] = call[d]
    BY <1>1, <1>9, Goes
  <2>2. \A d \in Calls : call'[d].todo \in OutTodos
    BY <1>3, <1>9, <2>1
  <2>3. Leftovers => (token' # None => \E d \in Calls : call'[d].todo \in {OnLogout, C1})
    BY <1>9, <2>1 DEF Leftovers
  <2>4. Leftovers => (sidecar' # None => \E d \in Calls : call'[d].todo \in {OnLogout, C1, C2})
    BY <1>9, <2>1 DEF Leftovers
  <2>6. "quit" \notin hit' => Leftovers'
    BY <1>4, <1>5, <2>3, <2>4 DEF Leftovers
  <2>5. guard' => \E d \in Calls : Holds(d)'
    BY <1>5, <1>8, <2>1 DEF FilesInv, GuardInv, Holds
  <2> QED BY <1>3, <1>4, <1>5, <1>6, <1>9, <2>2, <2>5, <2>6, OutStep
<1>10. CASE ClearRead(c)
  <2>1. call[c].todo = OnLogout /\ UNCHANGED <<token, sidecar>>
    BY <1>1, <1>10, Kinds, HeadsTell DEF ClearRead, At
  <2>2. CASE token # None
    <3> DEFINE l == More(c, <<"clearWrite">>)
    <3>1. <<"clearWrite">> \in Seq(StepNames)
      BY DEF StepNames
    <3>2. l \in Records /\ l.todo = C1
      BY <1>1, <2>1, <3>1, Mores, ClearLists DEF C1
    <3>3. Go(c, l)
      BY <1>10, <2>2 DEF ClearRead
    <3> HIDE DEF l
    <3> QED BY <1>9, <2>1, <3>2, <3>3 DEF OutTodos
  <2>3. CASE token = None
    <3>1. Go(c, Rest(c)) /\ Rest(c).todo = C2
      BY <1>7, <1>10, <2>1, <2>3, ClearLists DEF ClearRead
    <3> QED BY <1>7, <1>9, <2>1, <2>3, <3>1 DEF OutTodos
  <2> QED BY <2>2, <2>3
<1>11. CASE ClearWrite(c)
  <2>1. call[c].todo = C1 /\ token' = None /\ sidecar' = sidecar /\ Go(c, Rest(c))
    BY <1>1, <1>11, Kinds, HeadsTell DEF ClearWrite, At
  <2>2. Rest(c).todo = C2
    BY <1>7, <2>1, ClearLists
  <2> QED BY <1>7, <1>9, <2>1, <2>2 DEF OutTodos
<1>12. CASE ClearUserId(c)
  <2>1. call[c].todo = C2 /\ sidecar' = None /\ token' = token /\ Go(c, Rest(c))
    BY <1>1, <1>12, Kinds, HeadsTell DEF ClearUserId, At
  <2>2. Rest(c).todo = Stop /\ C2 \notin {OnLogout, C1}
    BY <1>7, <2>1, ClearLists
  <2> QED BY <1>7, <1>9, <2>1, <2>2 DEF OutTodos
<1> QED BY <1>10, <1>11, <1>12

-----------------------------------------------------------------------------
(* The steps of a chain that works on the daemon *)

LEMMA WorkStep ==
  ASSUME Typed, FilesInv, NEW c \in Calls, call[c].todo # <<>>,
         Head(call[c].todo) \in Inner \cup {"guard"},
         NEW l \in Records, Go(c, l), l.todo \in Seq(Inner),
         UNCHANGED <<user, disk>>, hit \subseteq hit',
         user = None => l.todo \in OutTodos /\ ~pendingVersionRestart',
         user = None /\ "quit" \notin hit => daemon'.st # "booting",
         guard' => \E d \in Calls : Holds(d)'
  PROVE  FilesInv'
<1> USE DEF disk
<1>1. /\ call'[c].todo = l.todo /\ \A d \in Calls : d # c => call'[d] = call[d]
  BY Goes DEF Typed
<1>2. ~Syncing(c) /\ call[c].todo \notin {OnLogout, C1, C2}
  BY LoginLists, ClearLists DEF Syncing, SyncTodos, Inner
<1>3. (\A d \in Calls : ~Syncing(d)) /\ Truth
  BY <1>2, NoneSyncing, Settled
<1>4. CASE user # None
  <2>1. \A d \in Calls : call[d].todo \in InTodos
    BY <1>3, <1>4 DEF FilesInv, LoggedIn, Syncing
  <2>2. \A d \in Calls : call'[d].todo \in InTodos
    BY <1>1, <2>1 DEF InTodos
  <2> QED BY <1>3, <1>4, <2>2, InStep
<1>5. CASE user = None
  <2>1. (\A d \in Calls : call[d].todo \in OutTodos) /\ ("quit" \notin hit => Leftovers)
    BY <1>5 DEF FilesInv, LoggedOut
  <2>2. \A d \in Calls : call'[d].todo \in OutTodos
    BY <1>1, <1>5, <2>1
  <2>3. Leftovers => (token' # None => \E d \in Calls : call'[d].todo \in {OnLogout, C1})
    BY <1>1, <1>2 DEF Leftovers
  <2>4. Leftovers => (sidecar' # None => \E d \in Calls : call'[d].todo \in {OnLogout, C1, C2})
    BY <1>1, <1>2 DEF Leftovers
  <2>5. "quit" \notin hit' => Leftovers'
    BY <1>5, <2>1, <2>3, <2>4 DEF Leftovers
  <2> QED BY <1>3, <1>5, <2>2, <2>5, OutStep
<1> QED BY <1>4, <1>5

LEMMA GuardNext ==
  ASSUME Typed, FilesInv, NEW c \in Calls, TakeGuard(c) \/ Release(c)
  PROVE  FilesInv'
<1> USE DEF disk, status, bounds
<1>1. call \in [Calls -> Records] /\ call[c].todo # <<>>
  BY DEF Typed, At, TakeGuard, Release
<1>2. Rest(c) \in Records /\ Rest(c).todo = Tail(call[c].todo)
  BY <1>1, Rests
<1>3. UNCHANGED <<user, disk, daemon, pendingVersionRestart, hit>>
  BY DEF TakeGuard, Release
<1>4. /\ user = None => ~pendingVersionRestart'
      /\ user = None /\ "quit" \notin hit => daemon'.st # "booting"
  BY <1>3 DEF FilesInv, LoggedOut, Leftovers
<1>5. CASE TakeGuard(c)
  <2>1. Head(call[c].todo) = "guard" /\ guard'
    BY <1>5 DEF TakeGuard, At
  <2>2. call[c].todo \in {Start, Stop, Restart} /\ (user = None => call[c].todo = Stop)
    BY <1>1, <2>1, Kinds, HeadsTell, OutTell
  <2>3. CASE guard
    <3>1. Go(c, Idle)
      BY <1>5, <2>3 DEF TakeGuard
    <3>2. \A d \in Calls : d # c => call'[d] = call[d]
      BY <1>1, <3>1, IdleRecord, Goes
    <3>3. ~Holds(c)
      BY <2>1, HoldingIsInner, HoldingTail DEF Holds, Inner
    <3>4. \E d \in Calls : Holds(d)'
      BY <2>3, <3>2, <3>3 DEF FilesInv, GuardInv, Holds
    <3>5. Idle.todo \in Seq(Inner) /\ Idle.todo \in OutTodos
      BY IdleRecord, InnerLists DEF OutTodos
    <3> QED BY <1>1, <1>3, <1>4, <2>1, <3>1, <3>4, <3>5, IdleRecord, WorkStep
  <2>4. CASE ~guard
    <3>1. Go(c, Rest(c))
      BY <1>5, <2>4 DEF TakeGuard
    <3>2. Holding(Rest(c).todo)
      BY <1>2, <2>2, HoldingStarts
    <3>3. call'[c].todo = Rest(c).todo
      BY <1>1, <1>2, <3>1, Goes
    <3>4. \E d \in Calls : Holds(d)'
      BY <3>2, <3>3 DEF Holds
    <3>5. user = None => Rest(c).todo \in OutTodos
      BY <1>2, <2>2, ClearLists DEF OutTodos
    <3> QED BY <1>1, <1>2, <1>3, <1>4, <2>1, <3>1, <3>2, <3>4, <3>5, HoldingIsInner, WorkStep
  <2> QED BY <2>3, <2>4
<1>6. CASE Release(c)
  <2>1. Head(call[c].todo) = "release" /\ guard' = FALSE /\ Go(c, Rest(c))
    BY <1>6 DEF Release, At
  <2>2. Head(call[c].todo) \in Inner
    BY <2>1 DEF Inner
  <2>3. call[c].todo \in Seq(Inner)
    BY <1>1, <2>2, Kinds, HeadsTell
  <2>4. Rest(c).todo \in Seq(Inner)
    BY <1>1, <1>2, <2>3, HoldingTail
  <2>5. user = None => Rest(c).todo \in OutTodos
    BY <1>1, <1>2, <2>1, Kinds, OutTell, ClearLists DEF OutTodos
  <2> QED BY <1>1, <1>2, <1>3, <1>4, <2>1, <2>2, <2>4, <2>5, WorkStep
<1> QED BY <1>5, <1>6

InnerAct(c) ==
  \/ StartDaemon(c) \/ StartExec(c) \/ StartWait(c) \/ StopDaemon(c) \/ StopExec(c)
  \/ AutoStart(c) \/ CheckVersion(c)

\* A step past the guard leaves steps past the guard, and a chain that held the
\* guard goes on holding it.
LEMMA InnerGoes ==
  ASSUME Typed, NEW c \in Calls, InnerAct(c), call[c].todo \in Seq(Inner)
  PROVE  \E l \in Records :
           /\ Go(c, l) /\ l.todo \in Seq(Inner)
           /\ Holds(c) => Holding(l.todo)
           /\ call[c].todo = G1 => l.todo \in {G2, G3}
           /\ call[c].todo = G2 => l.todo = G3
<1> DEFINE t == call[c].todo
           OK(l) == /\ l \in Records /\ l.todo \in Seq(Inner) /\ (Holds(c) => Holding(l.todo))
                    /\ t = G2 => l.todo = G3
<1>1. /\ call \in [Calls -> Records] /\ t # <<>> /\ Head(t) # "release"
  BY DEF Typed, At, InnerAct, StartDaemon, StartExec, StartWait, StopDaemon, StopExec, AutoStart, CheckVersion
<1>2. /\ Head(t) \in Inner /\ Tail(t) \in Seq(Inner) /\ (Holds(c) => Holding(Tail(t)))
  BY <1>1, HoldingTail DEF Holds
<1>3. OK(Rest(c)) /\ Rest(c).todo = Tail(t)
  BY <1>1, <1>2, Rests, ClearLists
<1>4. OK(Failed(Rest(c))) /\ (t = G1 => Failed(Rest(c)).todo = G3)
  <2>1. /\ Failed(Rest(c)) \in Records
        /\ \/ Failed(Rest(c)).todo = Tail(t)
           \/ Failed(Rest(c)).todo = Tail(Tail(t)) /\ Tail(t) # <<>> /\ Head(Tail(t)) = "startDaemon"
    BY <1>3, Fails
  <2>2. Tail(t) # <<>> /\ Head(Tail(t)) = "startDaemon" =>
          Tail(Tail(t)) \in Seq(Inner) /\ (Holds(c) => Holding(Tail(Tail(t))))
    BY <1>2, HoldingTail
  <2>3. Tail(G1) = G3 /\ Tail(G2) = G3 /\ Head(G3) = "release"
    BY ClearLists
  <2> QED BY <1>2, <2>1, <2>2, <2>3
<1>5. ASSUME NEW s \in Seq(Inner)
      PROVE  /\ More(c, s) \in Records /\ More(c, s).todo = s \o Tail(t)
             /\ More(c, s).todo \in Seq(Inner) /\ (Holds(c) => Holding(More(c, s).todo))
  <2>1. s \in Seq(StepNames)
    BY InnerLists, SeqMonotonic
  <2> QED BY <1>1, <1>2, <1>5, <2>1, Mores, HoldingConcat
<1>6. /\ <<"startExec">> \in Seq(Inner) /\ <<"startWait">> \in Seq(Inner) /\ <<"stopExec">> \in Seq(Inner)
      /\ <<"checkVersion">> \in Seq(Inner) /\ <<"startDaemon">> \in Seq(Inner) /\ RestartDaemon \in Seq(Inner)
  BY InnerLists DEF Inner
<1>7. t = G1 => Head(t) = "stopDaemon" /\ Rest(c).todo = G3 /\ More(c, <<"stopExec">>).todo = G2
  <2>1. More(c, <<"stopExec">>).todo = <<"stopExec">> \o Tail(t)
    BY <1>5, <1>6
  <2>2. t = G1 => Head(t) = "stopDaemon" /\ Tail(t) = G3
    BY ClearLists
  <2>3. t = G1 => More(c, <<"stopExec">>).todo = G2
    BY <2>1, <2>2 DEF G2
  <2>4. Rest(c).todo = Tail(t)
    BY <1>3
  <2> QED BY <2>2, <2>3, <2>4
<1>8. t = G2 => Head(t) = "stopExec"
  BY ClearLists
<1>9. CASE StartDaemon(c) \/ StartExec(c) \/ StartWait(c) \/ AutoStart(c) \/ CheckVersion(c)
  <2>1. Head(t) \notin {"stopDaemon", "stopExec"}
    BY <1>9 DEF At, StartDaemon, StartExec, StartWait, AutoStart, CheckVersion
  <2>2. \/ Go(c, Rest(c)) \/ Go(c, More(c, <<"startExec">>)) \/ Go(c, More(c, <<"startWait">>))
        \/ Go(c, More(c, <<"checkVersion">>)) \/ Go(c, More(c, <<"startDaemon">>)) \/ Go(c, More(c, RestartDaemon))
    BY <1>9 DEF StartDaemon, StartExec, StartWait, AutoStart, CheckVersion
  <2> QED BY <1>3, <1>5, <1>6, <1>7, <1>8, <2>1, <2>2
<1>10. CASE StopDaemon(c)
  <2>1. Head(t) # "stopExec"
    BY <1>10 DEF At, StopDaemon
  <2>2. Go(c, Failed(Rest(c))) \/ Go(c, More(c, <<"stopExec">>))
    BY <1>10 DEF StopDaemon
  <2> QED BY <1>4, <1>5, <1>6, <1>7, <1>8, <2>1, <2>2
<1>11. CASE StopExec(c)
  <2>1. Head(t) # "stopDaemon"
    BY <1>11 DEF At, StopExec
  <2>2. Go(c, Rest(c)) \/ Go(c, Failed(Rest(c)))
    BY <1>11 DEF StopExec
  <2> QED BY <1>3, <1>4, <1>7, <2>1, <2>2
<1> QED BY <1>9, <1>10, <1>11 DEF InnerAct

LEMMA InnerNext ==
  ASSUME Typed, FilesInv, NEW c \in Calls, InnerAct(c)
  PROVE  FilesInv'
<1> USE DEF disk, status, bounds
<1>1. /\ call \in [Calls -> Records] /\ call[c].todo # <<>> /\ Head(call[c].todo) \in Inner
      /\ Head(call[c].todo) # "release"
  BY DEF Typed, At, InnerAct, StartDaemon, StartExec, StartWait, StopDaemon, StopExec, AutoStart, CheckVersion, Inner
<1>2. call[c].todo \in Seq(Inner)
  BY <1>1, Kinds, HeadsTell
<1>3. UNCHANGED <<user, disk, guard>> /\ hit \subseteq hit'
  BY DEF InnerAct, StartDaemon, StartExec, StartWait, StopDaemon, StopExec, AutoStart, CheckVersion, Fault
<1>4. PICK l \in Records :
           /\ Go(c, l) /\ l.todo \in Seq(Inner)
           /\ Holds(c) => Holding(l.todo)
           /\ call[c].todo = G1 => l.todo \in {G2, G3}
           /\ call[c].todo = G2 => l.todo = G3
  BY <1>2, InnerGoes
<1>5. call'[c].todo = l.todo /\ \A d \in Calls : d # c => call'[d] = call[d]
  BY <1>1, <1>4, Goes
<1>6. guard' => \E d \in Calls : Holds(d)'
  <2>1. \A d \in Calls : Holds(d) => Holds(d)'
    BY <1>4, <1>5 DEF Holds
  <2> QED BY <1>3, <2>1 DEF FilesInv, GuardInv
<1>7. ASSUME user = None
      PROVE  /\ l.todo \in OutTodos /\ ~pendingVersionRestart'
             /\ "quit" \notin hit => daemon'.st # "booting"
  <2>1. /\ call[c].todo \in OutTodos /\ ~pendingVersionRestart
        /\ "quit" \notin hit => daemon.st # "booting"
    BY <1>7 DEF FilesInv, LoggedOut, Leftovers
  <2>2. \/ call[c].todo = G1 /\ Head(call[c].todo) = "stopDaemon"
        \/ call[c].todo = G2 /\ Head(call[c].todo) = "stopExec"
    BY <1>1, <2>1, OutTell DEF Inner
  <2>3. StopDaemon(c) \/ StopExec(c)
    BY <2>2 DEF At, InnerAct, StartDaemon, StartExec, StartWait, AutoStart, CheckVersion
  <2>4. daemon' \in {daemon, Off} /\ pendingVersionRestart' = pendingVersionRestart
    BY <2>3 DEF StopDaemon, StopExec
  <2> QED BY <1>4, <2>1, <2>2, <2>4, OffDaemon DEF OutTodos
<1> QED BY <1>1, <1>3, <1>4, <1>6, <1>7, WorkStep

-----------------------------------------------------------------------------
(* The steps of the daemon, the status and the user *)

LEMMA AsideStep ==
  ASSUME Typed, FilesInv, UNCHANGED <<user, disk, guard, call>>, hit \subseteq hit',
         daemon'.st = "booting" => daemon.st = "booting",
         pendingVersionRestart' => pendingVersionRestart
  PROVE  FilesInv'
<1> USE DEF disk
<1>1. LoggedIn' /\ GuardInv' /\ TruthInv'
  BY DEF FilesInv, LoggedIn, GuardInv, Holds, TruthInv, Truth, Rewriting, Syncing
<1>2. ASSUME NEW c \in Calls, Syncing(c)'
      PROVE  SyncOK(c)'
  <2>1. SyncOK(c)
    BY <1>2 DEF Syncing, FilesInv, SyncInv
  <2> QED BY <2>1 DEF SyncOK, Alone
<1>3. LoggedOut'
  BY DEF FilesInv, LoggedOut, Leftovers
<1> QED BY <1>1, <1>2, <1>3 DEF FilesInv, SyncInv

LEMMA PollEndNext ==
  ASSUME Typed, FilesInv, PollEnd
  PROVE  FilesInv'
<1> USE DEF disk, status, bounds
<1>1. UNCHANGED <<user, disk, guard, daemon, pendingVersionRestart, hit>>
  BY DEF PollEnd
<1>2. CASE call' = call
  BY <1>1, <1>2, AsideStep
<1>3. CASE pendingVersionRestart /\ Free # {} /\ call' = [call EXCEPT ![Slot] = Chain(<<"checkVersion">>, None)]
  <2>1. user # None /\ \A d \in Calls : ~Syncing(d)
    BY <1>3 DEF FilesInv, LoggedOut, SyncInv, SyncOK, Alone
  <2>2. Truth /\ \A d \in Calls : call[d].todo \in InTodos
    BY <2>1, Settled DEF FilesInv, LoggedIn, Syncing
  <2>3. <<"checkVersion">> \in Seq(Inner)
    BY DEF Inner
  <2>4. Chain(<<"checkVersion">>, None).todo = <<"checkVersion">>
    BY DEF Chain, Idle
  <2>5. Slot \in Calls /\ call[Slot].todo = <<>> /\ call \in [Calls -> Records]
    BY <1>3, SlotFree DEF Typed
  <2>6. \A d \in Calls : call'[d].todo \in InTodos
    BY <1>3, <2>2, <2>3, <2>4, <2>5 DEF InTodos
  <2>7. \A d \in Calls : Holds(d) => Holds(d)'
    BY <1>3, <2>5 DEF Holds, Holding
  <2>8. guard' => \E d \in Calls : Holds(d)'
    BY <1>1, <2>7 DEF FilesInv, GuardInv
  <2> QED BY <1>1, <2>1, <2>2, <2>6, <2>8, InStep
<1> QED BY <1>2, <1>3 DEF PollEnd

LEMMA WhenQuiet ==
  ASSUME Typed, FilesInv, Quiet
  PROVE  /\ \A c \in Calls : call[c].todo = <<>> /\ ~Syncing(c) /\ ~Holds(c)
         /\ guard = FALSE /\ Truth /\ daemon.st # "booting" /\ ~pendingVersionRestart
<1>1. \A c \in Calls : call[c].todo = <<>>
  BY DEF Quiet, Free
<1>2. \A c \in Calls : ~Syncing(c) /\ ~Holds(c)
  BY <1>1, LoginLists DEF Syncing, SyncTodos, Holds, Holding
<1>3. guard = FALSE
  BY <1>2 DEF FilesInv, GuardInv, Typed
<1> QED BY <1>1, <1>2, <1>3, Settled DEF Quiet

\* A login starts the one chain there is.
LEMMA LoginStarts ==
  ASSUME Typed, FilesInv, Quiet, NEW c \in Calls, user' \in Users,
         call' = [d \in Calls |-> IF d = c THEN Chain(OnLogin, user') ELSE call[d]],
         UNCHANGED disk, daemon' = daemon, ~pendingVersionRestart', guard' = FALSE
  PROVE  FilesInv'
<1> USE DEF disk
<1>1. call'[c].todo = OnLogin /\ call'[c].who = user' /\ \A d \in Calls : d # c => call'[d].todo = <<>>
  BY WhenQuiet DEF Chain, Idle
<1>2. user' # None /\ <<>> \in InTodos /\ <<>> \notin SyncTodos /\ OnLogin \in SyncTodos
      /\ OnLogin \notin {L2, L3, L4, L5, L6}
  BY DesktopAssumption, InnerLists, LoginLists DEF InTodos, SyncTodos
<1>3. SyncOK(c)'
  BY <1>1, <1>2, WhenQuiet DEF SyncOK, Alone
<1>4. LoggedIn' /\ LoggedOut' /\ GuardInv'
  BY <1>1, <1>2 DEF LoggedIn, LoggedOut, GuardInv
<1>5. SyncInv'
  BY <1>1, <1>2, <1>3 DEF SyncInv, Syncing
<1>6. TruthInv'
  BY WhenQuiet DEF TruthInv, Truth
<1> QED BY <1>4, <1>5, <1>6 DEF FilesInv

\* A button starts a chain under the guard.
LEMMA ButtonStarts ==
  ASSUME Typed, FilesInv, Quiet, user # None, user' = user, Free # {},
         NEW t \in {Start, Stop, Restart}, call' = [call EXCEPT ![Slot] = Chain(t, None)],
         UNCHANGED disk, guard' = guard
  PROVE  FilesInv'
<1> USE DEF disk
<1>1. Chain(t, None).todo = t /\ <<>> \in InTodos /\ t \in InTodos
  BY InnerLists DEF Chain, Idle, InTodos
<1>2. \A d \in Calls : call'[d].todo \in InTodos
  BY <1>1, WhenQuiet DEF Typed
<1> QED BY <1>2, WhenQuiet, InStep

LEMMA LogoutNext ==
  ASSUME Typed, FilesInv, Quiet, Logout
  PROVE  FilesInv'
<1> USE DEF disk, status, bounds
<1>1. Free # {}
  <2>1. Cardinality(Free) > 1
    BY DEF Logout
  <2>2. Cardinality({}) = 0
    BY FS_EmptySet
  <2> QED BY <2>1, <2>2
<1>2. Slot \in Calls /\ call \in [Calls -> Records]
  BY <1>1, SlotFree DEF Typed
<1> DEFINE other == CHOOSE c \in Free \ {Slot} : TRUE
           out == Chain(OnLogout, None)
<1>3. call' = [call EXCEPT ![Slot] = out, ![other] = out]
  BY DEF Logout
<1>4. out.todo = OnLogout
  BY DEF Chain, Idle
<1> HIDE DEF other, out
<1>5. call'[Slot].todo = OnLogout /\ \A d \in Calls : call'[d].todo \in {<<>>, OnLogout}
  BY <1>2, <1>3, <1>4, WhenQuiet
<1>6. user' = None /\ UNCHANGED <<disk, daemon, pendingVersionRestart, guard>>
  BY DEF Logout
<1>7. \A d \in Calls : call'[d].todo \in OutTodos
  BY <1>5 DEF OutTodos
<1>8. Leftovers'
  BY <1>2, <1>5, <1>6, WhenQuiet DEF Leftovers
<1> QED BY <1>2, <1>5, <1>6, <1>7, <1>8, WhenQuiet, OutStep

\* A start of the app finds the files as the last session left them, and a
\* user's chain to set them right.
LEMMA RestartNext ==
  ASSUME Typed, FilesInv, AppRestart
  PROVE  FilesInv'
<1> USE DEF disk, status, bounds
<1>1. call' = Opening /\ ~pendingVersionRestart' /\ guard' = FALSE /\ UNCHANGED <<user, disk, daemon>>
  BY DEF AppRestart
<1>2. (Quiet /\ hit' = hit) \/ "quit" \in hit'
  BY DEF AppRestart, Fault
<1>3. Quiet => daemon.st # "booting" /\ \A d \in Calls : call[d].todo = <<>> /\ ~Syncing(d)
  BY WhenQuiet
<1>4. CASE user # None /\ First \in Calls
  <2>1. \A d \in Calls : call'[d] = IF d = First THEN Chain(OnLogin, user') ELSE Idle
    BY <1>1, <1>4 DEF Opening
  <2>2. call'[First].todo = OnLogin /\ call'[First].who = user /\ \A d \in Calls : d # First => call'[d].todo = <<>>
    BY <1>1, <1>4, <2>1, IdleRecord DEF Chain, Idle
  <2>3. user # None /\ OnLogin \in SyncTodos /\ OnLogin \notin {L2, L3, L4, L5, L6}
    BY <1>4, LoginLists DEF SyncTodos
  <2>4. SyncOK(First)'
    BY <1>1, <1>2, <1>3, <2>2, <2>3 DEF SyncOK, Alone
  <2>5. Truth' \/ Rewriting(First)'
    <3>1. CASE Truth
      BY <1>1, <3>1 DEF Truth
    <3>2. ASSUME NEW c \in Calls, Rewriting(c)
          PROVE  Rewriting(First)'
      <4>1. Syncing(c) /\ token = user
        BY <3>2 DEF Rewriting, Syncing, SyncTodos, FilesInv, SyncInv, SyncOK
      <4>2. "quit" \in hit'
        BY <1>2, <1>3, <4>1
      <4> QED BY <1>1, <2>2, <2>3, <4>1, <4>2 DEF Rewriting, Syncing
    <3> QED BY <3>1, <3>2 DEF FilesInv, TruthInv
  <2> QED BY <1>1, <1>4, <2>2, <2>3, <2>4, <2>5, SyncStep
<1>5. CASE user = None \/ First \notin Calls
  <2>1. \A d \in Calls : call'[d].todo = <<>>
    BY <1>1, <1>5, IdleRecord DEF Opening
  <2>2. LoggedIn' /\ SyncInv' /\ GuardInv'
    BY <1>1, <2>1, LoginLists, InnerLists DEF LoggedIn, SyncInv, GuardInv, InTodos, Syncing, SyncTodos
  <2>3. LoggedOut'
    <3>1. "quit" \notin hit /\ user = None /\ Quiet => Leftovers'
      <4>1. "quit" \notin hit /\ user = None /\ Quiet => token = None /\ sidecar = None
        BY <1>3, ClearLists DEF FilesInv, LoggedOut, Leftovers
      <4> QED BY <1>1, <1>3, <2>1, <4>1 DEF Leftovers
    <3> QED BY <1>1, <1>2, <2>1, <3>1 DEF LoggedOut, OutTodos
  <2>4. \A d \in Calls : ~Syncing(d)
    BY <1>5, HeadsTell, LoginLists DEF FilesInv, LoggedOut, Syncing, SyncTodos, First
  <2>5. TruthInv'
    BY <1>1, <2>4, Settled DEF TruthInv, Truth
  <2> QED BY <2>2, <2>3, <2>5 DEF FilesInv
<1> QED BY <1>4, <1>5

LEMMA UserNext ==
  ASSUME Patient, Typed, FilesInv, User
  PROVE  FilesInv'
<1> USE DEF disk, status, bounds
<1>1. ASSUME NEW u \in Users, Login(u)
      PROVE  FilesInv'
  <2>1. Quiet /\ Free # {} /\ user' = u /\ call' = [call EXCEPT ![Slot] = Chain(OnLogin, u)]
    BY <1>1 DEF Login, Acts
  <2>2. UNCHANGED <<disk, daemon, pendingVersionRestart, guard>>
    BY <1>1 DEF Login, Acts
  <2>3. Slot \in Calls
    BY <2>1, SlotFree
  <2>4. call' = [d \in Calls |-> IF d = Slot THEN Chain(OnLogin, user') ELSE call[d]]
    BY <2>1 DEF Typed
  <2> QED BY <2>1, <2>2, <2>3, <2>4, WhenQuiet, LoginStarts
<1>2. CASE Logout
  <2>1. Quiet
    BY <1>2 DEF Logout
  <2> QED BY <1>2, <2>1, LogoutNext
<1>3. CASE PressStart
  BY <1>3, ButtonStarts DEF PressStart, Acts
<1>4. CASE PressStop
  BY <1>4, ButtonStarts DEF PressStop, Acts
<1>5. CASE RestartForWorkspace
  BY <1>5, ButtonStarts DEF RestartForWorkspace, Acts
<1>6. CASE RetryInstall
  BY <1>6, AsideStep DEF RetryInstall
<1>7. CASE AppRestart
  BY <1>7, RestartNext
<1> QED BY <1>1, <1>2, <1>3, <1>4, <1>5, <1>6, <1>7 DEF User

\* What has gone wrong stays on record.
LEMMA HitsGrow == [Next]_vars => hit \subseteq hit'
<1> SUFFICES ASSUME [Next]_vars PROVE hit \subseteq hit'
  OBVIOUS
<1> USE DEF disk, status, bounds
<1>1. ASSUME NEW c \in Calls, Step(c)
      PROVE  hit \subseteq hit'
  BY <1>1 DEF Step, ReadConfig, ReadUserId, ChooseToken, Mint, WriteConfig, WriteUserId, Switched,
     ClearRead, ClearWrite, ClearUserId, TakeGuard, Release, StartDaemon, StartExec, StartWait,
     StopDaemon, StopExec, AutoStart, CheckVersion, Fault
<1>2. CASE Bootstrap \/ Polling \/ Booting \/ TaskBegins \/ TaskEnds
  BY <1>2 DEF Bootstrap, Polling, PollBegin, PollEnd, Booting, BootReadsToken, BootEnds, TaskBegins, TaskEnds, Fault
<1>3. CASE User
  BY <1>3 DEF User, Login, Logout, PressStart, PressStop, RestartForWorkspace, RetryInstall, AppRestart, Acts, Fault
<1>4. CASE UNCHANGED vars
  BY <1>4 DEF vars
<1> QED BY <1>1, <1>2, <1>3, <1>4 DEF Next

FilesKept == ~Broken => FilesInv

LEMMA FilesNext == Patient /\ Typed /\ FilesKept /\ [Next]_vars => FilesKept'
<1> SUFFICES ASSUME Patient, Typed, FilesKept, [Next]_vars, ~Broken' PROVE FilesInv'
  BY DEF FilesKept
<1>1. Typed' /\ hit \subseteq hit' /\ FilesInv
  BY TypedNext, HitsGrow DEF FilesKept, Broken
<1> USE DEF disk, status, bounds
<1>2. ASSUME NEW c \in Calls, Step(c)
      PROVE  FilesInv'
  <2>1. SyncAct(c) \/ Switched(c) \/ ClearRead(c) \/ ClearWrite(c) \/ ClearUserId(c)
        \/ TakeGuard(c) \/ Release(c) \/ InnerAct(c)
    BY <1>2 DEF Step, SyncAct, InnerAct
  <2> QED BY <1>1, <2>1, SyncNext, SwitchedNext, ClearNext, GuardNext, InnerNext
<1>3. CASE Bootstrap
  BY <1>1, <1>3, AsideStep DEF Bootstrap
<1>4. CASE PollBegin
  BY <1>1, <1>4, AsideStep DEF PollBegin
<1>5. CASE PollEnd
  BY <1>1, <1>5, PollEndNext
<1>6. CASE BootReadsToken \/ BootEnds
  <2>1. daemon.st = "booting" /\ UNCHANGED <<user, disk, guard, call, pendingVersionRestart>>
    BY <1>6 DEF BootReadsToken, BootEnds
  <2> QED BY <1>1, <2>1, AsideStep
<1>7. CASE TaskBegins \/ TaskEnds
  <2>1. daemon'.st = daemon.st /\ UNCHANGED <<user, disk, guard, call, pendingVersionRestart>>
    BY <1>7 DEF TaskBegins, TaskEnds, Typed, Daemons
  <2> QED BY <1>1, <2>1, AsideStep
<1>8. CASE User
  BY <1>1, <1>8, UserNext
<1>9. CASE UNCHANGED vars
  BY <1>1, <1>9, AsideStep DEF vars
<1> QED BY <1>2, <1>3, <1>4, <1>5, <1>6, <1>7, <1>8, <1>9 DEF Next, Polling, Booting

\* Whenever nothing is under way the sidecar names the owner of the token, so a
\* patient user's next login never takes another user's token for its own.  This
\* holds whatever failed before and even if the app quit between the two writes,
\* as its next start writes the sidecar, unless that start could not mint.
THEOREM CachedTokenIsTheirs ==
  ASSUME Patient PROVE Spec => []SidecarTruthful
<1>1. Typed /\ FilesKept => SidecarTruthful
  BY WhenQuiet DEF FilesKept, Broken, SidecarTruthful, Truth
<1>2. FilesInv => FilesKept
  BY DEF FilesKept
<1> QED BY <1>1, <1>2, TypedNext, FilesInit, FilesNext, PTL DEF Spec

\* Whenever nothing is under way and nobody is logged in, neither file is there,
\* unless the app quit with something under way.
THEOREM LogoutLeavesNothing ==
  ASSUME Patient PROVE Spec => []LoggedOutClean
<1>1. Typed /\ FilesKept => LoggedOutClean
  <2> SUFFICES ASSUME Typed, FilesInv, Quiet, user = None, "quit" \notin hit
               PROVE  token = None /\ sidecar = None
    BY DEF FilesKept, Broken, LoggedOutClean
  <2>1. \A c \in Calls : call[c].todo \notin {OnLogout, C1, C2}
    BY WhenQuiet, ClearLists
  <2> QED BY <2>1 DEF FilesInv, LoggedOut, Leftovers
<1>2. FilesInv => FilesKept
  BY DEF FilesKept
<1> QED BY <1>1, <1>2, TypedNext, FilesInit, FilesNext, PTL DEF Spec

-----------------------------------------------------------------------------
(* The daemon.  A failed mint or stop is not made good, nor what a quit left  *)
(* undone, and without a binary nothing can be stopped; in every other case a *)
(* daemon with credentials that are not the user's is about to be stopped.    *)

Clean       == hit \cap {"mint", "kill", "cli", "quit"} = {}
Foreign     == daemon.cred \notin {None, user}
Stopping(c) == At(c, "stopDaemon") \/ At(c, "stopExec")

\* With a user and no login's chain: the files are the user's, and a daemon that
\* is not has a chain that will stop it.
OwnDaemon ==
  user # None /\ (\A c \in Calls : ~Syncing(c)) =>
    /\ token = user /\ sidecar = user
    /\ Foreign => Up /\ \E c \in Calls : Stopping(c)

\* A daemon that a login's chain inherits is the owner's that the sidecar named
\* when the chain began: the chain will know it for a change of user.
Inherited ==
  \A c \in Calls : Syncing(c) /\ Foreign =>
    daemon.cred = IF call[c].todo \in {OnLogin, L2} THEN sidecar ELSE call[c].previous

\* With nobody logged in, a daemon has a chain that stops it, or one that will
\* get the guard in order to.
OutDaemon ==
  user = None /\ daemon.st # "down" =>
    \/ \E c \in Calls : Stopping(c)
    \/ guard = FALSE /\ \E c \in Calls : call[c].todo \in {OnLogout, C1, C2, Stop}

DaemonCore ==
  /\ cli # "missing"
  /\ daemon.st = "down" => daemon.cred = None
  /\ OwnDaemon /\ Inherited /\ OutDaemon

DaemonInv == Clean => DaemonCore

LEMMA HitsStay == [Next]_vars /\ Clean' => Clean /\ ~Broken /\ ~Broken'
BY HitsGrow DEF Clean, Broken

LEMMA NotSyncing ==
  /\ \A t \in InTodos \cup OutTodos : t \notin SyncTodos
  /\ <<>> \notin SyncTodos
BY HeadsTell, LoginLists DEF SyncTodos

LEMMA DaemonInit == Init => DaemonInv
<1> SUFFICES ASSUME Init PROVE DaemonCore
  BY DEF DaemonInv
<1>1. /\ daemon.st # "booting" /\ ~Foreign /\ (daemon.st = "down" => daemon.cred = None)
      /\ (user = None => daemon.st = "down")
  BY InitialDaemon DEF Foreign
<1>2. cli # "missing" /\ token = user /\ sidecar = user
  BY DEF Init
<1> QED BY <1>1, <1>2 DEF DaemonCore, OwnDaemon, Inherited, OutDaemon

\* A step with a user and without a login's chain.
LEMMA OwnStep ==
  ASSUME DaemonCore, user # None, UNCHANGED <<user, disk>>,
         \A d \in Calls : ~Syncing(d), \A d \in Calls : call'[d].todo \notin SyncTodos,
         cli' # "missing", daemon'.st = "down" => daemon'.cred = None,
         Foreign' => Up' /\ \E d \in Calls : Stopping(d)'
  PROVE  DaemonCore'
BY DEF DaemonCore, OwnDaemon, Inherited, OutDaemon, Syncing, disk

\* A step with nobody logged in after it.
LEMMA GoneStep ==
  ASSUME FilesInv', user' = None, cli' # "missing", daemon'.st = "down" => daemon'.cred = None,
         OutDaemon'
  PROVE  DaemonCore'
<1>1. \A d \in Calls : ~Syncing(d)'
  BY NotSyncing DEF FilesInv, LoggedOut, Syncing
<1> QED BY <1>1 DEF DaemonCore, OwnDaemon, Inherited

\* A step that leaves chains and files alone, and what counts of the daemon.
LEMMA AsideDaemon ==
  ASSUME DaemonCore, UNCHANGED <<user, disk, guard, call>>, cli' # "missing",
         daemon'.st = daemon.st, daemon'.cred = daemon.cred
  PROVE  DaemonCore'
<1> USE DEF disk
<1>1. OwnDaemon'
  BY DEF DaemonCore, OwnDaemon, Foreign, Up, Stopping, At, Syncing
<1>2. Inherited'
  BY DEF DaemonCore, Inherited, Foreign, Syncing
<1>3. OutDaemon'
  BY DEF DaemonCore, OutDaemon, Stopping, At
<1> QED BY <1>1, <1>2, <1>3 DEF DaemonCore

LEMMA SyncDaemon ==
  ASSUME Typed, FilesInv, FilesInv', DaemonCore, NEW c \in Calls, SyncAct(c), "mint" \notin hit'
  PROVE  DaemonCore'
<1> USE DEF disk, status, bounds
<1>1. call \in [Calls -> Records] /\ call[c].todo # <<>>
  BY DEF SyncAct, Typed, At, ReadConfig, ReadUserId, ChooseToken, Mint, WriteConfig, WriteUserId
<1> DEFINE t == call[c].todo
<1>2. t \in SyncTodos \cup InTodos \cup OutTodos
  BY Kinds
<1>3. UNCHANGED <<user, daemon, cli>>
  BY DEF SyncAct, ReadConfig, ReadUserId, ChooseToken, Mint, WriteConfig, WriteUserId
<1>4. /\ Rest(c) \in Records /\ Rest(c).todo = Tail(t) /\ Rest(c).previous = call[c].previous
  BY <1>1, Rests
\* Where the chain stood, where it stands, and what it knows of the old owner.
<1>5. \/ t = OnLogin /\ call'[c].todo = L2 /\ sidecar' = sidecar
      \/ t = L2 /\ call'[c].todo = L3 /\ call'[c].previous = sidecar
      \/ t \in {L3, LM, L4, L5} /\ call'[c].todo \in {LM, L4, L5, L6} /\ call'[c].previous = call[c].previous
  <2>1. CASE ReadConfig(c)
    <3> DEFINE l == [Rest(c) EXCEPT !.config = token]
    <3>1. t = OnLogin /\ Go(c, l) /\ sidecar' = sidecar
      BY <1>1, <1>2, <2>1, HeadsTell DEF ReadConfig, At
    <3>2. l \in Records /\ l.todo = L2
      BY <1>4, <3>1, LoginLists DEF Records, Typed
    <3> HIDE DEF l
    <3> QED BY <1>1, <3>1, <3>2, Goes
  <2>2. CASE ReadUserId(c)
    <3> DEFINE l == [Rest(c) EXCEPT !.previous = sidecar]
    <3>1. t = L2 /\ Go(c, l)
      BY <1>1, <1>2, <2>2, HeadsTell DEF ReadUserId, At
    <3>2. l \in Records /\ l.todo = L3 /\ l.previous = sidecar
      BY <1>4, <3>1, LoginLists DEF Records, Typed
    <3> HIDE DEF l
    <3> QED BY <1>1, <3>1, <3>2, LoginLists, Goes
  <2>3. CASE ChooseToken(c)
    <3>1. t = L3
      BY <1>1, <1>2, <2>3, HeadsTell DEF ChooseToken, At
    <3>2. <<"mint">> \in Seq(StepNames)
      BY DEF StepNames
    <3>3. /\ More(c, <<"mint">>) \in Records /\ More(c, <<"mint">>).todo = LM
          /\ More(c, <<"mint">>).previous = call[c].previous
      BY <1>1, <3>1, <3>2, Mores, LoginLists DEF LM
    <3>4. Go(c, Rest(c)) \/ Go(c, More(c, <<"mint">>))
      BY <2>3 DEF ChooseToken
    <3> QED BY <1>1, <1>4, <3>1, <3>3, <3>4, LoginLists, Goes
  <2>4. CASE Mint(c)
    <3> DEFINE l == [Rest(c) EXCEPT !.config = call[c].who]
    <3>1. t = LM
      BY <1>1, <1>2, <2>4, HeadsTell DEF Mint, At
    <3>2. Go(c, l)
      BY <2>4 DEF Mint, Fault
    <3>3. call[c].who \in Owners
      BY <1>1 DEF Records
    <3>4. l \in Records /\ l.todo = L4 /\ l.previous = call[c].previous
      BY <1>4, <3>1, <3>3, LoginLists DEF Records
    <3> HIDE DEF l
    <3> QED BY <1>1, <3>1, <3>2, <3>4, LoginLists, Goes
  <2>5. CASE WriteConfig(c)
    <3>1. t = L4 /\ Go(c, Rest(c))
      BY <1>1, <1>2, <2>5, HeadsTell DEF WriteConfig, At
    <3> QED BY <1>1, <1>4, <3>1, LoginLists, Goes
  <2>6. CASE WriteUserId(c)
    <3>1. t = L5 /\ Go(c, Rest(c))
      BY <1>1, <1>2, <2>6, HeadsTell DEF WriteUserId, At
    <3> QED BY <1>1, <1>4, <3>1, LoginLists, Goes
  <2> QED BY <2>1, <2>2, <2>3, <2>4, <2>5, <2>6 DEF SyncAct
<1>6. Syncing(c) /\ Syncing(c)'
  BY <1>5 DEF Syncing, SyncTodos
<1>7. user # None /\ \A d \in Calls : d # c => ~Syncing(d)'
  <2>1. user # None
    BY <1>6, WhileSyncing DEF SyncOK
  <2>2. SyncOK(c)'
    BY <1>6 DEF FilesInv, SyncInv
  <2>3. \A d \in Calls : d # c => call'[d].todo = <<>>
    BY <2>2 DEF SyncOK, Alone
  <2> QED BY <2>1, <2>3, NotSyncing DEF Syncing
<1>8. /\ OnLogin \notin {L3, LM, L4, L5, L6} /\ L2 \notin {L3, LM, L4, L5, L6}
  BY LoginLists
<1>9. Foreign => daemon.cred = IF t \in {OnLogin, L2} THEN sidecar ELSE call[c].previous
  BY <1>6 DEF DaemonCore, Inherited
<1>10. Foreign' => daemon.cred = IF call'[c].todo \in {OnLogin, L2} THEN sidecar' ELSE call'[c].previous
  BY <1>3, <1>5, <1>8, <1>9 DEF Foreign
<1>11. Inherited'
  BY <1>3, <1>7, <1>10 DEF Inherited
<1>12. OwnDaemon' /\ OutDaemon'
  BY <1>3, <1>6, <1>7 DEF OwnDaemon, OutDaemon
<1> QED BY <1>3, <1>11, <1>12 DEF DaemonCore

LEMMA SwitchedDaemon ==
  ASSUME Typed, FilesInv, FilesInv', DaemonCore, NEW c \in Calls, Switched(c), "quit" \notin hit
  PROVE  DaemonCore'
<1> USE DEF disk
<1>1. /\ call[c].todo = L6 /\ user # None /\ token = user /\ sidecar = user
      /\ \A d \in Calls : call'[d].todo \in Seq(Inner)
      /\ UNCHANGED <<user, disk, daemon, cli>>
  BY SwitchedFacts
<1>2. \A d \in Calls : ~Syncing(d)'
  BY <1>1, NotSyncing DEF Syncing, InTodos
<1>3. Syncing(c) /\ SyncOK(c)
  BY <1>1, WhileSyncing DEF Syncing, SyncTodos
<1>4. ASSUME Foreign
      PROVE  Up /\ \E d \in Calls : Stopping(d)'
  <2>1. L6 \notin {OnLogin, L2}
    BY LoginLists
  <2>2. daemon.cred = call[c].previous /\ daemon.cred \notin {None, user}
    BY <1>1, <1>3, <1>4, <2>1 DEF DaemonCore, Inherited, Foreign
  <2>3. Up
    BY <1>3, <2>2 DEF DaemonCore, SyncOK, Alone, Typed, Daemons, Up
  <2>4. UserChanged(call[c])
    BY <1>3, <2>2 DEF UserChanged, SyncOK
  <2>5. Free # {} /\ call' = [call EXCEPT ![c] = Settle(Rest(c)), ![Slot] = Chain(RestartDaemon, None)]
    BY <2>3, <2>4 DEF Switched
  <2>6. PICK d \in Calls : d = Slot
    BY <2>5, SlotFree
  <2>7. call'[d].todo = RestartDaemon
    BY <2>5, <2>6 DEF Typed, Chain, Idle
  <2>8. Stopping(d)'
    BY <2>7, InnerLists DEF Stopping, At
  <2> QED BY <2>3, <2>6, <2>8
<1>5. Foreign' => Up' /\ \E d \in Calls : Stopping(d)'
  BY <1>1, <1>4 DEF Foreign, Up
<1>6. OwnDaemon' /\ Inherited' /\ OutDaemon'
  BY <1>1, <1>2, <1>5 DEF OwnDaemon, Inherited, OutDaemon
<1> QED BY <1>1, <1>6 DEF DaemonCore

LEMMA ClearDaemon ==
  ASSUME Typed, FilesInv, FilesInv', DaemonCore, NEW c \in Calls,
         ClearRead(c) \/ ClearWrite(c) \/ ClearUserId(c)
  PROVE  DaemonCore'
<1> USE DEF disk, status, bounds
<1>1. call \in [Calls -> Records] /\ call[c].todo # <<>>
  BY DEF Typed, At, ClearRead, ClearWrite, ClearUserId
<1>2. Head(call[c].todo) \in {"clearRead", "clearWrite", "clearUserId"}
  BY DEF At, ClearRead, ClearWrite, ClearUserId
<1>3. user = None
  <2>1. call[c].todo \notin SyncTodos
    BY <1>2, LoginLists DEF SyncTodos
  <2>2. call[c].todo \notin InTodos
    BY <1>1, <1>2, InnerLists, ClearLists, HoldingTail DEF InTodos, Inner
  <2> QED BY <2>1, <2>2 DEF FilesInv, LoggedIn
<1>4. UNCHANGED <<user, daemon, cli, guard>>
  BY DEF ClearRead, ClearWrite, ClearUserId
<1>5. call'[c].todo \in {OnLogout, C1, C2, Stop} /\ \A d \in Calls : d # c => call'[d] = call[d]
  <2>1. Rest(c) \in Records /\ Rest(c).todo = Tail(call[c].todo)
    BY <1>1, Rests
  <2>2. <<"clearWrite">> \in Seq(StepNames)
    BY DEF StepNames
  <2>3. More(c, <<"clearWrite">>) \in Records /\ More(c, <<"clearWrite">>).todo = <<"clearWrite">> \o Tail(call[c].todo)
    BY <1>1, <2>2, Mores
  <2>4. CASE ClearRead(c)
    <3>1. call[c].todo = OnLogout
      BY <1>1, <2>4, Kinds, HeadsTell DEF ClearRead, At
    <3>2. Rest(c).todo = C2 /\ More(c, <<"clearWrite">>).todo = C1
      BY <2>1, <2>3, <3>1, ClearLists DEF C1
    <3>3. Go(c, Rest(c)) \/ Go(c, More(c, <<"clearWrite">>))
      BY <2>4 DEF ClearRead
    <3> QED BY <1>1, <2>1, <2>3, <3>2, <3>3, Goes
  <2>5. CASE ClearWrite(c)
    <3>1. call[c].todo = C1 /\ Go(c, Rest(c))
      BY <1>1, <2>5, Kinds, HeadsTell DEF ClearWrite, At
    <3> QED BY <1>1, <2>1, <3>1, Goes, ClearLists
  <2>6. CASE ClearUserId(c)
    <3>1. call[c].todo = C2 /\ Go(c, Rest(c))
      BY <1>1, <2>6, Kinds, HeadsTell DEF ClearUserId, At
    <3> QED BY <1>1, <2>1, <3>1, Goes, ClearLists
  <2> QED BY <2>4, <2>5, <2>6
<1>6. ~Stopping(c)
  BY <1>2 DEF Stopping, At
<1>7. OutDaemon'
  <2>1. \A d \in Calls : Stopping(d) => Stopping(d)'
    BY <1>5, <1>6 DEF Stopping, At
  <2> QED BY <1>3, <1>4, <1>5, <2>1 DEF DaemonCore, OutDaemon
<1> QED BY <1>3, <1>4, <1>7, GoneStep DEF DaemonCore

LEMMA GuardDaemon ==
  ASSUME Typed, FilesInv, FilesInv', DaemonCore, NEW c \in Calls, TakeGuard(c) \/ Release(c)
  PROVE  DaemonCore'
<1> USE DEF disk, status, bounds
<1>1. /\ call \in [Calls -> Records] /\ call[c].todo # <<>> /\ UNCHANGED <<user, disk, daemon, cli>>
      /\ Head(call[c].todo) \in {"guard", "release"}
  BY DEF Typed, At, TakeGuard, Release
<1>2. Rest(c) \in Records /\ Rest(c).todo = Tail(call[c].todo)
  BY <1>1, Rests
<1>3. (Go(c, Rest(c)) \/ Go(c, Idle)) /\ \A d \in Calls : d # c => call'[d] = call[d]
  BY <1>1, <1>2, IdleRecord, Goes DEF TakeGuard, Release
<1>4. ~Syncing(c) /\ ~Stopping(c)
  BY <1>1, LoginLists DEF Syncing, SyncTodos, Stopping, At
<1>5. \A d \in Calls : Stopping(d) => Stopping(d)'
  BY <1>3, <1>4 DEF Stopping, At
<1>6. CASE user # None
  <2>1. call[c].todo \in {Start, Stop, Restart} \/ call[c].todo \in Seq(Inner)
    BY <1>1, Kinds, HeadsTell DEF Inner
  <2>2. Tail(call[c].todo) \in Seq(Inner)
    BY <1>1, <2>1, HoldingStarts, HoldingIsInner, HoldingTail
  <2>3. call'[c].todo \in Seq(Inner)
    BY <1>1, <1>2, <1>3, <2>2, IdleRecord, InnerLists, Goes
  <2>4. \A d \in Calls : ~Syncing(d)
    BY <1>1, <1>4, NoneSyncing
  <2>5. \A d \in Calls : call'[d].todo \notin SyncTodos
    BY <1>3, <2>3, <2>4, NotSyncing DEF Syncing, InTodos
  <2>6. Foreign' => Up' /\ \E d \in Calls : Stopping(d)'
    BY <1>1, <1>5, <1>6, <2>4 DEF DaemonCore, OwnDaemon, Foreign, Up
  <2> QED BY <1>1, <1>6, <2>4, <2>5, <2>6, OwnStep DEF DaemonCore
<1>7. CASE user = None
  <2>1. OutDaemon'
    <3>1. CASE TakeGuard(c) /\ guard
      BY <1>1, <1>5, <1>7, <3>1 DEF DaemonCore, OutDaemon
    <3>2. CASE TakeGuard(c) /\ ~guard
      <4>1. call[c].todo = Stop /\ Go(c, Rest(c))
        BY <1>1, <1>7, <3>2, Kinds, OutTell DEF TakeGuard, At
      <4>2. call'[c].todo = G1
        BY <1>1, <1>2, <4>1, ClearLists, Goes
      <4>3. Stopping(c)'
        BY <4>2, ClearLists DEF Stopping, At
      <4> QED BY <4>3 DEF OutDaemon
    <3>3. CASE Release(c)
      <4>1. call[c].todo = G3 /\ guard' = FALSE
        BY <1>1, <1>7, <3>3, Kinds, OutTell DEF Release, At
      <4>2. G3 \notin {OnLogout, C1, C2, Stop}
        BY ClearLists
      <4> QED BY <1>1, <1>3, <1>5, <1>7, <4>1, <4>2 DEF DaemonCore, OutDaemon
    <3> QED BY <3>1, <3>2, <3>3
  <2> QED BY <1>1, <1>7, <2>1, GoneStep DEF DaemonCore
<1> QED BY <1>6, <1>7

LEMMA InnerDaemon ==
  ASSUME Typed, FilesInv, FilesInv', DaemonCore, NEW c \in Calls, InnerAct(c), hit \cup hit' \subseteq Faults \ {"kill", "quit"}
  PROVE  DaemonCore'
<1> USE DEF disk, status, bounds
<1>1. /\ call \in [Calls -> Records] /\ call[c].todo # <<>> /\ Head(call[c].todo) \in Inner
      /\ Head(call[c].todo) # "release"
  BY DEF Typed, At, InnerAct, StartDaemon, StartExec, StartWait, StopDaemon, StopExec, AutoStart, CheckVersion, Inner
<1>2. call[c].todo \in Seq(Inner)
  BY <1>1, Kinds, HeadsTell
<1>3. UNCHANGED <<user, disk, guard, cli>>
  BY DEF InnerAct, StartDaemon, StartExec, StartWait, StopDaemon, StopExec, AutoStart, CheckVersion
<1>4. PICK l \in Records :
           /\ Go(c, l) /\ l.todo \in Seq(Inner)
           /\ Holds(c) => Holding(l.todo)
           /\ call[c].todo = G1 => l.todo \in {G2, G3}
           /\ call[c].todo = G2 => l.todo = G3
  BY <1>2, InnerGoes
<1>5. call'[c].todo = l.todo /\ \A d \in Calls : d # c => call'[d] = call[d]
  BY <1>1, <1>4, Goes
<1>6. \A d \in Calls : ~Syncing(d) /\ call'[d].todo \notin SyncTodos
  <2>1. ~Syncing(c)
    BY <1>2, NotSyncing DEF Syncing, InTodos
  <2>2. \A d \in Calls : ~Syncing(d)
    BY <1>1, <2>1, NoneSyncing
  <2> QED BY <1>4, <1>5, <2>2, NotSyncing DEF Syncing, InTodos
\* What the step does to the daemon, and to the chains that will stop it.
<1>7. daemon.st = "down" => daemon.cred = None
  BY DEF DaemonCore
<1>8. \/ daemon' = daemon /\ \A d \in Calls : Stopping(d) => Stopping(d)'
      \/ StartExec(c) /\ ~Up /\ daemon'.st = "booting" /\ daemon'.cred = daemon.cred
      \/ StopDaemon(c) /\ daemon' = daemon /\ Stopping(c)'
      \/ StopExec(c) /\ Up /\ daemon' = Off
      \/ StopExec(c) /\ ~Up /\ daemon' = daemon
  <2>1. CASE StartDaemon(c) \/ StartWait(c) \/ AutoStart(c) \/ CheckVersion(c)
    <3>1. ~Stopping(c) /\ daemon' = daemon
      BY <2>1 DEF StartDaemon, StartWait, AutoStart, CheckVersion, Stopping, At
    <3> QED BY <1>5, <3>1 DEF Stopping, At
  <2>2. CASE StartExec(c)
    <3>1. ~Stopping(c)
      BY <2>2 DEF StartExec, Stopping, At
    <3>2. \/ daemon' = daemon
          \/ ~Up /\ daemon' = [daemon EXCEPT !.st = "booting"]
      BY <2>2 DEF StartExec
    <3> QED BY <1>5, <2>2, <3>1, <3>2 DEF Stopping, At, Typed, Daemons
  <2>3. CASE StopDaemon(c)
    <3>1. daemon' = daemon /\ Go(c, More(c, <<"stopExec">>))
      BY <2>3 DEF StopDaemon, DaemonCore
    <3>2. <<"stopExec">> \in Seq(StepNames) /\ "stopExec" \in StepNames
      BY DEF StepNames
    <3>3. /\ More(c, <<"stopExec">>) \in Records
          /\ More(c, <<"stopExec">>).todo = <<"stopExec">> \o Tail(call[c].todo)
      BY <1>1, <3>2, Mores
    <3>4. call'[c].todo = <<"stopExec">> \o Tail(call[c].todo)
      BY <1>1, <3>1, <3>3, Goes
    <3>5. Tail(call[c].todo) \in Seq(StepNames)
      BY <1>1, HeadTailProperties DEF Records
    <3>6. call'[c].todo # <<>> /\ Head(call'[c].todo) = "stopExec"
      BY <3>2, <3>4, <3>5, Cons
    <3> QED BY <2>3, <3>1, <3>6 DEF Stopping, At
  <2>4. CASE StopExec(c)
    BY <2>4 DEF StopExec, Fault
  <2> QED BY <2>1, <2>2, <2>3, <2>4 DEF InnerAct
<1>9. daemon'.st = "down" => daemon'.cred = None
  BY <1>7, <1>8, OffDaemon
<1>10. CASE user # None
  <2>1. Foreign => Up /\ \E d \in Calls : Stopping(d)
    BY <1>6, <1>10 DEF DaemonCore, OwnDaemon
  <2>2. Foreign' => Up' /\ \E d \in Calls : Stopping(d)'
    BY <1>3, <1>8, <2>1, OffDaemon DEF Foreign, Up
  <2> QED BY <1>3, <1>6, <1>9, <1>10, <2>2, OwnStep DEF DaemonCore
<1>11. CASE user = None
  <2>1. call[c].todo \in OutTodos /\ daemon.st # "booting"
    BY <1>11 DEF FilesInv, LoggedOut, Leftovers
  <2>2. \/ call[c].todo = G1 /\ Head(call[c].todo) = "stopDaemon"
        \/ call[c].todo = G2 /\ Head(call[c].todo) = "stopExec"
    BY <1>1, <2>1, OutTell DEF Inner
  <2>3. StopDaemon(c) \/ StopExec(c)
    BY <2>2 DEF At, InnerAct, StartDaemon, StartExec, StartWait, AutoStart, CheckVersion
  <2>4. OutDaemon'
    <3>1. CASE StopDaemon(c)
      <4>1. ~StopExec(c) /\ ~StartExec(c)
        BY <3>1 DEF StopDaemon, StopExec, StartExec, At
      <4>2. Stopping(c)
        BY <3>1 DEF StopDaemon, Stopping
      <4> QED BY <1>8, <4>1, <4>2 DEF OutDaemon
    <3>2. CASE StopExec(c)
      <4>1. (Up /\ daemon' = Off) \/ (~Up /\ daemon' = daemon)
        BY <3>2 DEF StopExec, Fault
      <4>2. daemon'.st = "down"
        BY <2>1, <4>1, OffDaemon DEF Typed, Daemons, Up
      <4> QED BY <4>2 DEF OutDaemon
    <3> QED BY <2>3, <3>1, <3>2
  <2> QED BY <1>3, <1>9, <1>11, <2>4, GoneStep DEF DaemonCore
<1> QED BY <1>10, <1>11

LEMMA PollDaemon ==
  ASSUME Typed, FilesInv, DaemonCore, PollEnd
  PROVE  DaemonCore'
<1> USE DEF disk, status, bounds
<1>1. UNCHANGED <<user, disk, guard, daemon, cli>>
  BY DEF PollEnd
<1>2. CASE call' = call
  BY <1>1, <1>2, AsideDaemon DEF DaemonCore
<1>3. CASE pendingVersionRestart /\ Free # {} /\ call' = [call EXCEPT ![Slot] = Chain(<<"checkVersion">>, None)]
  <2>1. user # None /\ \A d \in Calls : ~Syncing(d)
    BY <1>3 DEF FilesInv, LoggedOut, SyncInv, SyncOK, Alone
  <2>2. Chain(<<"checkVersion">>, None).todo = <<"checkVersion">> /\ <<"checkVersion">> \in Seq(Inner)
    BY DEF Chain, Idle, Inner
  <2>3. Slot \in Calls /\ call[Slot].todo = <<>> /\ call \in [Calls -> Records]
    BY <1>3, SlotFree DEF Typed
  <2>4. \A d \in Calls : call'[d].todo \notin SyncTodos
    BY <1>3, <2>1, <2>2, <2>3, NotSyncing DEF Syncing, InTodos
  <2>5. \A d \in Calls : Stopping(d) => Stopping(d)'
    BY <1>3, <2>3 DEF Stopping, At
  <2>6. Foreign' => Up' /\ \E d \in Calls : Stopping(d)'
    BY <1>1, <2>1, <2>5 DEF DaemonCore, OwnDaemon, Foreign, Up
  <2> QED BY <1>1, <2>1, <2>4, <2>6, OwnStep DEF DaemonCore
<1> QED BY <1>2, <1>3 DEF PollEnd

\* A daemon that boots does so for the user, whose token it reads.
LEMMA BootDaemon ==
  ASSUME Typed, FilesInv, DaemonCore, BootReadsToken \/ BootEnds, "quit" \notin hit
  PROVE  DaemonCore'
<1> USE DEF disk, status, bounds
<1>1. daemon.st = "booting" /\ UNCHANGED <<user, disk, guard, call, cli>>
  BY DEF BootReadsToken, BootEnds
<1>2. user # None /\ \A d \in Calls : ~Syncing(d)
  BY <1>1 DEF FilesInv, LoggedOut, Leftovers, SyncInv, SyncOK, Alone
<1>3. token = user /\ ~Foreign
  BY <1>1, <1>2 DEF DaemonCore, OwnDaemon, Up
<1>4. daemon'.cred \in {None, user} /\ (daemon'.st = "down" => daemon'.cred = None)
  <2>1. CASE BootReadsToken
    <3>1. daemon' = Off \/ daemon' = [daemon EXCEPT !.cred = token]
      BY <2>1 DEF BootReadsToken
    <3> QED BY <1>1, <1>3, <3>1, OffDaemon DEF Typed, Daemons
  <2>2. CASE BootEnds
    <3>1. daemon' = Off \/ daemon' = [daemon EXCEPT !.st = "up"]
      BY <2>2 DEF BootEnds
    <3> QED BY <1>3, <3>1, OffDaemon DEF Foreign, Typed, Daemons
  <2> QED BY <2>1, <2>2
<1>5. ~Foreign'
  BY <1>1, <1>4 DEF Foreign
<1>6. \A d \in Calls : call'[d].todo \notin SyncTodos
  BY <1>1, <1>2 DEF Syncing
<1> QED BY <1>1, <1>2, <1>4, <1>5, <1>6, OwnStep DEF DaemonCore

\* Whenever the app is at rest, no daemon has another owner's credentials.
LEMMA QuietDaemon ==
  ASSUME Typed, FilesInv, DaemonCore, Quiet
  PROVE  /\ user # None => token = user /\ sidecar = user /\ ~Foreign
         /\ user = None => daemon.st = "down" /\ daemon.cred = None
<1>1. \A c \in Calls : call[c].todo = <<>> /\ ~Syncing(c) /\ ~Stopping(c)
  BY WhenQuiet DEF Stopping, At
<1>2. <<>> \notin {OnLogout, C1, C2, Stop}
  BY ClearLists
<1> QED BY <1>1, <1>2 DEF DaemonCore, OwnDaemon, OutDaemon

LEMMA UserDaemon ==
  ASSUME Patient, Typed, FilesInv, FilesInv', DaemonCore, User, "quit" \notin hit'
  PROVE  DaemonCore'
<1> USE DEF disk, status, bounds
<1>1. ASSUME NEW u \in Users, Login(u)
      PROVE  DaemonCore'
  <2>1. Quiet /\ Free # {} /\ user' = u /\ call' = [call EXCEPT ![Slot] = Chain(OnLogin, u)]
    BY <1>1 DEF Login, Acts
  <2>2. UNCHANGED <<disk, daemon, cli>>
    BY <1>1 DEF Login, Acts
  <2>3. PICK c \in Calls : c = Slot
    BY <2>1, SlotFree
  <2>4. call'[c].todo = OnLogin
    BY <2>1, <2>3 DEF Typed, Chain, Idle
  <2>5. Syncing(c)' /\ \A d \in Calls : d # c => ~Syncing(d)'
    BY <2>1, <2>3, <2>4, WhenQuiet, NotSyncing DEF Typed, Syncing, SyncTodos
  <2>6. user' # None
    BY <2>1, DesktopAssumption
  <2>7. Foreign' => daemon.cred = sidecar
    BY <2>1, <2>2, QuietDaemon DEF Foreign
  <2>8. Inherited'
    BY <2>2, <2>4, <2>5, <2>7 DEF Inherited
  <2>9. OwnDaemon' /\ OutDaemon'
    BY <2>5, <2>6 DEF OwnDaemon, OutDaemon
  <2> QED BY <2>2, <2>8, <2>9 DEF DaemonCore
<1>2. CASE Logout
  <2>1. Quiet /\ user' = None /\ UNCHANGED <<disk, daemon, guard, cli>>
    BY <1>2 DEF Logout
  <2>2. daemon.st = "down"
    \/ (daemon.st # "down" /\ guard' = FALSE /\ \E c \in Calls : call'[c].todo \in {OnLogout, C1, C2, Stop})
    <3> DEFINE other == CHOOSE c \in Free \ {Slot} : TRUE
               out == Chain(OnLogout, None)
    <3>1. Free # {}
      <4>1. Cardinality(Free) > 1
        BY <1>2 DEF Logout
      <4>2. Cardinality({}) = 0
        BY FS_EmptySet
      <4> QED BY <4>1, <4>2
    <3>2. call' = [call EXCEPT ![Slot] = out, ![other] = out] /\ out.todo = OnLogout
      BY <1>2 DEF Logout, Chain, Idle
    <3> HIDE DEF other, out
    <3>3. Slot \in Calls /\ call'[Slot].todo = OnLogout
      BY <3>1, <3>2, SlotFree DEF Typed
    <3> QED BY <2>1, <3>3, WhenQuiet
  <2>3. OutDaemon'
    BY <2>1, <2>2 DEF OutDaemon
  <2> QED BY <2>1, <2>3, GoneStep DEF DaemonCore
<1>3. ASSUME PressStart \/ PressStop \/ RestartForWorkspace
      PROVE  DaemonCore'
  <2>1. /\ Quiet /\ user # None /\ UNCHANGED <<user, disk, daemon, guard, cli>>
        /\ \E t \in {Start, Stop, Restart} : call' = [call EXCEPT ![Slot] = Chain(t, None)]
    BY <1>3 DEF PressStart, PressStop, RestartForWorkspace, Acts
  <2>2. PICK t \in {Start, Stop, Restart} : call' = [call EXCEPT ![Slot] = Chain(t, None)]
    BY <2>1
  <2>3. Chain(t, None).todo = t /\ t \notin SyncTodos
    BY NotSyncing DEF Chain, Idle, InTodos
  <2>4. \A d \in Calls : ~Syncing(d) /\ call'[d].todo \notin SyncTodos
    BY <2>1, <2>2, <2>3, WhenQuiet, NotSyncing DEF Typed
  <2>5. ~Foreign'
    BY <2>1, QuietDaemon DEF Foreign
  <2> QED BY <2>1, <2>4, <2>5, OwnStep DEF DaemonCore
<1>4. CASE RetryInstall
  BY <1>4 DEF RetryInstall, DaemonCore
<1>5. CASE AppRestart
  <2>1. Quiet /\ cli' = "resolving" /\ UNCHANGED <<user, disk, daemon>>
    BY <1>5 DEF AppRestart, Fault
  <2>2. /\ user # None => token = user /\ sidecar = user /\ ~Foreign
        /\ user = None => daemon.st = "down" /\ daemon.cred = None
    BY <2>1, QuietDaemon
  <2>3. ~Foreign'
    BY <2>1, <2>2 DEF Foreign
  <2>4. OwnDaemon' /\ Inherited' /\ OutDaemon'
    BY <2>1, <2>2, <2>3 DEF OwnDaemon, Inherited, OutDaemon
  <2> QED BY <2>1, <2>4 DEF DaemonCore
<1> QED BY <1>1, <1>2, <1>3, <1>4, <1>5 DEF User

LEMMA DaemonNext == Patient /\ Typed /\ FilesKept /\ DaemonInv /\ [Next]_vars => DaemonInv'
<1> SUFFICES ASSUME Patient, Typed, FilesKept, DaemonInv, [Next]_vars, Clean' PROVE DaemonCore'
  BY DEF DaemonInv
<1>1. DaemonCore /\ Typed' /\ FilesInv /\ FilesInv'
  BY HitsStay, TypedNext, FilesNext DEF DaemonInv, FilesKept
<1>2. /\ "mint" \notin hit' /\ "cli" \notin hit' /\ "quit" \notin hit' /\ "quit" \notin hit
      /\ hit \cup hit' \subseteq Faults \ {"kill", "quit"}
  BY <1>1, HitsStay DEF Clean, Typed
<1> USE DEF disk, status, bounds
<1>3. ASSUME NEW c \in Calls, Step(c)
      PROVE  DaemonCore'
  <2>1. SyncAct(c) \/ Switched(c) \/ ClearRead(c) \/ ClearWrite(c) \/ ClearUserId(c)
        \/ TakeGuard(c) \/ Release(c) \/ InnerAct(c)
    BY <1>3 DEF Step, SyncAct, InnerAct
  <2> QED BY <1>1, <1>2, <2>1, SyncDaemon, SwitchedDaemon, ClearDaemon, GuardDaemon, InnerDaemon
<1>4. CASE Bootstrap
  <2>1. UNCHANGED <<user, disk, guard, call, daemon>> /\ cli' # "missing"
    BY <1>2, <1>4 DEF Bootstrap, Fault
  <2> QED BY <1>1, <2>1, AsideDaemon
<1>5. CASE PollBegin
  BY <1>1, <1>5, AsideDaemon DEF PollBegin, DaemonCore
<1>6. CASE PollEnd
  BY <1>1, <1>6, PollDaemon
<1>7. CASE BootReadsToken \/ BootEnds
  BY <1>1, <1>2, <1>7, BootDaemon
<1>8. CASE TaskBegins \/ TaskEnds
  <2>1. /\ daemon'.st = daemon.st /\ daemon'.cred = daemon.cred
        /\ UNCHANGED <<user, disk, guard, call, cli>>
    BY <1>8 DEF TaskBegins, TaskEnds, Typed, Daemons
  <2> QED BY <1>1, <2>1, AsideDaemon DEF DaemonCore
<1>9. CASE User
  BY <1>1, <1>2, <1>9, UserDaemon
<1>10. CASE UNCHANGED vars
  BY <1>1, <1>10, AsideDaemon DEF vars, DaemonCore
<1> QED BY <1>3, <1>4, <1>5, <1>6, <1>7, <1>8, <1>9, <1>10 DEF Next, Polling, Booting

\* Whenever the app of a patient user is at rest, and no mint, stop or lookup of
\* the binary has failed nor a quit left something undone, a daemon that is up runs as the user who is logged in:
\* none is left by a logout and none is inherited by the next account.
THEOREM NoStrangersDaemon ==
  ASSUME Patient PROVE Spec => []DaemonIsUsers
<1>1. Typed /\ FilesKept /\ DaemonInv => DaemonIsUsers
  <2> SUFFICES ASSUME Typed, FilesInv, DaemonInv, Quiet, Clean, Up
               PROVE  daemon.cred = user
    BY DEF DaemonIsUsers, Clean, FilesKept, Broken
  <2>1. DaemonCore /\ daemon.cred # None /\ daemon.st # "down"
    BY DEF DaemonInv, Typed, Up
  <2> QED BY <2>1, QuietDaemon DEF Foreign
<1>2. FilesInv => FilesKept
  BY DEF FilesKept
<1> QED BY <1>1, <1>2, TypedNext, FilesInit, FilesNext, DaemonInit, DaemonNext, PTL DEF Spec
=============================================================================
