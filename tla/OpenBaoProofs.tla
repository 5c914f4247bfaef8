---------------------------- MODULE OpenBaoProofs ----------------------------
(***************************************************************************)
(* What the bootstrap of OpenBao guarantees for every list of secrets,     *)
(* every bound and any number of troubles.  HandOverInv ties the position  *)
(* of each Job to what is configured by then: the bootstrap role is only   *)
(* written after the shares and the policies, and whoever got past a login *)
(* did so because the role is there, which nothing but a re-init undoes.   *)
(***************************************************************************)
EXTENDS OpenBaoBootstrap, TLAPS

LoginReady == {"auth", "bootRole"} \subseteq config
InWindow == {"label", "active", "window", "prove"}
LoggedIn == {"mounts", "ca", "keys", "generate", "storeCsr", "roles", "secrets"}

\* What the configuration itself says.
ConfigInv ==
  /\ config # {} => Initialised
  /\ "bootRole" \in config => shares = "ours" /\ {"bootPolicy", "bgPolicy"} \subseteq config
  /\ marker => LoginReady
  /\ secrets # Empty \/ csrs # 0 => LoginReady
  /\ (\E s \in Paths : secrets[s] # 0) => {"bgPolicy", "bgRole"} \subseteq config

\* Where init.sh stands.
InitJobInv ==
  /\ ipc \in {"parse", "shares"} => Initialised
  /\ ipc \in InWindow => Initialised /\ shares = "ours"
  /\ ipc = "window" => item \in 1..5 /\ \A i \in 1..(item - 1) : WindowItems[i] \in config
  /\ ipc \in {"revoke", "mark"} => LoginReady

\* Where configure.sh stands.
ConfigureJobInv ==
  /\ cpc \in LoggedIn => LoginReady
  /\ cpc \in {"ca", "keys", "generate", "storeCsr"} => write = 1
  /\ cpc = "roles" => write \in 1..8 /\ \A i \in 1..(write - 1) : Roles[i] \in config
  /\ cpc = "secrets" => {"bgPolicy", "bgRole"} \subseteq config

HandOverInv == ConfigInv /\ InitJobInv /\ ConfigureJobInv

LEMMA HandOverInit == Init => HandOverInv
BY DEF Init, ServerInit, InitJobInit, ConfigureInit, HandOverInv, ConfigInv, InitJobInv,
       ConfigureJobInv, InWindow, LoggedIn, Empty

\* Steps of a Job that neither write to OpenBao nor to the Secrets.
LEMMA Quiet ==
  ASSUME HandOverInv, UNCHANGED <<dataVars, shares, marker>>,
         InitJobInv', ConfigureJobInv'
  PROVE  HandOverInv'
BY DEF HandOverInv, ConfigInv, dataVars, pkiVars, Initialised, LoginReady

LEMMA RevokeRootKeeps ==
  ASSUME HandOverInv, RevokeRoot \/ NoRoot, UNCHANGED configureVars,
         \/ ipc = "stale" /\ ipc' = "seal"
         \/ ipc = "revoke" /\ ipc' = "mark"
         \/ ipc = "exit" /\ ipc' = "down"
  PROVE  HandOverInv'
<1>1. UNCHANGED <<dataKey, config, pkiVars, secrets, shares, marker>>
  BY DEF RevokeRoot, NoRoot, WriteOk, WriteLost, WriteFails, kubeVars, dataVars, serverVars
<1>2. QED
  BY <1>1 DEF HandOverInv, ConfigInv, InitJobInv, ConfigureJobInv, configureVars, pkiVars,
     Initialised, LoginReady, InWindow

\* init.sh, up to sys/init.
LEMMA BeforeSysInit ==
  ASSUME HandOverInv, UNCHANGED configureVars,
         \/ ReadSealKey \/ ReadMarker \/ ReadState \/ CreateSealKey \/ WaitApi
         \/ AskState \/ Check \/ Preflight
  PROVE  HandOverInv'
<1>1. UNCHANGED <<dataVars, shares, marker>>
  BY DEF ReadSealKey, ReadMarker, ReadState, CreateSealKey, NewSealKey, WaitApi, AskState,
     Check, Preflight, kubeVars, kubeOnly, serverVars
<1>2. ConfigureJobInv'
  BY <1>1 DEF HandOverInv, ConfigureJobInv, configureVars, dataVars, LoginReady
<1>3. \/ ipc' \in {"sealMarker", "sealState", "sealCreate", "wait", "exit", "ask", "check",
                   "preflight", "init"}
      \/ ipc' = "mark" /\ LoginReady
  BY DEF ReadSealKey, ReadMarker, ReadState, CreateSealKey, WaitApi, AskState, Check,
     Preflight, Goto, Die, CanLogin, LoginReady
<1>4. InitJobInv'
  BY <1>1, <1>3 DEF InitJobInv, InWindow, dataVars, LoginReady
<1>5. QED
  BY <1>1, <1>2, <1>4, Quiet

LEMMA SysInitKeeps ==
  ASSUME HandOverInv, SysInit, UNCHANGED configureVars
  PROVE  HandOverInv'
<1>1. UNCHANGED <<config, pkiVars, secrets, shares, marker, write, cpc>>
  BY DEF SysInit, kubeVars, configureVars
<1>2. dataKey' = dataKey \/ (dataKey = 0 /\ dataKey' # 0)
  BY DEF SysInit, Initialised
<1>3. ipc' = "exit" \/ (ipc' = "parse" /\ dataKey' # 0)
  BY DEF SysInit, Goto, Die
<1>4. QED
  BY <1>1, <1>2, <1>3 DEF HandOverInv, ConfigInv, InitJobInv, ConfigureJobInv, pkiVars,
     Initialised, LoginReady, InWindow

\* The shares, kept once for this initialisation.
LEMMA SharesKeeps ==
  ASSUME HandOverInv, UNCHANGED configureVars, Parse \/ StoreShares \/ Label \/ WaitActive
  PROVE  HandOverInv'
<1>1. UNCHANGED <<dataVars, marker>>
  BY DEF Parse, StoreShares, Label, WaitActive, serverVars, kubeVars, kubeOnly
<1>2. shares' = shares \/ (shares = "none" /\ shares' = "ours")
  BY DEF Parse, StoreShares, Label, WaitActive, serverVars, kubeVars
<1>3. ConfigureJobInv'
  BY <1>1 DEF HandOverInv, ConfigureJobInv, configureVars, dataVars, LoginReady
<1>4. ConfigInv'
  BY <1>1, <1>2 DEF HandOverInv, ConfigInv, dataVars, pkiVars, Initialised, LoginReady
<1>5. InitJobInv'
  <2>1. CASE Parse
    BY <1>1, <2>1 DEF Parse, Goto, HandOverInv, InitJobInv, InWindow, dataVars, Initialised
  <2>2. CASE StoreShares
    <3>1. ipc' \in {"shares", "exit"} \/ (ipc' \in {"label", "active"} /\ shares' = "ours")
      BY <2>2 DEF StoreShares, Retry, Goto, Die, AfterShares
    <3>2. Initialised'
      BY <1>1, <2>2 DEF StoreShares, HandOverInv, InitJobInv, dataVars, Initialised
    <3>3. QED
      BY <3>1, <3>2 DEF InitJobInv, InWindow
  <2>3. CASE Label
    BY <1>1, <2>3 DEF Label, Goto, Die, HandOverInv, InitJobInv, InWindow, dataVars,
       kubeVars, Initialised
  <2>4. CASE WaitActive
    BY <1>1, <2>4 DEF WaitActive, Goto, Die, HandOverInv, InitJobInv, InWindow, dataVars,
       kubeVars, serverVars, Initialised
  <2>5. QED
    BY <2>1, <2>2, <2>3, <2>4
<1>6. QED
  BY <1>3, <1>4, <1>5 DEF HandOverInv

LEMMA WindowKeeps ==
  ASSUME HandOverInv, Window, UNCHANGED configureVars
  PROVE  HandOverInv'
<1>1. /\ UNCHANGED <<dataKey, csrs, secrets, shares, marker, cpc, write>>
      /\ ipc = "window" /\ dataKey # 0 /\ shares = "ours" /\ item \in 1..5
      /\ \A i \in 1..(item - 1) : WindowItems[i] \in config
  BY DEF Window, HandOverInv, InitJobInv, InWindow, kubeVars, pkiVars, configureVars, Initialised
<1>2. Len(WindowItems) = 5
  BY DEF WindowItems
<1>3. Put(WindowItems[item]) \/ UNCHANGED config
  BY DEF Window, WriteOk, WriteLost, WriteFails
<1>4. /\ config \subseteq config'
      /\ "bootRole" \in config' => "bootRole" \in config \/ item = 4
  BY <1>1, <1>3 DEF Put, WindowItems
<1>5. ConfigInv'
  <2>1. item = 4 => {"bootPolicy", "bgPolicy"} \subseteq config
    <3>1. item = 4 => WindowItems[1] \in config /\ WindowItems[2] \in config
      BY <1>1
    <3>2. QED
      BY <3>1 DEF WindowItems
  <2>2. QED
    BY <1>1, <1>4, <2>1 DEF HandOverInv, ConfigInv, Initialised, LoginReady
<1>6. InitJobInv'
  <2>1. \/ ipc' \in {"exit", "prove"}
        \/ ipc' = "window" /\ item' = item
        \/ ipc' = "window" /\ item' = item + 1 /\ item # 5 /\ WindowItems[item] \in config'
    BY <1>2 DEF Window, WriteOk, Put, Retry, Goto, Die
  <2>2. QED
    BY <1>1, <1>4, <2>1 DEF InitJobInv, InWindow, Initialised
<1>7. ConfigureJobInv'
  BY <1>1, <1>4 DEF HandOverInv, ConfigureJobInv, LoginReady
<1>8. QED
  BY <1>5, <1>6, <1>7 DEF HandOverInv

LEMMA ProveMarkKeeps ==
  ASSUME HandOverInv, UNCHANGED configureVars, Prove \/ Mark \/ StartInit
  PROVE  HandOverInv'
<1>1. UNCHANGED <<dataVars, shares>>
  BY DEF Prove, Mark, StartInit, serverVars, kubeVars, kubeOnly
<1>2. marker' = marker \/ LoginReady
  BY DEF Prove, Mark, StartInit, serverVars, kubeVars, HandOverInv, InitJobInv
<1>3. ipc' \in {"exit", "done", "stale"} \/ (ipc' = "revoke" /\ LoginReady)
  BY DEF Prove, Mark, StartInit, Goto, Die, CanLogin, LoginReady
<1>4. ConfigInv' /\ ConfigureJobInv'
  BY <1>1, <1>2 DEF HandOverInv, ConfigInv, ConfigureJobInv, dataVars, pkiVars, configureVars,
     Initialised, LoginReady
<1>5. InitJobInv'
  BY <1>1, <1>3 DEF InitJobInv, InWindow, dataVars, LoginReady
<1>6. QED
  BY <1>4, <1>5 DEF HandOverInv

LEMMA InitJobKeeps ==
  ASSUME HandOverInv, InitJob
  PROVE  HandOverInv'
<1>1. CASE RevokeStale \/ Revoke \/ OnExit
  BY <1>1, RevokeRootKeeps DEF InitJob, RevokeStale, Revoke, OnExit, Goto
<1>2. CASE \/ ReadSealKey \/ ReadMarker \/ ReadState \/ CreateSealKey \/ WaitApi
           \/ AskState \/ Check \/ Preflight
  BY <1>2, BeforeSysInit DEF InitJob
<1>3. CASE SysInit
  BY <1>3, SysInitKeeps DEF InitJob
<1>4. CASE Parse \/ StoreShares \/ Label \/ WaitActive
  BY <1>4, SharesKeeps DEF InitJob
<1>5. CASE Window
  BY <1>5, WindowKeeps DEF InitJob
<1>6. CASE Prove \/ Mark \/ StartInit
  BY <1>6, ProveMarkKeeps DEF InitJob
<1>7. QED
  BY <1>1, <1>2, <1>3, <1>4, <1>5, <1>6 DEF InitJob, InitStep

-----------------------------------------------------------------------------
\* configure.sh writes what it finds in a list, one item after the other.
LEMMA PutEachKeeps ==
  ASSUME HandOverInv, MountEngines \/ PutRoles, UNCHANGED initVars
  PROVE  HandOverInv'
<1> DEFINE list == IF cpc = "mounts" THEN Mounts ELSE Roles
<1>1. /\ UNCHANGED <<dataKey, csrs, secrets, shares, marker, ipc, item>>
      /\ cpc \in {"mounts", "roles"} /\ LoginReady
  BY DEF MountEngines, PutRoles, PutEach, cServer, kubeVars, pkiVars, initVars, HandOverInv,
     ConfigureJobInv, LoggedIn
<1>2. Len(Mounts) = 2 /\ Len(Roles) = 8
  BY DEF Mounts, Roles
<1>3. config \subseteq config'
  BY DEF MountEngines, PutRoles, PutEach, WriteOk, WriteLost, WriteFails, Put
<1>4. config' # {} => Initialised
  BY <1>1 DEF HandOverInv, ConfigInv, LoginReady
<1>5. ConfigInv'
  BY <1>1, <1>3, <1>4 DEF HandOverInv, ConfigInv, LoginReady, Initialised
<1>6. InitJobInv'
  BY <1>1, <1>3 DEF HandOverInv, InitJobInv, LoginReady, Initialised
<1>7. CASE MountEngines
  <2>1. \/ cpc' = "mounts" \/ cpc' = "down"
        \/ cpc' = "ca" /\ write' = 1
    BY <1>7 DEF MountEngines, PutEach
  <2>2. QED
    BY <1>1, <1>3, <1>5, <1>6, <2>1 DEF HandOverInv, ConfigureJobInv, LoginReady, LoggedIn
<1>8. CASE PutRoles
  <2>1. cpc = "roles" /\ write \in 1..8 /\ \A i \in 1..(write - 1) : Roles[i] \in config
    BY <1>8 DEF PutRoles, PutEach, HandOverInv, ConfigureJobInv
  <2>2. \/ cpc' = "down"
        \/ cpc' = "roles" /\ write' = write + 1 /\ write < 8 /\ Roles[write] \in config'
        \/ cpc' = "secrets" /\ write = 8 /\ Roles[write] \in config'
    BY <1>2, <1>8, <2>1 DEF PutRoles, PutEach, WriteOk, Put
  <2>3. cpc' = "secrets" => {"bgPolicy", "bgRole"} \subseteq config'
    <3>1. cpc' = "secrets" => Roles[3] \in config' /\ Roles[8] \in config'
      BY <1>3, <2>1, <2>2
    <3>2. QED
      BY <3>1 DEF Roles
  <2>4. ConfigureJobInv'
    BY <1>1, <1>3, <2>1, <2>2, <2>3 DEF ConfigureJobInv, LoginReady
  <2>5. QED
    BY <1>5, <1>6, <2>4 DEF HandOverInv
<1>9. QED
  BY <1>7, <1>8

\* The PKI and the secrets are only written by who logged in.
LEMMA ConfigureKeeps ==
  ASSUME HandOverInv, UNCHANGED initVars,
         \/ Login \/ ReadCa \/ ListKeys \/ Generate \/ StoreCsr \/ CreateSecret
         \/ StartConfigure
  PROVE  HandOverInv'
<1>1. UNCHANGED <<dataKey, config, shares, marker, ipc, item>>
  BY DEF Login, ReadCa, ListKeys, Generate, StoreCsr, CreateSecret, StartConfigure,
     cServer, kubeVars, dataVars, serverVars, initVars
<1>2. csrs' = csrs \/ cpc = "generate"
  BY DEF Login, ReadCa, ListKeys, Generate, StoreCsr, CreateSecret, StartConfigure,
     pkiVars, dataVars, serverVars
<1>3. secrets' = secrets \/ cpc = "secrets"
  BY DEF Login, ReadCa, ListKeys, Generate, StoreCsr, CreateSecret, StartConfigure,
     dataVars, serverVars
<1>4. ConfigInv'
  BY <1>1, <1>2, <1>3 DEF HandOverInv, ConfigInv, ConfigureJobInv, LoggedIn, LoginReady,
     Initialised
<1>5. InitJobInv'
  BY <1>1 DEF HandOverInv, InitJobInv, LoginReady, Initialised
<1>6. ConfigureJobInv'
  <2>1. CASE Login
    BY <1>1, <2>1 DEF Login, CanLogin, ConfigureJobInv, LoginReady, LoggedIn
  <2>2. CASE ReadCa \/ ListKeys \/ Generate \/ StoreCsr
    <3>1. /\ cpc' \in {"keys", "generate", "storeCsr", "roles", "down"}
          /\ write' = write /\ write = 1 /\ LoginReady
      BY <2>2 DEF ReadCa, ListKeys, Generate, StoreCsr, HandOverInv, ConfigureJobInv, LoggedIn
    <3>2. QED
      BY <1>1, <3>1 DEF ConfigureJobInv, LoginReady
  <2>3. CASE CreateSecret
    BY <1>1, <2>3 DEF CreateSecret, HandOverInv, ConfigureJobInv, LoginReady, LoggedIn
  <2>4. CASE StartConfigure
    BY <2>4 DEF StartConfigure, ConfigureJobInv, LoggedIn
  <2>5. QED
    BY <2>1, <2>2, <2>3, <2>4
<1>7. QED
  BY <1>4, <1>5, <1>6 DEF HandOverInv

\* Kills, the pods, the seal key and the certificate change none of it.
LEMMA OutsideKeeps ==
  ASSUME HandOverInv, Outside \/ KillConfigure
  PROVE  HandOverInv'
<1>1. UNCHANGED <<dataKey, config, csrs, secrets, shares, marker, item>>
  BY DEF Outside, KillConfigure, Kill, PodsStart, PodsStop, DeleteSealKey, PutKeyBack,
     Import, kubeVars, kubeOnly, dataVars, pkiVars, serverVars, initVars
<1>2. ipc' = ipc \/ ipc' = "down"
  BY DEF Outside, KillConfigure, Kill, Goto, initVars
<1>3. (cpc' = cpc /\ write' = write) \/ cpc' = "down"
  BY DEF Outside, KillConfigure, configureVars
<1>4. QED
  BY <1>1, <1>2, <1>3 DEF HandOverInv, ConfigInv, InitJobInv, ConfigureJobInv, InWindow,
     LoggedIn, LoginReady, Initialised

\* An operator starts over where nobody can log in, so nothing was marked.
LEMMA StartOverKeeps ==
  ASSUME HandOverInv, StartOver
  PROVE  HandOverInv'
<1>1. ~marker'
  BY DEF StartOver, DeadEnd, CanLogin, HandOverInv, ConfigInv, LoginReady
<1>2. QED
  BY <1>1 DEF StartOver, HandOverInv, ConfigInv, InitJobInv, ConfigureJobInv, InWindow,
     LoggedIn, Empty

\* What holds of the configuration, the marker and the position of both Jobs.
THEOREM HandOverHolds == Spec => []HandOverInv
<1>1. HandOverInv /\ [Next]_vars => HandOverInv'
  <2> SUFFICES ASSUME HandOverInv, [Next]_vars PROVE HandOverInv'
    OBVIOUS
  <2>1. CASE InitJob
    BY <2>1, InitJobKeeps
  <2>2. CASE ConfigureJob
    BY <2>2, PutEachKeeps, ConfigureKeeps DEF ConfigureJob, ConfigureStep
  <2>3. CASE Outside \/ KillConfigure
    BY <2>3, OutsideKeeps
  <2>4. CASE StartOver
    BY <2>4, StartOverKeeps
  <2>5. CASE UNCHANGED vars
    BY <2>5 DEF vars, serverVars, kubeVars, dataVars, pkiVars, initVars, configureVars,
       HandOverInv, ConfigInv, InitJobInv, ConfigureJobInv, LoginReady, Initialised
  <2>6. QED
    BY <2>1, <2>2, <2>3, <2>4, <2>5 DEF Next
<1>2. QED
  BY HandOverInit, <1>1, PTL DEF Spec

\* The marker of init.sh means handed over, whatever was lost or killed.
THEOREM MarkedIsHandedOver == Spec => []HandedOver
<1>1. HandOverInv => HandedOver
  BY DEF HandOverInv, ConfigInv, HandedOver, LoginReady
<1>2. QED
  BY HandOverHolds, <1>1, PTL

\* No application secret exists before the break-glass policy and role.
THEOREM BreakGlassFirst == Spec => []BreakGlassBeforeSecrets
<1>1. HandOverInv => BreakGlassBeforeSecrets
  BY DEF HandOverInv, ConfigInv, BreakGlassBeforeSecrets
<1>2. QED
  BY HandOverHolds, <1>1, PTL

\* A cluster nobody can log in to is empty: starting over loses nothing.
THEOREM DeadEndIsEmpty == Spec => []DeadEndHoldsNothing
<1>1. HandOverInv => DeadEndHoldsNothing
  BY DEF HandOverInv, ConfigInv, DeadEndHoldsNothing, DeadEnd, CanLogin, LoginReady
<1>2. QED
  BY HandOverHolds, <1>1, PTL

-----------------------------------------------------------------------------
\* A run that is about to make a seal key has seen no marker, or a read failed.
SealInv == ipc \in {"sealState", "sealCreate"} => ~marker \/ blind

LEMMA SealStep ==
  ASSUME SealInv, [Next]_vars
  PROVE  SealInv' /\ (marker /\ sealKey = 0 => sealKey' \in {0, dataKey} \/ blind)
<1>1. CASE InitJob
  <2>1. CASE RevokeStale \/ Revoke \/ OnExit
    BY <2>1 DEF RevokeStale, Revoke, OnExit, RevokeRoot, NoRoot, Goto, SealInv, serverVars, kubeVars
  <2>2. CASE ReadSealKey \/ ReadMarker \/ ReadState \/ CreateSealKey
    BY <2>2 DEF ReadSealKey, ReadMarker, ReadState, CreateSealKey, NewSealKey, Goto, Die,
       SealInv, kubeVars, stay
  <2>3. CASE WaitApi \/ AskState \/ Check \/ Preflight \/ SysInit \/ Parse
    BY <2>3 DEF WaitApi, AskState, Check, Preflight, SysInit, Parse, Goto, Die, SealInv,
       kubeVars, serverVars
  <2>4. CASE StoreShares \/ Label \/ WaitActive \/ Window \/ Prove \/ Mark \/ StartInit
    BY <2>4 DEF StoreShares, Label, WaitActive, Window, Prove, Mark, StartInit, AfterShares,
       Retry, Goto, Die, SealInv, kubeVars, serverVars
  <2>5. QED
    BY <1>1, <2>1, <2>2, <2>3, <2>4 DEF InitJob, InitStep
<1>2. CASE ConfigureJob
  <2>1. UNCHANGED <<kubeVars, initVars>>
    BY <1>2 DEF ConfigureJob, ConfigureStep, Login, MountEngines, PutRoles, PutEach, ReadCa,
       ListKeys, Generate, StoreCsr, CreateSecret, StartConfigure, cServer, serverVars
  <2>2. QED
    BY <2>1 DEF SealInv, kubeVars, initVars
<1>3. CASE Outside \/ KillConfigure
  <2>1. marker' = marker /\ (sealKey' = sealKey \/ sealKey # 0 \/ sealKey' = dataKey)
    BY <1>3 DEF Outside, KillConfigure, Kill, PodsStart, PodsStop, DeleteSealKey, PutKeyBack,
       Import, kubeVars
  <2>2. ipc' = "down" \/ UNCHANGED <<ipc, blind>>
    BY <1>3 DEF Outside, KillConfigure, Kill, Goto, initVars
  <2>3. QED
    BY <2>1, <2>2 DEF SealInv
<1>4. CASE StartOver
  BY <1>4 DEF StartOver, SealInv
<1>5. CASE UNCHANGED vars
  BY <1>5 DEF vars, SealInv, serverVars, kubeVars, initVars
<1>6. QED
  BY <1>1, <1>2, <1>3, <1>4, <1>5 DEF Next

\* Once handed over, no run makes a seal key unless a read got no answer.
THEOREM SealKeySafe == Spec => NewKeyNeedsABlindRead
<1>1. Init => SealInv
  BY DEF Init, InitJobInit, SealInv
<1>2. SealInv /\ [Next]_vars
      => SealInv' /\ [marker /\ sealKey = 0 => sealKey' \in {0, dataKey} \/ blind]_vars
  BY SealStep
<1>3. QED
  BY <1>1, <1>2, PTL DEF Spec, NewKeyNeedsABlindRead

-----------------------------------------------------------------------------
SecretInv == secrets \in [Paths -> Values \cup {0}] /\ reinits \in Nat

LEMMA SecretStep ==
  ASSUME SecretInv, [Next]_vars
  PROVE  /\ SecretInv'
         /\ \A s \in Paths : secrets[s] # 0 => secrets'[s] = secrets[s] \/ reinits' # reinits
<1>1. CASE InitJob
  <2>1. UNCHANGED <<secrets, reinits>>
    BY <1>1 DEF InitJob, InitStep, RevokeStale, Revoke, OnExit, RevokeRoot, NoRoot, ReadSealKey,
       ReadMarker, ReadState, CreateSealKey, WaitApi, AskState, Check, Preflight, SysInit, Parse,
       StoreShares, Label, WaitActive, Window, Prove, Mark, StartInit, serverVars, dataVars,
       kubeOnly, stay
  <2>2. QED
    BY <2>1 DEF SecretInv
<1>2. CASE ConfigureJob
  <2>1. CASE CreateSecret
    <3>1. PICK v \in Values : Create(AppSecrets[write], v) \/ UNCHANGED secrets
      BY <2>1 DEF CreateSecret, WriteOk, WriteLost, WriteFails
    <3>2. reinits' = reinits
      BY <1>2 DEF ConfigureJob, initVars
    <3>3. QED
      BY <3>1, <3>2 DEF Create, SecretInv
  <2>2. CASE ~CreateSecret
    <3>1. UNCHANGED <<secrets, reinits>>
      BY <1>2, <2>2 DEF ConfigureJob, ConfigureStep, Login, MountEngines, PutRoles, PutEach,
         ReadCa, ListKeys, Generate, StoreCsr, StartConfigure, serverVars, dataVars, initVars
    <3>2. QED
      BY <3>1 DEF SecretInv
  <2>3. QED
    BY <2>1, <2>2
<1>3. CASE Outside \/ KillConfigure
  <2>1. UNCHANGED <<secrets, reinits>>
    BY <1>3 DEF Outside, KillConfigure, Kill, PodsStart, PodsStop, DeleteSealKey, PutKeyBack,
       Import, kubeOnly, dataVars, initVars
  <2>2. QED
    BY <2>1 DEF SecretInv
<1>4. CASE StartOver
  BY <1>4 DEF StartOver, Empty, SecretInv
<1>5. CASE UNCHANGED vars
  BY <1>5 DEF vars, serverVars, dataVars, initVars, SecretInv
<1>6. QED
  BY <1>1, <1>2, <1>3, <1>4, <1>5 DEF Next

\* An application secret keeps its value until an operator starts over.
THEOREM SecretsKept == Spec => SecretsNeverRotate
<1>1. Init => SecretInv
  BY DEF Init, ServerInit, InitJobInit, Empty, SecretInv
<1>2. SecretInv /\ [Next]_vars
      => /\ SecretInv'
         /\ [\A s \in Paths : secrets[s] # 0
               => secrets'[s] = secrets[s] \/ reinits' # reinits]_vars
  BY SecretStep
<1>3. QED
  BY <1>1, <1>2, PTL DEF Spec, SecretsNeverRotate

-----------------------------------------------------------------------------
\* As long as no call is lost, no pod stops and no container is killed, a run that logged in
\* finds OpenBao there, and a CSR that was generated is kept or about to be.
Undisturbed == troubles \subseteq {"deletion"}
CsrInv ==
  /\ csrs \in Nat
  /\ Undisturbed =>
       /\ cpc \notin {"login", "down", "done"} => Active
       /\ cpc = "storeCsr" => csr # 0
       /\ csrs # 0 /\ ~imported => csrStored # 0 \/ cpc = "storeCsr"

\* What disturbs a run is not forgotten.
LEMMA TroublesStay ==
  ASSUME [Next]_vars PROVE troubles \subseteq troubles'
BY DEF Next, InitJob, InitStep, RevokeStale, Revoke, OnExit, RevokeRoot, NoRoot, ReadSealKey,
   ReadMarker, ReadState, CreateSealKey, WaitApi, AskState, Check, Preflight, SysInit, Parse,
   StoreShares, Label, WaitActive, Window, Prove, Mark, StartInit, StateTrue, StateFalse, StateUnknown,
   ConfigureJob, ConfigureStep, Login, MountEngines, PutRoles, PutEach, ReadCa, ListKeys, Generate,
   StoreCsr, CreateSecret, StartConfigure, Outside, KillConfigure, Kill, PodsStart, PodsStop, DeleteSealKey,
   PutKeyBack, Import, StartOver, WriteOk, WriteLost, WriteFails, Answered, Slips, Happens, serverVars, vars

LEMMA CsrStep ==
  ASSUME CsrInv, [Next]_vars
  PROVE  CsrInv'
<1>1. Undisturbed' => Undisturbed
  BY TroublesStay DEF Undisturbed
<1>2. ~(Undisturbed' /\ Slips) /\ ~(Undisturbed' /\ Happens("stop")) /\ ~(Undisturbed' /\ Happens("kill"))
  BY DEF Undisturbed, Slips, Happens
<1>4. CASE InitJob
  <2>1. UNCHANGED <<cpc, csr, csrs, csrStored, imported, running>>
    BY <1>4 DEF InitJob, InitStep, RevokeStale, Revoke, OnExit, RevokeRoot, NoRoot, ReadSealKey,
       ReadMarker, ReadState, CreateSealKey, WaitApi, AskState, Check, Preflight, SysInit, Parse,
       StoreShares, Label, WaitActive, Window, Prove, Mark, StartInit, serverVars, dataVars, pkiVars,
       kubeOnly, stay, configureVars
  <2>2. dataKey' = dataKey \/ ~Initialised
    BY <1>4 DEF InitJob, InitStep, RevokeStale, Revoke, OnExit, RevokeRoot, NoRoot, ReadSealKey,
       ReadMarker, ReadState, CreateSealKey, WaitApi, AskState, Check, Preflight, SysInit, Parse,
       StoreShares, Label, WaitActive, Window, Prove, Mark, StartInit, serverVars, dataVars,
       kubeOnly, stay
  <2>3. QED
    BY <1>1, <2>1, <2>2 DEF CsrInv, Active, Initialised
<1>5. CASE ConfigureJob
  <2>1. Active' = Active
    BY <1>5 DEF ConfigureJob, ConfigureStep, Login, MountEngines, PutRoles, PutEach, ReadCa, ListKeys,
       Generate, StoreCsr, CreateSecret, StartConfigure, cServer, serverVars, dataVars, Active, Initialised
  <2>2. CASE Login \/ MountEngines \/ ReadCa \/ ListKeys \/ PutRoles \/ CreateSecret
    <3>1. UNCHANGED <<csrs, csr, csrStored, imported>>
      BY <2>2 DEF Login, MountEngines, PutRoles, PutEach, ReadCa, ListKeys, CreateSecret, serverVars, dataVars, pkiVars
    <3>2. cpc' \in {"login", "down", "done"} \/ Active \/ (Undisturbed => Active)
      BY <2>2 DEF Login, CanLogin, MountEngines, PutRoles, PutEach, ReadCa, ListKeys, CreateSecret, CsrInv
    <3>3. cpc # "storeCsr" /\ cpc' # "storeCsr"
      BY <2>2 DEF Login, MountEngines, PutRoles, PutEach, ReadCa, ListKeys, CreateSecret
    <3>4. QED
      BY <1>1, <2>1, <3>1, <3>2, <3>3 DEF CsrInv
  <2>3. CASE Generate
    <3>1. Undisturbed' =>
            /\ csrs' = csrs + 1 /\ csr' = csrs + 1 /\ cpc' = "storeCsr" /\ csrs \in Nat /\ Active
      BY <1>1, <1>2, <2>3 DEF Generate, WriteOk, WriteLost, WriteFails, CsrInv
    <3>2. csrs' \in Nat
      BY <2>3 DEF Generate, WriteOk, WriteLost, WriteFails, CsrInv
    <3>3. QED
      BY <2>1, <3>1, <3>2 DEF CsrInv
  <2>4. CASE StoreCsr
    <3>1. UNCHANGED <<csrs, imported>>
      BY <2>4 DEF StoreCsr
    <3>2. Undisturbed' => Active /\ csr # 0 /\ cpc' = "roles" /\ csrStored' = (IF csrStored = 0 THEN csr ELSE csrStored)
      BY <1>1, <1>2, <2>4 DEF StoreCsr, WriteOk, WriteLost, WriteFails, CsrInv
    <3>3. QED
      BY <2>1, <3>1, <3>2 DEF CsrInv
  <2>5. CASE StartConfigure
    BY <1>1, <2>1, <2>5 DEF StartConfigure, CsrInv
  <2>6. QED
    BY <1>5, <2>2, <2>3, <2>4, <2>5 DEF ConfigureJob, ConfigureStep
<1>6. CASE Outside
  <2>1. UNCHANGED <<cpc, csr, csrs, csrStored>> /\ (imported' = imported \/ imported')
    BY <1>6 DEF Outside, Kill, PodsStart, PodsStop, DeleteSealKey, PutKeyBack, Import, kubeOnly, dataVars, pkiVars,
       configureVars
  <2>2. Undisturbed' /\ Active => Active'
    BY <1>2, <1>6 DEF Outside, Kill, PodsStart, PodsStop, DeleteSealKey, PutKeyBack, Import, kubeOnly, dataVars,
       Active, Initialised
  <2>3. QED
    BY <1>1, <2>1, <2>2 DEF CsrInv
<1>7. CASE KillConfigure
  BY <1>2, <1>7 DEF KillConfigure, CsrInv, dataVars, pkiVars
<1>8. CASE StartOver
  BY <1>8 DEF StartOver, CsrInv
<1>9. CASE UNCHANGED vars
  BY <1>1, <1>9 DEF vars, serverVars, dataVars, pkiVars, configureVars, CsrInv, Active, Initialised, Undisturbed
<1>10. QED
  BY <1>4, <1>5, <1>6, <1>7, <1>8, <1>9 DEF Next

\* A run that ended well leaves no key without its CSR, unless a call got no answer, the
\* pods stopped or a container was killed on the way.
THEOREM CsrsAreKept == Spec => []CsrOutlivesItsLog
<1>1. Init => CsrInv
  BY DEF Init, ServerInit, ConfigureInit, CsrInv
<1>2. CsrInv /\ [Next]_vars => CsrInv'
  BY CsrStep
<1>3. CsrInv => CsrOutlivesItsLog
  BY DEF CsrInv, CsrOutlivesItsLog, Undisturbed
<1>4. QED
  BY <1>1, <1>2, <1>3, PTL DEF Spec
=============================================================================
