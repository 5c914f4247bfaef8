------------------------------- MODULE OpenBao -------------------------------
(***************************************************************************)
(* What the two bootstrap Jobs of src/apps/base/foundation/vault/scripts   *)
(* talk to: the OpenBao cluster, and the Secrets and the ConfigMap beside  *)
(* it.  OpenBaoInit and OpenBaoConfigure are the Jobs, OpenBaoBootstrap    *)
(* runs them together.                                                     *)
(*                                                                         *)
(* The three pods are one server: the scripts write through one node and   *)
(* raft keeps the others in step.  A key, a certificate request and a      *)
(* generated password are numbers.  A call is answered, done but not       *)
(* answered, or not done; a call to a server that is down or sealed is     *)
(* not done.                                                               *)
(***************************************************************************)
EXTENDS Integers, Sequences, FiniteSets

CONSTANTS
  AppSecrets,   \* the paths application_secrets creates, in order
  Values,       \* what rand may return
  MaxKeys,      \* bound: seal keys ever made
  MaxCsrs,      \* bound: intermediate keys ever generated
  Kinds,        \* the troubles that may happen, each at most once:
                \*   "fault"    a call gets no answer
                \*   "stop"     all pods stop
                \*   "deletion" the seal key Secret is deleted
                \*   "kill"     a container is killed or its pod is lost
  MaxTroubles   \* bound: how many of them happen in one behaviour

ASSUME ServerAssumption ==
  /\ AppSecrets \in Seq(STRING) /\ 0 \notin Values
  /\ MaxKeys \in Nat /\ MaxCsrs \in Nat
  /\ Kinds \subseteq {"fault", "stop", "deletion", "kill"} /\ MaxTroubles \in Nat

VARIABLES
  sealKey,    \* the Secret openbao-seal-key, 0 if absent
  shares,     \* the Secret with the recovery shares: of this data or stale
  marker,     \* the ConfigMap openbao-init-state exists
  running,    \* the seal key the pods started with, 0 while they are down
  dataKey,    \* the seal key the data is sealed with, 0: not initialised
  rootLive,   \* the root token of sys/init is valid
  config,     \* mounts, policies, the auth method and its roles
  csrs,       \* intermediate keys in the PKI engine
  csrStored,  \* secret/pki/intermediate-csr: the key it is of, 0 if absent
  csrLog,     \* the CSRs printed in the log of a Job
  imported,   \* the signed intermediate certificate is in place
  secrets,    \* secrets[s]: the value at secret/s, 0 if absent
  keysMade,   \* budget spent: seal keys made
  troubles    \* budget spent: the troubles that happened

pkiVars == <<csrs, csrStored, csrLog, imported>>
dataVars == <<dataKey, rootLive, config, pkiVars, secrets>>
kubeVars == <<sealKey, shares, marker, keysMade>>
serverVars == <<kubeVars, dataVars, running, troubles>>

Paths == {AppSecrets[i] : i \in DOMAIN AppSecrets}
Items == {"bootPolicy", "bgPolicy", "auth", "bootRole", "bgRole",
          "kv", "pki", "pkiRole", "appPolicies", "appRoles"}

ServerTypeOK ==
  /\ sealKey \in 0..MaxKeys /\ running \in 0..MaxKeys /\ dataKey \in 0..MaxKeys
  /\ shares \in {"none", "stale", "ours"} /\ marker \in BOOLEAN
  /\ rootLive \in BOOLEAN /\ config \subseteq Items
  /\ csrs \in 0..MaxCsrs /\ csrStored \in 0..MaxCsrs
  /\ csrLog \subseteq 1..MaxCsrs /\ imported \in BOOLEAN
  /\ secrets \in [Paths -> Values \cup {0}]
  /\ keysMade \in 0..MaxKeys /\ troubles \subseteq Kinds

Empty == [s \in Paths |-> 0]

ServerInit ==
  /\ sealKey = 0 /\ shares = "none" /\ marker = FALSE
  /\ running = 0 /\ dataKey = 0 /\ rootLive = FALSE
  /\ config = {} /\ csrs = 0 /\ csrStored = 0 /\ csrLog = {} /\ imported = FALSE
  /\ secrets = Empty
  /\ keysMade = 0 /\ troubles = {}

Initialised == dataKey # 0
Active == Initialised /\ running = dataKey

\* login_k8s openbao-bootstrap would succeed.
CanLogin == Active /\ {"auth", "bootRole"} \subseteq config

Happens(kind) ==
  /\ kind \in Kinds \ troubles /\ Cardinality(troubles) < MaxTroubles
  /\ troubles' = troubles \cup {kind}

\* A call is answered, or the fault hits it.
Answered == UNCHANGED troubles
Slips == Happens("fault")

\* cluster_state: one pod that answers is enough for true.
StateTrue == running # 0 /\ Initialised /\ Answered
StateFalse == running # 0 /\ ~Initialised /\ Answered
StateUnknown == (running = 0 /\ Answered) \/ Slips

\* A write to OpenBao is an answer (ok) or none, with or without effect.
WriteOk(effect) == Active /\ effect /\ Answered
WriteLost(effect) == Active /\ effect /\ Slips
WriteFails(untouched) ==
  /\ \/ ~Active /\ Answered
     \/ Slips
  /\ untouched

\* Mutant: the auth method is enabled anew, which drops its roles.
PutRemounts(item) ==
  config' = (IF item = "auth" THEN config \ {"bootRole", "bgRole", "appRoles"}
             ELSE config) \cup {item}

\* put_policy, configure_k8s_auth, put_k8s_role, mount_engine: writing what
\* is there already is a success.
Put(item) == config' = config \cup {item}

-----------------------------------------------------------------------------
(* The StatefulSet and the people around it. *)

\* The pods mount the Secret: without it they do not start.
PodsStart ==
  /\ running = 0 /\ sealKey # 0
  /\ running' = sealKey
  /\ UNCHANGED <<kubeVars, dataVars, troubles>>

PodsStop ==
  /\ running # 0 /\ Happens("stop")
  /\ running' = 0
  /\ UNCHANGED <<kubeVars, dataVars>>

DeleteSealKey ==
  /\ sealKey # 0 /\ Initialised /\ Happens("deletion")
  /\ sealKey' = 0
  /\ UNCHANGED <<shares, marker, keysMade, dataVars, running>>

\* README, Disaster recovery: the escrowed key is put back.
PutKeyBack ==
  /\ sealKey = 0 /\ Initialised
  /\ sealKey' = dataKey
  /\ UNCHANGED <<shares, marker, keysMade, dataVars, running, troubles>>

\* The operator signs a CSR found in KV or in a log, and imports it.
Import ==
  /\ Active /\ ~imported /\ (csrStored # 0 \/ csrLog # {})
  /\ imported' = TRUE
  /\ UNCHANGED <<kubeVars, dataKey, rootLive, config, csrs, csrStored, csrLog,
                 secrets, running, troubles>>
=============================================================================
