--------------------------- MODULE OpenBaoBootstrap ---------------------------
(***************************************************************************)
(* The bootstrap of OpenBao: the Jobs openbao-init and                     *)
(* openbao-vault-bootstrap (configure.sh) at work at the same time on one  *)
(* cluster, the pods that stop and start, a seal key Secret deleted and    *)
(* put back, and the operator who starts over after an interrupted first   *)
(* run (src/apps/base/foundation/vault/README.md, lines 202-214).          *)
(***************************************************************************)
EXTENDS OpenBaoInit, OpenBaoConfigure

\* Bound of TLC's runs: one application secret.
OneSecret == <<"backup/restic">>

vars == <<serverVars, initVars, configureVars>>

TypeOK == ServerTypeOK /\ InitTypeOK /\ ConfigureTypeOK

Init == ServerInit /\ InitJobInit /\ ConfigureInit

KillConfigure ==
  /\ cpc \notin {"down", "done"} /\ Happens("kill")
  /\ cpc' = "down" /\ csr' = 0 /\ write' = 1
  /\ UNCHANGED <<kubeVars, dataVars, running, initVars>>

\* Initialised and never handed over: nobody can configure it.
DeadEnd == Active /\ ~CanLogin

\* The operator deletes the Jobs and the PVCs, and perhaps forgets the Secret.
StartOver ==
  /\ DeadEnd /\ ipc = "down" /\ cpc = "down" /\ reinits < MaxReinits
  /\ reinits' = reinits + 1
  /\ dataKey' = 0 /\ rootLive' = FALSE /\ config' = {} /\ running' = 0
  /\ csrs' = 0 /\ csrStored' = 0 /\ csrLog' = {} /\ imported' = FALSE /\ secrets' = Empty
  /\ shares' \in {"none", IF shares = "none" THEN "none" ELSE "stale"}
  /\ ipc' = "stale" /\ rootFile' = FALSE /\ tries' = 0 /\ item' = 1
  /\ cpc' = "login" /\ csr' = 0 /\ write' = 1
  /\ UNCHANGED <<sealKey, marker, keysMade, troubles, blind>>

InitJob == InitStep /\ UNCHANGED configureVars
ConfigureJob == ConfigureStep /\ UNCHANGED initVars
Outside ==
  /\ Kill \/ ((PodsStart \/ PodsStop \/ DeleteSealKey \/ PutKeyBack \/ Import)
              /\ UNCHANGED initVars)
  /\ UNCHANGED configureVars

Next == InitJob \/ ConfigureJob \/ Outside \/ KillConfigure \/ StartOver

Spec == Init /\ [][Next]_vars

\* The Jobs run and are created again; the pods start once they can.
FairSpec ==
  /\ Spec
  /\ WF_vars(InitJob) /\ WF_vars(ConfigureJob)
  /\ WF_vars(PodsStart /\ UNCHANGED <<initVars, configureVars>>)

-----------------------------------------------------------------------------

\* The marker, which makes a missing seal key an error, is only there once the
\* shares of this very initialisation are kept and the bootstrap identity and
\* the break-glass policy exist (mark_initialised after root_window or Check).
HandedOver ==
  marker => /\ Initialised /\ shares = "ours"
            /\ {"bootPolicy", "bgPolicy", "auth", "bootRole"} \subseteq config

\* The marker says "a seal key is expected to exist": from then on the init Job
\* makes no key, unless a read of ensure_seal_key got no answer in that run.
NewKeyNeedsABlindRead ==
  [][marker /\ sealKey = 0 => sealKey' \in {0, dataKey} \/ blind]_vars

\* The same without the excuse, as init.sh:60-63 has it: a fresh random key
\* would not open the data.
NoKeyOverData ==
  [][marker /\ sealKey = 0 => sealKey' \in {0, dataKey}]_vars

\* Nothing the platform uses is written before the break-glass role and its
\* policy exist, the only way back once the root token is gone.
BreakGlassBeforeSecrets ==
  (\E s \in Paths : secrets[s] # 0) => {"bgPolicy", "bgRole"} \subseteq config

\* "so that window ends in a re-init on a cluster that holds nothing yet": a
\* cluster nobody can log in to has no secret and no key of its own.
DeadEndHoldsNothing ==
  DeadEnd => secrets = Empty /\ csrs = 0

\* "a re-run can not rotate what exists": a secret keeps its value through
\* retries, lost answers and restarts, until an operator starts over.
SecretsNeverRotate ==
  [][\A s \in Paths : secrets[s] # 0 => secrets'[s] = secrets[s] \/ reinits' # reinits]_vars

\* init.sh: "On any exit the root token is revoked (and a token left by a
\* killed run is revoked at the next start)".
RootTokenHeldOrRevoked ==
  rootLive => rootFile \/ ipc = "parse"

\* configure.sh:78, "keep the (public) CSR in KV": the log goes with its Job,
\* so that a run that ended well leaves a pending key without its CSR only if a
\* call got no answer, the pods stopped or a container was killed on the way.
\* (In those runs it may: no later run asks for the CSR of a key that exists.)
CsrOutlivesItsLog ==
  cpc = "done" /\ csrs # 0 /\ ~imported /\ troubles \subseteq {"deletion"}
    => csrStored # 0

\* Whatever is lost, killed or stopped on the way, the first run ends handed
\* over with every secret in place, or in one of the states the README sends
\* an operator to: a dead end, a leftover Secret, a seal key that is wrong.
Secured == marker /\ \A s \in Paths : secrets[s] # 0
NeedsAnOperator ==
  \/ DeadEnd
  \/ ~Initialised /\ shares = "stale"
  \/ Initialised /\ sealKey # dataKey
Settles == <>[](Secured \/ NeedsAnOperator)
=============================================================================
