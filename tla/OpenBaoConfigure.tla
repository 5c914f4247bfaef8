--------------------------- MODULE OpenBaoConfigure ---------------------------
(***************************************************************************)
(* The Job openbao-vault-bootstrap,                                        *)
(* src/apps/base/foundation/vault/scripts/configure.sh: the engines, the   *)
(* PKI and its request for an intermediate certificate, the policies and   *)
(* roles, and the application secrets, created once.                       *)
(*                                                                         *)
(* One action per call; writes of the same kind that only configure.sh     *)
(* makes (the roles of the applications, the revocation settings) are one. *)
(* A call that fails ends the run; the Job restarts and starts over.  The  *)
(* token's 15 minutes are not modelled: one that ran out is a failed call. *)
(***************************************************************************)
EXTENDS OpenBao

VARIABLES
  cpc,    \* the call configure.sh makes next
  csr,    \* the CSR in the answer of generate, 0 if none
  write   \* the index of the next write of Mounts, Roles or AppSecrets

configureVars == <<cpc, csr, write>>

CSteps == {"login", "mounts", "ca", "keys", "generate", "storeCsr", "roles",
           "secrets", "down", "done"}

Mounts == <<"kv", "pki">>
\* pki (its role), then policies_and_roles.
Roles == <<"pkiRole", "bootPolicy", "bgPolicy", "appPolicies", "auth", "bootRole",
           "appRoles", "bgRole">>

ConfigureTypeOK ==
  /\ cpc \in CSteps /\ csr \in 0..MaxCsrs
  /\ write \in 1..(Len(Mounts) + Len(Roles) + Len(AppSecrets))

ConfigureInit == cpc = "login" /\ csr = 0 /\ write = 1

cServer == <<kubeVars, dataKey, rootLive, running>>

\* wait_api, resolve_leader, login_bootstrap: give up only while init.sh has
\* not handed over.
Login ==
  /\ cpc = "login"
  /\ \/ CanLogin /\ cpc' = "mounts"
     \/ ~CanLogin /\ cpc' = "down"
  /\ write' = 1 /\ UNCHANGED <<serverVars, csr>>

\* The writes of a list, one by one; the first that fails ends the run.
PutEach(step, list, next) ==
  LET written == Put(list[write])
      untouched == UNCHANGED config
  IN /\ cpc = step
     /\ \/ /\ WriteOk(written)
           /\ IF write < Len(list) THEN cpc' = step /\ write' = write + 1
                                   ELSE cpc' = next /\ write' = 1
        \/ (WriteLost(written) \/ WriteFails(untouched)) /\ cpc' = "down" /\ write' = 1
     /\ UNCHANGED <<cServer, pkiVars, secrets, csr>>

MountEngines == PutEach("mounts", Mounts, "ca")

\* GET pki/cert/ca: anything but a certificate is "none yet".
ReadCa ==
  /\ cpc = "ca"
  /\ \/ Active /\ imported /\ Answered /\ cpc' = "roles"
     \/ (~Active \/ ~imported) /\ Answered /\ cpc' = "keys"
     \/ Slips /\ cpc' = "keys"
  /\ UNCHANGED <<cServer, config, pkiVars, secrets, csr, write>>

\* LIST pki/keys: anything but a list with a key is "no key yet".
ListKeys ==
  /\ cpc = "keys"
  /\ \/ Active /\ csrs # 0 /\ Answered /\ cpc' = "roles"
     \/ (~Active \/ csrs = 0) /\ Answered /\ cpc' = "generate"
     \/ Slips /\ cpc' = "generate"
  /\ UNCHANGED <<cServer, config, pkiVars, secrets, csr, write>>

\* A key and its CSR, which is printed; without an answer the run goes on.
Generate ==
  LET generated == csrs < MaxCsrs /\ csrs' = csrs + 1
      untouched == UNCHANGED csrs
  IN /\ cpc = "generate"
     /\ \/ /\ WriteOk(generated)
           /\ csr' = csrs + 1 /\ csrLog' = csrLog \cup {csrs + 1} /\ cpc' = "storeCsr"
        \/ /\ WriteLost(generated) \/ WriteFails(untouched)
           /\ UNCHANGED <<csr, csrLog>> /\ cpc' = "roles"
     /\ UNCHANGED <<cServer, config, csrStored, imported, secrets, write>>

\* Mutant: the CSR is only printed, and the log goes with the Job.
PrintCsr == cpc = "storeCsr" /\ cpc' = "roles" /\ csr' = 0 /\ UNCHANGED <<serverVars, write>>

\* kv_create pki/intermediate-csr, check-and-set 0.
StoreCsr ==
  LET created == csrStored' = (IF csrStored = 0 THEN csr ELSE csrStored)
      untouched == UNCHANGED csrStored
  IN /\ cpc = "storeCsr"
     /\ \/ WriteOk(created) /\ cpc' = "roles"
        \/ (WriteLost(created) \/ WriteFails(untouched)) /\ cpc' = "down"
     /\ csr' = 0
     /\ UNCHANGED <<cServer, config, csrs, csrLog, imported, secrets, write>>

\* Mutant: the application secrets before the policies and the roles.
PutRolesLate == cpc = "roles" /\ cpc' = "secrets" /\ UNCHANGED <<serverVars, csr, write>>

PutRoles == PutEach("roles", Roles, "secrets")

\* Mutant: without check-and-set.
Overwrite(path, value) == secrets' = [secrets EXCEPT ![path] = value]

\* kv_create: an existing secret is kept, whatever rand returned this time.
Create(path, value) ==
  secrets' = IF secrets[path] = 0 THEN [secrets EXCEPT ![path] = value] ELSE secrets

CreateSecret ==
  LET untouched == UNCHANGED secrets
  IN /\ cpc = "secrets"
     /\ \E v \in Values :
          LET created == Create(AppSecrets[write], v)
          IN \/ /\ WriteOk(created)
                /\ IF write < Len(AppSecrets)
                   THEN cpc' = "secrets" /\ write' = write + 1
                   ELSE cpc' = "done" /\ write' = 1
             \/ (WriteLost(created) \/ WriteFails(untouched)) /\ cpc' = "down" /\ write' = 1
     /\ UNCHANGED <<cServer, config, pkiVars, csr>>

\* The Job restarts in place, or Flux creates it anew, the old log gone.
StartConfigure ==
  /\ cpc \in {"down", "done"}
  /\ cpc' = "login" /\ write' = 1 /\ csr' = 0
  /\ csrLog' = IF cpc = "done" THEN {} ELSE csrLog
  /\ UNCHANGED <<cServer, config, csrs, csrStored, imported, secrets, troubles>>

ConfigureStep ==
  \/ Login \/ MountEngines \/ ReadCa \/ ListKeys \/ Generate \/ StoreCsr \/ PutRoles
  \/ CreateSecret \/ StartConfigure
=============================================================================
