----------------------------- MODULE OpenBaoInit -----------------------------
(***************************************************************************)
(* The Job openbao-init, src/apps/base/foundation/vault/scripts/init.sh:   *)
(* the seal key, sys/init, the hand-over to the bootstrap identity under   *)
(* the root token, and the revocation of that token.                       *)
(*                                                                         *)
(* One action per call.  The Job's pod restarts in place after a failure   *)
(* or a kill, keeping its memory volume (root.hdr); a Job that ended is    *)
(* created again by Flux.  The polling loops (wait_api, wait_active, the   *)
(* proof of the login) give up only while what they wait for is not there. *)
(* Production and development differ in the label of the Secret only.      *)
(***************************************************************************)
EXTENDS OpenBao

CONSTANTS
  Development,   \* the ConfigMap openbao-operator-keys does not exist
  MaxReinits     \* bound: times an operator starts over

ASSUME InitAssumption ==
  Development \in BOOLEAN /\ MaxReinits \in Nat

VARIABLES
  ipc,       \* the call init.sh makes next
  rootFile,  \* root.hdr is in the memory volume of the pod
  tries,     \* failed attempts of the retry3 under way
  item,      \* the index in WindowItems of the next write
  blind,     \* ghost: a read of ensure_seal_key got no answer in this run
  reinits    \* budget spent: times an operator started over

initVars == <<ipc, rootFile, tries, item, blind, reinits>>
stay == <<rootFile, tries, item, blind, reinits>>

ISteps == {"stale", "seal", "sealMarker", "sealState", "sealCreate", "wait", "ask",
           "check", "preflight", "init", "parse", "shares", "label", "active",
           "window", "prove", "revoke", "mark", "exit", "down", "done"}

\* root_window, in order.
WindowItems == <<"bootPolicy", "bgPolicy", "auth", "bootRole", "bgRole">>

InitTypeOK ==
  /\ ipc \in ISteps /\ rootFile \in BOOLEAN
  /\ tries \in 0..2 /\ item \in 1..(Len(WindowItems) + 1)
  /\ blind \in BOOLEAN /\ reinits \in 0..MaxReinits

InitJobInit ==
  /\ ipc = "stale" /\ rootFile = FALSE /\ tries = 0 /\ item = 1
  /\ blind = FALSE /\ reinits = 0

Goto(step) == ipc' = step
Die == Goto("exit")

\* retry3: the next attempt, or die after the third.
Retry(step) ==
  IF tries = 2 THEN Die /\ tries' = 0 ELSE Goto(step) /\ tries' = tries + 1

\* All but the Kubernetes objects: what a kubectl call leaves alone.
kubeOnly == <<dataVars, running>>

-----------------------------------------------------------------------------

\* revoke_root: whatever the answer, root.hdr is removed.
RevokeRoot ==
  /\ rootFile' = FALSE
  /\ \/ WriteOk(rootLive' = FALSE) \/ WriteLost(rootLive' = FALSE)
     \/ WriteFails(UNCHANGED rootLive)
  /\ UNCHANGED <<kubeVars, dataKey, config, pkiVars, secrets, running,
                 tries, item, blind, reinits>>

NoRoot == ~rootFile /\ UNCHANGED <<serverVars, stay>>

RevokeStale ==
  ipc = "stale" /\ (RevokeRoot \/ NoRoot) /\ Goto("seal")

\* ensure_seal_key, first read: present is left alone; else look further.
ReadSealKey ==
  /\ ipc = "seal"
  /\ \/ sealKey # 0 /\ Answered /\ Goto("wait") /\ UNCHANGED blind
     \/ sealKey = 0 /\ Answered /\ Goto("sealMarker") /\ UNCHANGED blind
     \/ Slips /\ Goto("sealMarker") /\ blind' = TRUE
  /\ UNCHANGED <<kubeVars, kubeOnly, rootFile, tries, item, reinits>>

\* Mutant: only the pods are asked.
ReadMarkerIgnored ==
  ipc = "sealMarker" /\ Goto("sealState") /\ UNCHANGED <<serverVars, stay>>

ReadMarker ==
  /\ ipc = "sealMarker"
  /\ \/ marker /\ Answered /\ Die /\ UNCHANGED blind
     \/ ~marker /\ Answered /\ Goto("sealState") /\ UNCHANGED blind
     \/ Slips /\ Goto("sealState") /\ blind' = TRUE
  /\ UNCHANGED <<kubeVars, kubeOnly, rootFile, tries, item, reinits>>

\* [ "$(cluster_state)" = true ]: unknown is not true.
ReadState ==
  /\ ipc = "sealState"
  /\ \/ StateTrue /\ Die
     \/ (StateFalse \/ StateUnknown) /\ Goto("sealCreate")
  /\ UNCHANGED <<kubeVars, kubeOnly, stay>>

NewSealKey ==
  /\ keysMade < MaxKeys
  /\ keysMade' = keysMade + 1 /\ sealKey' = keysMade + 1
  /\ UNCHANGED <<shares, marker>>

CreateSealKey ==
  /\ ipc = "sealCreate"
  /\ \/ sealKey = 0 /\ NewSealKey /\ ((Answered /\ Goto("wait")) \/ (Slips /\ Die))
     \/ sealKey # 0 /\ Answered /\ Goto("wait") /\ UNCHANGED kubeVars
     \/ Slips /\ Die /\ UNCHANGED kubeVars
  /\ UNCHANGED <<kubeOnly, stay>>

\* wait_api: any answer counts; 15 minutes without one end the run.
WaitApi ==
  /\ ipc = "wait"
  /\ \/ running # 0 /\ Goto("ask")
     \/ running = 0 /\ Die
  /\ UNCHANGED <<serverVars, stay>>

AskState ==
  /\ ipc = "ask"
  /\ \/ StateTrue /\ Goto("check")
     \/ StateFalse /\ Goto("preflight")
     \/ StateUnknown /\ Die
  /\ UNCHANGED <<kubeVars, kubeOnly, stay>>

\* Mutant: nothing to do, the marker included.
CheckOnly ==
  /\ ipc = "check"
  /\ \/ CanLogin /\ Answered /\ Goto("done")
     \/ ~CanLogin /\ Answered /\ Die
     \/ Slips /\ Die
  /\ UNCHANGED <<kubeVars, kubeOnly, stay>>

\* Already initialised: the hand-over still works, or the run fails.
Check ==
  /\ ipc = "check"
  /\ \/ CanLogin /\ Answered /\ Goto("mark")
     \/ ~CanLogin /\ Answered /\ Die
     \/ Slips /\ Die
  /\ UNCHANGED <<kubeVars, kubeOnly, stay>>

\* resolve_mode dies on any answer but found / not found; a leftover Secret
\* stops the run before sys/init, a read of it that fails does not.
Preflight ==
  /\ ipc = "preflight"
  /\ \/ shares = "none" /\ Answered /\ Goto("init")
     \/ shares # "none" /\ Answered /\ Die
     \/ Slips /\ Goto("init")
     \/ Slips /\ Die
  /\ UNCHANGED <<kubeVars, kubeOnly, stay>>

\* POST sys/init: the data is sealed with the key the pods run with.
SysInit ==
  LET initialise == dataKey' = running /\ rootLive' = TRUE
      untouched == UNCHANGED <<dataKey, rootLive>>
  IN /\ ipc = "init"
     /\ \/ running # 0 /\ ~Initialised /\ initialise /\ Answered /\ Goto("parse")
        \/ running # 0 /\ ~Initialised /\ initialise /\ Slips /\ Die
        \/ (running = 0 \/ Initialised) /\ untouched /\ Answered /\ Die
        \/ untouched /\ Slips /\ Die
     /\ UNCHANGED <<kubeVars, config, pkiVars, secrets, running, stay>>

\* header_file "$root" "$ROOT_FILE": until here only the answer held it.
Parse ==
  /\ ipc = "parse"
  /\ rootFile' = TRUE /\ tries' = 0 /\ Goto("shares")
  /\ UNCHANGED <<serverVars, item, blind, reinits>>

AfterShares == IF Development THEN "label" ELSE "active"

\* Mutant: an existing Secret is taken for a success.
StoreSharesKept ==
  /\ ipc = "shares"
  /\ shares' = (IF shares = "none" THEN "ours" ELSE shares)
  /\ Answered /\ Goto(AfterShares) /\ tries' = 0
  /\ UNCHANGED <<sealKey, marker, keysMade, kubeOnly, rootFile, item, blind, reinits>>

\* retry3 store_shares: create only, "already exists" is a failure.
StoreShares ==
  /\ ipc = "shares"
  /\ \/ /\ shares = "none" /\ shares' = "ours"
        /\ \/ Answered /\ Goto(AfterShares) /\ tries' = 0
           \/ Slips /\ Retry("shares")
     \/ /\ UNCHANGED shares
        /\ \/ shares # "none" /\ Answered
           \/ Slips
        /\ Retry("shares")
  /\ UNCHANGED <<sealKey, marker, keysMade, kubeOnly, rootFile, item, blind, reinits>>

\* set -e: a failed label ends the run.
Label ==
  /\ ipc = "label"
  /\ \/ Answered /\ Goto("active")
     \/ Slips /\ Die
  /\ UNCHANGED <<kubeVars, kubeOnly, stay>>

WaitActive ==
  /\ ipc = "active"
  /\ \/ Active /\ Goto("window") /\ item' = 1
     \/ ~Active /\ Die /\ UNCHANGED item
  /\ UNCHANGED <<serverVars, rootFile, tries, blind, reinits>>

\* retry3 of the next write of root_window.
Window ==
  LET written == Put(WindowItems[item])
      untouched == UNCHANGED config
  IN /\ ipc = "window"
     /\ \/ /\ WriteOk(written)
           /\ item' = item + 1 /\ tries' = 0
           /\ Goto(IF item = Len(WindowItems) THEN "prove" ELSE "window")
        \/ (WriteLost(written) \/ WriteFails(untouched)) /\ Retry("window") /\ UNCHANGED item
     /\ UNCHANGED <<kubeVars, dataKey, rootLive, pkiVars, secrets, running,
                    rootFile, blind, reinits>>

\* The login from the Job's own identity, tried until it works.
Prove ==
  /\ ipc = "prove"
  /\ \/ CanLogin /\ Goto("revoke")
     \/ ~CanLogin /\ Die
  /\ UNCHANGED <<serverVars, stay>>

Revoke == ipc = "revoke" /\ RevokeRoot /\ Goto("mark")

\* mark_initialised: create, and whatever it answers the run succeeds.
Mark ==
  /\ ipc = "mark" /\ Goto("done")
  /\ \/ marker' = TRUE /\ (Answered \/ Slips)
     \/ UNCHANGED marker /\ Slips
  /\ UNCHANGED <<sealKey, shares, keysMade, kubeOnly, stay>>

\* trap on_exit EXIT, after die or set -e.
OnExit == ipc = "exit" /\ (RevokeRoot \/ NoRoot) /\ Goto("down")

\* OnFailure restarts the container; after the ttl Flux creates the Job anew.
StartInit ==
  /\ ipc \in {"down", "done"}
  /\ Goto("stale") /\ tries' = 0 /\ item' = 1 /\ blind' = FALSE
  /\ UNCHANGED <<serverVars, rootFile, reinits>>

\* SIGKILL, OOM: no trap runs; the pod and its memory volume may survive it.
Kill ==
  /\ ipc \notin {"down", "done"} /\ Happens("kill") /\ Goto("down")
  /\ rootFile' \in {rootFile, FALSE}
  /\ UNCHANGED <<kubeVars, kubeOnly, tries, item, blind, reinits>>

InitStep ==
  \/ RevokeStale \/ ReadSealKey \/ ReadMarker \/ ReadState \/ CreateSealKey \/ WaitApi
  \/ AskState \/ Check \/ Preflight \/ SysInit \/ Parse \/ StoreShares \/ Label
  \/ WaitActive \/ Window \/ Prove \/ Revoke \/ Mark \/ OnExit \/ StartInit
=============================================================================
