------------------------------ MODULE AuditLog ------------------------------
(***************************************************************************)
(* The audit directory of one control plane as the shipper sees it: the    *)
(* live file kube-apiserver.log, which the API server appends to and, from *)
(* time to time, renames; the rotated files; and their deletion, oldest    *)
(* first.  None of it is code of this repository (it is the API server's   *)
(* log writer): the module is what scripts/ship.sh assumes of it.          *)
(*                                                                         *)
(* A file is an INCARNATION: files are numbered in the order they were     *)
(* created, which is also the order ship.sh lists them in (mtime, then     *)
(* name), and a file keeps its number when it is renamed.  Truncating the  *)
(* live file in place ends one incarnation and begins another under the    *)
(* same name and inode.  The content of a file is abstracted to its length *)
(* in bytes and to the offsets its newlines are at.                        *)
(***************************************************************************)
EXTENDS Integers, FiniteSets

CONSTANTS
  MaxFiles,           \* bound: incarnations ever created
  MaxLen,             \* bound: bytes of one file
  MaxLine,            \* the longest line written, its newline included
  ReuseInodes,        \* may a new file get the inode of a deleted one?
  Truncates           \* may the live file be truncated in place?

ASSUME FilesAssumption ==
  /\ MaxFiles \in Nat /\ MaxLen \in Nat /\ MaxLine \in Nat \ {0}
  /\ ReuseInodes \in BOOLEAN /\ Truncates \in BOOLEAN

VARIABLES
  status,             \* status[f]: unborn, live, rotated or gone
  len,                \* len[f]: bytes written to f
  nl,                 \* nl[f]: the offsets of the newlines of f
  ino                 \* ino[f]: the inode of f, 0 while it is unborn

nodeVars == <<status, len, nl, ino>>

Files == 1..MaxFiles

LogTypeOK ==
  /\ status \in [Files -> {"unborn", "live", "rotated", "gone"}]
  /\ len \in [Files -> 0..MaxLen]
  /\ nl \in [Files -> SUBSET (1..MaxLen)]
  /\ ino \in [Files -> 0..MaxFiles]

LiveFiles == {f \in Files : status[f] = "live"}
RotatedFiles == {f \in Files : status[f] = "rotated"}
GoneFiles == {f \in Files : status[f] = "gone"}
OnNode == LiveFiles \cup RotatedFiles

\* A byte is a pair of a file and an offset, counted from 1.
Written == {b \in Files \X (1..MaxLen) : b[2] <= len[b[1]]}

LogInit ==
  /\ status = [f \in Files |-> "unborn"]
  /\ len = [f \in Files |-> 0]
  /\ nl = [f \in Files |-> {}]
  /\ ino = [f \in Files |-> 0]

NextUnborn(f) ==
  /\ status[f] = "unborn"
  /\ \A g \in Files : g < f => status[g] # "unborn"

FreeInodes(f) ==
  {f} \cup {ino[g] : g \in IF ReuseInodes THEN GoneFiles ELSE {}}

\* The API server opens a new live file, at its start or after a rotation.
CreateLive ==
  /\ LiveFiles = {}
  /\ \E f \in Files :
       /\ NextUnborn(f)
       /\ status' = [status EXCEPT ![f] = "live"]
       /\ \E i \in FreeInodes(f) :
            /\ \A g \in OnNode : ino[g] # i
            /\ ino' = [ino EXCEPT ![f] = i]
  /\ UNCHANGED <<len, nl>>

\* It appends to the live file.  A line may be seen before it is complete.
Append(newline) ==
  \E f \in LiveFiles :
    /\ len[f] < MaxLen
    /\ newline \/ \E i \in (len[f] + 2 - MaxLine)..len[f] : i = 0 \/ i \in nl[f]
    /\ len' = [len EXCEPT ![f] = @ + 1]
    /\ nl' = [nl EXCEPT ![f] = IF newline THEN @ \cup {len[f] + 1} ELSE @]
    /\ UNCHANGED <<status, ino>>

\* It renames the live file, as long as this model has a file to follow it.
Rotate ==
  /\ \E f \in Files : status[f] = "unborn"
  /\ \E f \in LiveFiles : status' = [status EXCEPT ![f] = "rotated"]
  /\ UNCHANGED <<len, nl, ino>>

\* It deletes the oldest rotated file, by age or by number.
DeleteOldest ==
  /\ \E f \in RotatedFiles :
       /\ \A g \in RotatedFiles : f <= g
       /\ status' = [status EXCEPT ![f] = "gone"]
  /\ UNCHANGED <<len, nl, ino>>

\* Somebody truncates the live file: its name and its inode stay.
Truncate ==
  /\ Truncates
  /\ \E f \in LiveFiles, g \in Files :
       /\ len[f] > 0
       /\ NextUnborn(g)
       /\ status' = [status EXCEPT ![f] = "gone", ![g] = "live"]
       /\ ino' = [ino EXCEPT ![g] = ino[f]]
  /\ UNCHANGED <<len, nl>>
=============================================================================
