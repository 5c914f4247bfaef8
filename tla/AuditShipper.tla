---------------------------- MODULE AuditShipper ----------------------------
(***************************************************************************)
(* The audit-log shipper of one control plane:                             *)
(* src/apps/base/observability-audit-sink/scripts/ship.sh, run in a loop   *)
(* beside the API server that writes the files of AuditLog, and the object *)
(* store ("the sink") it ships them to.                                    *)
(*                                                                         *)
(* One action per call the script makes to the file system or to restic,   *)
(* so that a rotation, a deletion or a crash can come between any two.  A  *)
(* restic call has three outcomes: stored and answered, stored and the     *)
(* answer lost (a timeout kills restic), not stored.                       *)
(*                                                                         *)
(* Simplifications.  load_state reads a day's repository at a time; only   *)
(* the shipper itself writes them, so it is one step here.  ensure_repo    *)
(* only decides whether the cycle goes on.  A chunk is the range it        *)
(* covers.  The `file' of a cursor is a ghost: the incarnation the bytes   *)
(* came from, of which the script knows only the inode.                    *)
(***************************************************************************)
EXTENDS AuditLog

CONSTANTS
  MaxB,                \* SHIP_MAX_BYTES
  RecoverDays,         \* RECOVER_DAYS
  MaxOutage,           \* days the newest acknowledged range may be old
  RotateWhileListing,  \* may a rename fall between the glob and the stats?
  MaxDay,              \* bound: the last day
  MaxFaults,           \* bound: restic calls that store nothing
  MaxLostAcks,         \* bound: restic calls that store and answer an error
  MaxCrashes           \* bound: restarts of the pod

ASSUME ShipperAssumption ==
  /\ MaxB \in Nat \ {0} /\ RecoverDays \in Nat \ {0} /\ MaxOutage \in Nat
  /\ RotateWhileListing \in BOOLEAN /\ MaxDay \in Nat
  /\ MaxFaults \in Nat /\ MaxLostAcks \in Nat /\ MaxCrashes \in Nat

VARIABLES
  day,        \* the UTC day
  newest,     \* newest[d]: the last oa-pos tag of the repository of day d
  stored,     \* bytes some snapshot of the sink holds
  declared,   \* bytes some oa-gap snapshot declares lost
  pc,         \* the call the script makes next
  dayNow,     \* DAYNOW
  loaded,     \* LOADED
  cursor,     \* CUR_INO, CUR_OFF, CLOSED_AT_EOF
  todo,       \* the listed files this cycle has still to ship
  asLive,     \* the listed file whose name is LIVE, 0 if none
  at,         \* the file ship_file works on, 0 if none
  lim,        \* lim of ship_file, Unset while empty
  chunk,      \* the range of the put under way
  faults, lostAcks, crashes,  \* budgets spent
  repeats     \* ghost: puts that stored a byte the sink already held

sinkVars == <<newest, stored, declared, repeats>>
cycleVars == <<dayNow, todo, asLive, at, lim, chunk>>
budgetVars == <<faults, lostAcks, crashes>>
vars == <<nodeVars, sinkVars, cycleVars, budgetVars, day, pc, loaded, cursor>>

Days == 0..MaxDay
Unset == -1
NoCursor == [file |-> 0, ino |-> 0, off |-> 0, eof |-> FALSE]
Cursors == [file : 0..MaxFiles, ino : 0..MaxFiles, off : 0..MaxLen, eof : BOOLEAN]
NoChunk == [file |-> 0, ino |-> 0, from |-> 0, to |-> 0, eof |-> FALSE]
Chunks == [file : 0..MaxFiles, ino : 0..MaxFiles,
           from : 0..MaxLen, to : 0..MaxLen, eof : BOOLEAN]
Calls == {"idle", "load", "glob", "stats", "goneGap", "next",
          "stat", "truncGap", "read", "put"}

TypeOK ==
  /\ LogTypeOK
  /\ day \in Days /\ dayNow \in Days
  /\ newest \in [Days -> Cursors]
  /\ stored \subseteq Files \X (1..MaxLen)
  /\ declared \subseteq Files \X (1..MaxLen)
  /\ pc \in Calls /\ loaded \in BOOLEAN
  /\ cursor \in Cursors /\ chunk \in Chunks
  /\ todo \subseteq Files /\ asLive \in 0..MaxFiles /\ at \in 0..MaxFiles
  /\ lim \in {Unset} \cup 0..MaxLen
  /\ faults \in 0..MaxFaults /\ lostAcks \in 0..MaxLostAcks
  /\ crashes \in 0..MaxCrashes /\ repeats \in Nat

Init ==
  /\ LogInit
  /\ day = 0
  /\ newest = [d \in Days |-> NoCursor]
  /\ stored = {} /\ declared = {} /\ repeats = 0
  /\ pc = "idle" /\ loaded = FALSE /\ cursor = NoCursor
  /\ dayNow = 0 /\ todo = {} /\ asLive = 0 /\ at = 0
  /\ lim = Unset /\ chunk = NoChunk
  /\ faults = 0 /\ lostAcks = 0 /\ crashes = 0
-----------------------------------------------------------------------------
(* The cycle ends, in success or failure, and the script sleeps: what the  *)
(* cycle worked with is not read again.                                    *)

EndCycle ==
  /\ pc' = "idle"
  /\ dayNow' = 0
  /\ todo' = {} /\ asLive' = 0 /\ at' = 0 /\ lim' = Unset /\ chunk' = NoChunk

SpendFault == faults < MaxFaults /\ faults' = faults + 1
SpendLostAck == lostAcks < MaxLostAcks /\ lostAcks' = lostAcks + 1

\* ensure_repo: the repository of the day exists, or is made.
BeginCycle ==
  /\ pc = "idle"
  /\ dayNow' = day
  /\ pc' = IF loaded THEN "glob" ELSE "load"
  /\ UNCHANGED <<nodeVars, sinkVars, budgetVars, day, loaded, cursor,
                 todo, asLive, at, lim, chunk>>

\* Mutant: only the repository of today is looked into.
RecoverToday == {d \in {day} : newest[d] # NoCursor}

\* The last acknowledged position, read back from the sink.
Recoverable == {d \in Days : d <= day /\ d > day - RecoverDays /\ newest[d] # NoCursor}

\* Mutant: the walk over the days keeps the last repository it finds.
LoadOldest ==
  /\ pc = "load"
  /\ cursor' \in IF Recoverable = {} THEN {NoCursor}
                 ELSE {newest[d] : d \in {e \in Recoverable : \A c \in Recoverable : e <= c}}
  /\ loaded' = TRUE
  /\ pc' = "glob"
  /\ UNCHANGED <<nodeVars, sinkVars, cycleVars, budgetVars, day>>

LoadState ==
  /\ pc = "load"
  /\ cursor' \in IF Recoverable = {} THEN {NoCursor}
                 ELSE {newest[d] : d \in {e \in Recoverable : \A c \in Recoverable : c <= e}}
  /\ loaded' = TRUE
  /\ pc' = "glob"
  /\ UNCHANGED <<nodeVars, sinkVars, cycleVars, budgetVars, day>>

\* The sink cannot be read: "cannot tell" is not "nothing there".
LoadFails ==
  /\ pc = "load"
  /\ SpendFault
  /\ EndCycle
  /\ UNCHANGED <<nodeVars, sinkVars, day, loaded, cursor, lostAcks, crashes>>
-----------------------------------------------------------------------------
(* The list of files: the names first, then the stats of each.             *)

Glob ==
  /\ pc = "glob"
  /\ todo' = RotatedFiles
  /\ \/ LiveFiles = {} /\ asLive' = 0
     \/ asLive' \in LiveFiles
  /\ pc' = "stats"
  /\ UNCHANGED <<nodeVars, sinkVars, budgetVars, day, loaded, cursor,
                 dayNow, at, lim, chunk>>

\* The files the names of the glob stand for by the time they are looked at.
ListedLive == IF asLive = 0 THEN {} ELSE LiveFiles
\* Mutant: the pattern kube-apiserver.log misses the rotated files.
ListLive == ListedLive
Listed == (todo \cap RotatedFiles) \cup ListedLive

SetAsLive ==
  \/ ListedLive = {} /\ asLive' = 0
  \/ asLive' \in ListedLive

NoFiles ==
  /\ pc = "stats"
  /\ Listed = {}
  /\ EndCycle
  /\ UNCHANGED <<nodeVars, sinkVars, budgetVars, day, loaded, cursor>>

\* Nothing to resume: everything listed, oldest first.
StartAtOldest ==
  /\ pc = "stats"
  /\ Listed # {} /\ cursor.ino = 0
  /\ todo' = Listed /\ SetAsLive
  /\ pc' = "next"
  /\ UNCHANGED <<nodeVars, sinkVars, budgetVars, day, loaded, cursor,
                 dayNow, at, lim, chunk>>

\* The first listed file with the inode of the cursor, and what follows it.
StartAtCursor ==
  /\ pc = "stats"
  /\ cursor.ino # 0
  /\ \E f \in Listed :
       /\ ino[f] = cursor.ino
       /\ \A g \in Listed : ino[g] = cursor.ino => f <= g
       /\ todo' = {g \in Listed : f <= g}
  /\ SetAsLive
  /\ pc' = "next"
  /\ UNCHANGED <<nodeVars, sinkVars, budgetVars, day, loaded, cursor,
                 dayNow, at, lim, chunk>>

CursorFileGone ==
  /\ pc = "stats"
  /\ Listed # {} /\ cursor.ino # 0
  /\ \A f \in Listed : ino[f] # cursor.ino
  /\ todo' = Listed /\ SetAsLive
  /\ pc' = "goneGap"
  /\ UNCHANGED <<nodeVars, sinkVars, budgetVars, day, loaded, cursor,
                 dayNow, at, lim, chunk>>
-----------------------------------------------------------------------------
(* gap "file-gone": what came after the cursor in its file, and in any     *)
(* file already deleted, is lost.                                          *)

After(f, off, b) == b[1] > f \/ (b[1] = f /\ b[2] > off)
\* Mutant: the gap forgets the files deleted with the cursor's.
LostInCursorFile == {b \in Written : b[1] = cursor.file /\ b[2] > cursor.off}
\* Mutant: the gap gives up what is still on the node.
AllAfterCursor == {b \in Written : After(cursor.file, cursor.off, b)}

LostAfterCursor ==
  {b \in Written : b[1] \in GoneFiles /\ After(cursor.file, cursor.off, b)}

GapAcked ==
  /\ pc = "goneGap"
  /\ declared' = declared \cup LostAfterCursor
  /\ cursor' = NoCursor
  /\ pc' = "next"
  /\ UNCHANGED <<nodeVars, cycleVars, budgetVars, day, loaded,
                 newest, stored, repeats>>

GapLostAck ==
  /\ pc = "goneGap"
  /\ SpendLostAck
  /\ declared' = declared \cup LostAfterCursor
  /\ EndCycle
  /\ UNCHANGED <<nodeVars, day, loaded, cursor, newest, stored, repeats,
                 faults, crashes>>

GapFails ==
  /\ pc \in {"goneGap", "truncGap"}
  /\ SpendFault
  /\ EndCycle
  /\ UNCHANGED <<nodeVars, sinkVars, day, loaded, cursor, lostAcks, crashes>>
-----------------------------------------------------------------------------
(* The loop over the list.                                                 *)

NextFile ==
  /\ pc = "next"
  /\ \E f \in todo :
       /\ \A g \in todo : f <= g
       /\ todo' = todo \ {f}
       /\ at' = f
       /\ cursor' = IF ino[f] = cursor.ino THEN cursor
                    ELSE [file |-> f, ino |-> ino[f], off |-> 0, eof |-> FALSE]
  /\ lim' = Unset
  /\ pc' = "stat"
  /\ UNCHANGED <<nodeVars, sinkVars, budgetVars, day, loaded,
                 dayNow, asLive, chunk>>

CycleDone ==
  /\ pc = "next"
  /\ todo = {}
  /\ EndCycle
  /\ UNCHANGED <<nodeVars, sinkVars, budgetVars, day, loaded, cursor>>
-----------------------------------------------------------------------------
(* ship_file: one round of its loop is a stat, a read and a put.           *)

closed == at # asLive

\* The file the path of `at' names now, if it still has the listed inode.
Opened == {f \in IF closed THEN {at} \cap RotatedFiles ELSE LiveFiles : ino[f] = ino[at]}

Lesser(a, b) == IF a <= b THEN a ELSE b
\* Mutant: lim follows the file.
LimitFollows(f) == len[f]
Limit(f) == IF lim = Unset THEN len[f] ELSE lim
Size(f) == Lesser(len[f], Limit(f))

\* Gone, or renamed, under us: list again next cycle.
FileMoved ==
  /\ pc \in {"stat", "read"}
  /\ Opened = {}
  /\ EndCycle
  /\ UNCHANGED <<nodeVars, sinkVars, budgetVars, day, loaded, cursor>>

StatTruncated ==
  /\ pc = "stat"
  /\ \E f \in Opened : len[f] < cursor.off
  /\ pc' = "truncGap"
  /\ UNCHANGED <<nodeVars, sinkVars, cycleVars, budgetVars, day, loaded, cursor>>

\* Caught up, and nothing to say of it.
StatCaughtUp ==
  /\ pc = "stat"
  /\ \E f \in Opened : len[f] >= cursor.off /\ Size(f) = cursor.off
  /\ ~closed \/ cursor.eof
  /\ pc' = "next"
  /\ UNCHANGED <<nodeVars, sinkVars, cycleVars, budgetVars, day, loaded, cursor>>

\* Caught up with a rotated file whose end is not marked yet: an empty range.
StatUnmarked ==
  /\ pc = "stat"
  /\ closed /\ ~cursor.eof
  /\ \E f \in Opened :
       /\ len[f] >= cursor.off /\ Size(f) = cursor.off
       /\ chunk' = [file |-> f, ino |-> ino[f], from |-> cursor.off,
                    to |-> cursor.off, eof |-> TRUE]
       /\ lim' = Limit(f)
  /\ pc' = "put"
  /\ UNCHANGED <<nodeVars, sinkVars, budgetVars, day, loaded, cursor,
                 dayNow, todo, asLive, at>>

StatMore ==
  /\ pc = "stat"
  /\ \E f \in Opened :
       /\ Size(f) > cursor.off
       /\ lim' = Limit(f)
  /\ pc' = "read"
  /\ UNCHANGED <<nodeVars, sinkVars, budgetVars, day, loaded, cursor,
                 dayNow, todo, asLive, at, chunk>>

\* Mutant: the length asked for is taken for the length read.
ReadAsked(f) == cursor.off + MaxB

\* The end of what tail | head reads.
ReadEnd(f) == Lesser(Lesser(lim, cursor.off + MaxB), len[f])
LinesIn(f) == {i \in nl[f] : cursor.off < i /\ i <= ReadEnd(f)}

\* Mutant: a chunk is what was read.
CutAnywhere(f) == {ReadEnd(f)}
\* Mutant: the unterminated last line of a rotated file is waited for.
WaitForNewline(f) ==
  IF LinesIn(f) # {} THEN {i \in LinesIn(f) : \A j \in LinesIn(f) : j <= i}
  ELSE IF ReadEnd(f) >= cursor.off + MaxB THEN {ReadEnd(f)}
  ELSE {}

\* Where the chunk is cut: at the end of a rotated file, else after its last
\* newline, else (a line longer than a chunk) where the read ended.
ChunkEnds(f) ==
  IF closed /\ ReadEnd(f) >= lim THEN {ReadEnd(f)}
  ELSE IF LinesIn(f) # {} THEN {i \in LinesIn(f) : \A j \in LinesIn(f) : j <= i}
  ELSE IF ReadEnd(f) >= cursor.off + MaxB THEN {ReadEnd(f)}
  ELSE {}

\* Mutant: the end of the live file is taken for the end of the file.
EofAnyFile ==
  /\ pc = "read"
  /\ \E f \in Opened :
       /\ ReadEnd(f) > cursor.off
       /\ \E to \in ChunkEnds(f) :
            chunk' = [file |-> f, ino |-> ino[f], from |-> cursor.off,
                      to |-> to, eof |-> to >= lim]
  /\ pc' = "put"
  /\ UNCHANGED <<nodeVars, sinkVars, budgetVars, day, loaded, cursor,
                 dayNow, todo, asLive, at, lim>>

ReadChunk ==
  /\ pc = "read"
  /\ \E f \in Opened :
       /\ ReadEnd(f) > cursor.off
       /\ \E to \in ChunkEnds(f) :
            chunk' = [file |-> f, ino |-> ino[f], from |-> cursor.off,
                      to |-> to, eof |-> closed /\ to >= lim]
  /\ pc' = "put"
  /\ UNCHANGED <<nodeVars, sinkVars, budgetVars, day, loaded, cursor,
                 dayNow, todo, asLive, at, lim>>

\* Nothing read, or a line still being written: wait.
ReadNothing ==
  /\ pc = "read"
  /\ \E f \in Opened : ReadEnd(f) <= cursor.off \/ ChunkEnds(f) = {}
  /\ pc' = "next"
  /\ UNCHANGED <<nodeVars, sinkVars, cycleVars, budgetVars, day, loaded, cursor>>
-----------------------------------------------------------------------------
(* put, and the gap of a truncated file.                                   *)

ChunkBytes == {chunk.file} \X ((chunk.from + 1)..chunk.to)
ChunkCursor ==
  [file |-> chunk.file, ino |-> chunk.ino, off |-> chunk.to, eof |-> chunk.eof]

Store ==
  /\ newest' = [newest EXCEPT ![dayNow] = ChunkCursor]
  /\ stored' = stored \cup ChunkBytes
  /\ repeats' = IF ChunkBytes \cap stored = {} THEN repeats ELSE repeats + 1
  /\ UNCHANGED declared

PutAcked ==
  /\ pc = "put"
  /\ Store
  /\ cursor' = [ChunkCursor EXCEPT !.eof = chunk.eof \/ cursor.eof]
  /\ pc' = IF chunk.from = chunk.to THEN "next" ELSE "stat"
  /\ chunk' = NoChunk
  /\ UNCHANGED <<nodeVars, budgetVars, day, loaded,
                 dayNow, todo, asLive, at, lim>>

PutLostAck ==
  /\ pc = "put"
  /\ SpendLostAck
  /\ Store
  /\ EndCycle
  /\ UNCHANGED <<nodeVars, day, loaded, cursor, faults, crashes>>

\* Mutant: the position moves before the answer of restic.
PutFailsAdvanced ==
  /\ pc = "put"
  /\ SpendFault
  /\ cursor' = ChunkCursor
  /\ EndCycle
  /\ UNCHANGED <<nodeVars, sinkVars, day, loaded, lostAcks, crashes>>

PutFails ==
  /\ pc = "put"
  /\ SpendFault
  /\ EndCycle
  /\ UNCHANGED <<nodeVars, sinkVars, day, loaded, cursor, lostAcks, crashes>>

TruncationAcked ==
  /\ pc = "truncGap"
  /\ declared' = declared \cup
       {b \in LostAfterCursor : b[1] = cursor.file}
  /\ \E f \in IF Opened = {} THEN {at} ELSE Opened :
       cursor' = [file |-> f, ino |-> cursor.ino, off |-> 0, eof |-> cursor.eof]
  /\ lim' = Unset
  /\ pc' = "stat"
  /\ UNCHANGED <<nodeVars, budgetVars, day, loaded, newest, stored, repeats,
                 dayNow, todo, asLive, at, chunk>>

TruncationLostAck ==
  /\ pc = "truncGap"
  /\ SpendLostAck
  /\ declared' = declared \cup
       {b \in LostAfterCursor : b[1] = cursor.file}
  /\ EndCycle
  /\ UNCHANGED <<nodeVars, day, loaded, cursor, newest, stored, repeats,
                 faults, crashes>>
-----------------------------------------------------------------------------
(* The pod is restarted: no local state outlives it.                       *)

Crash ==
  /\ crashes < MaxCrashes
  /\ crashes' = crashes + 1
  /\ EndCycle
  /\ loaded' = FALSE
  /\ cursor' = NoCursor
  /\ UNCHANGED <<nodeVars, sinkVars, day, faults, lostAcks>>

\* The newest acknowledged range never gets older than MaxOutage days, nor
\* does a cycle take as long.
Midnight ==
  /\ day < MaxDay
  /\ pc # "idle" => day + 1 - dayNow <= MaxOutage
  /\ \/ \A d \in Days : newest[d] = NoCursor
     \/ \E d \in Days : newest[d] # NoCursor /\ day + 1 - d <= MaxOutage
  /\ day' = day + 1
  /\ UNCHANGED <<nodeVars, sinkVars, cycleVars, budgetVars, pc, loaded, cursor>>

Node ==
  /\ \/ CreateLive
     \/ \E newline \in BOOLEAN : Append(newline)
     \/ (RotateWhileListing \/ pc # "stats") /\ Rotate
     \/ DeleteOldest
     \/ Truncate
  /\ UNCHANGED <<sinkVars, cycleVars, budgetVars, day, pc, loaded, cursor>>

Ship ==
  \/ BeginCycle \/ LoadState \/ LoadFails
  \/ Glob \/ NoFiles \/ StartAtOldest \/ StartAtCursor \/ CursorFileGone
  \/ GapAcked \/ GapLostAck \/ GapFails
  \/ NextFile \/ CycleDone
  \/ FileMoved \/ StatTruncated \/ StatCaughtUp \/ StatUnmarked \/ StatMore
  \/ ReadChunk \/ ReadNothing
  \/ PutAcked \/ PutLostAck \/ PutFails
  \/ TruncationAcked \/ TruncationLostAck

Next == Node \/ Ship \/ Crash \/ Midnight

Spec == Init /\ [][Next]_vars

\* The loop of the script goes on: every call ends (timeout kills restic), and
\* the API server opens a live file after it renamed one.
FairSpec ==
  /\ Spec
  /\ WF_vars(Ship)
  /\ WF_vars(CreateLive /\ UNCHANGED <<sinkVars, cycleVars, budgetVars,
                                       day, pc, loaded, cursor>>)
-----------------------------------------------------------------------------
(* What the sink promises its reader (the header of ship.sh).              *)

\* The sink's history begins with the first file it holds a byte of.
InHistory(b) == \E c \in stored : c[1] <= b[1]

\* Nothing is skipped in silence: whatever was written before a position the
\* sink acknowledges is in the sink or in a gap the sink declares.  Cursor
\* recovery, the start of the list and the gap have to agree for that.
NoSilentSkip ==
  \A d \in Days : newest[d] # NoCursor =>
    \A b \in Written :
      InHistory(b) /\ ~After(newest[d].file, newest[d].off, b) => b \in stored \cup declared

\* The position in memory never runs ahead of the sink: what lies before it in
\* its file is stored, whatever put, gap, crash or recovery came before.
CursorIsAcked ==
  \A i \in 1..cursor.off : <<cursor.file, i>> \in stored

\* A gap "file-gone" is declared only of a file that is not on the node.
NoFalseGap ==
  pc = "goneGap" => cursor.file \in GoneFiles

\* A range tagged eof is the end of a file nobody writes to any more: nothing
\* after an eof is ever looked for.
EofIsFinal ==
  \A c \in {newest[d] : d \in Days} \cup {cursor} :
    c.eof => status[c.file] # "live" /\ c.off = len[c.file]

\* Whole lines only: an acknowledged range ends with a newline, or with the
\* end of a rotated file.
WholeLines ==
  \A d \in Days :
    newest[d] # NoCursor => newest[d].eof \/ newest[d].off \in nl[newest[d].file]

\* A restart repeats no range: the sink holds a byte twice only after an
\* acknowledgement was lost, one range per lost acknowledgement.
RepeatsNeedALostAck == repeats <= lostAcks

\* A cycle ships what the file held when it began: a file that keeps growing
\* while its chunks are put is not chased for ever.
CycleIsBounded ==
  [][lim # Unset /\ lim' # Unset => lim' = lim /\ chunk'.to <= lim]_vars

\* The acknowledged position only moves forward, across crashes, lost
\* acknowledgements and gaps.
NewestPosition == {c \in {newest[d] : d \in Days} :
  \A d \in Days : <<newest[d].file, newest[d].off>> # <<c.file, c.off>> =>
    \/ newest[d].file < c.file
    \/ newest[d].file = c.file /\ newest[d].off < c.off}
NeverGoesBack ==
  [][\A c \in NewestPosition, e \in NewestPosition' :
       e.file > c.file \/ (e.file = c.file /\ e.off >= c.off)]_vars

\* Every line the API server wrote is in the end in the sink, or declared
\* lost, or still on the node with its line unfinished.
Complete(b) == status[b[1]] # "live" \/ \E i \in nl[b[1]] : b[2] <= i
EventuallyAccounted ==
  <>[](\A b \in Written :
         Complete(b) /\ InHistory(b) => b \in stored \cup declared)

\* The shipper delivers what AuditDelivery promises.
Delivery == INSTANCE AuditDelivery WITH
  written <- Written, onNode <- {b \in Written : b[1] \in OnNode}
Delivers == Delivery!Spec
=============================================================================
