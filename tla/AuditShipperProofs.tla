------------------------- MODULE AuditShipperProofs -------------------------
(***************************************************************************)
(* Proofs about AuditShipper, for every number of files, bytes, days and   *)
(* faults: its type invariant, what its position means, and what the sink  *)
(* promises its reader.  A position never runs ahead of the sink and only  *)
(* moves forward, an end-of-file mark stays the end of the file, a gap is  *)
(* declared of a file that is gone, nothing is skipped in silence, a cycle *)
(* is bounded, a range is repeated for a lost answer only, ranges end with *)
(* whole lines, and the shipper implements AuditDelivery.                  *)
(*                                                                         *)
(* A position means something as long as the inode in it names one file    *)
(* (Steady).  PlaceInv says of the position in memory and of the positions *)
(* in the sink what the sink holds below them; WorkInv says where a cycle  *)
(* stands: which files it listed, that the file under way is the one of    *)
(* the position, and what the range to be put begins and ends with.        *)
(*                                                                         *)
(* DaysInv says that the positions in the sink are ordered as their days   *)
(* are, and that a recovery looks far enough back to find the last one.    *)
(* OrderInv says where the position in memory is beside those: it may be   *)
(* behind one whose answer was lost, and then the next range reaches it.   *)
(* ListedInv says that what a cycle lists has no hole, and SkipInv that    *)
(* what lies before a position, or before the list, is accounted for.      *)
(***************************************************************************)
EXTENDS AuditShipper, TLAPS, WellFoundedInduction

\* A range about to be put is a range of some file.
ChunkNamed == pc = "put" => chunk.file \in Files

TypeInv == TypeOK /\ ChunkNamed

LEMMA NothingTyped == NoCursor \in Cursors /\ NoChunk \in Chunks
  BY FilesAssumption DEF NoCursor, Cursors, NoChunk, Chunks

LEMMA FilesTyped == Files \subseteq 0..MaxFiles /\ 0 \in 0..MaxFiles
  BY FilesAssumption DEF Files

\* Of the files listed, one may have the name of the live file.
LEMMA ListTyped ==
  /\ LiveFiles \subseteq Files /\ RotatedFiles \subseteq Files
  /\ Listed \subseteq Files
  /\ SetAsLive => asLive' \in 0..MaxFiles
  <1>1. LiveFiles \subseteq Files /\ RotatedFiles \subseteq Files
    BY DEF LiveFiles, RotatedFiles
  <1>2. ListedLive \subseteq Files
    BY <1>1 DEF ListedLive
  <1>3. SetAsLive => asLive' \in 0..MaxFiles
    BY <1>2, FilesTyped DEF SetAsLive
  <1>4. Listed \subseteq Files
    BY <1>1, <1>2 DEF Listed
  <1>. QED  BY <1>1, <1>3, <1>4

LEMMA TypeInit == Init => TypeInv
  <1> SUFFICES ASSUME Init PROVE TypeInv
    OBVIOUS
  <1> USE FilesAssumption, ShipperAssumption
  <1>1. LogTypeOK
    BY DEF Init, LogInit, LogTypeOK
  <1>2. newest \in [Days -> Cursors] /\ day \in Days /\ dayNow \in Days
    BY NothingTyped DEF Init, Days
  <1>3. cursor \in Cursors /\ chunk \in Chunks
    BY NothingTyped DEF Init
  <1>4. /\ stored \subseteq Files \X (1..MaxLen)
        /\ declared \subseteq Files \X (1..MaxLen)
        /\ todo \subseteq Files
    BY DEF Init
  <1>5. asLive \in 0..MaxFiles /\ at \in 0..MaxFiles /\ repeats \in Nat
    BY DEF Init
  <1>6. lim \in {Unset} \cup 0..MaxLen
    BY DEF Init
  <1>7. /\ faults \in 0..MaxFaults /\ lostAcks \in 0..MaxLostAcks
        /\ crashes \in 0..MaxCrashes
    BY DEF Init
  <1>8. pc \in Calls /\ loaded \in BOOLEAN /\ ChunkNamed
    BY DEF Init, ChunkNamed, Calls
  <1>. QED
    BY <1>1, <1>2, <1>3, <1>4, <1>5, <1>6, <1>7, <1>8 DEF TypeInv, TypeOK

\* The end of a cycle gives the cycle's variables values of their type.
LEMMA TypeEndCycle ==
  ASSUME EndCycle
  PROVE  /\ pc' \in Calls /\ pc' # "put"
         /\ dayNow' \in Days /\ todo' \subseteq Files
         /\ asLive' \in 0..MaxFiles /\ at' \in 0..MaxFiles
         /\ lim' \in {Unset} \cup 0..MaxLen /\ chunk' \in Chunks
  BY FilesAssumption, ShipperAssumption
     DEF EndCycle, Calls, Days, Files, Unset, NoChunk, Chunks

LEMMA TypeNode == TypeInv /\ Node => TypeInv'
  <1> SUFFICES ASSUME TypeInv, Node PROVE TypeInv'
    OBVIOUS
  <1>1. UNCHANGED <<sinkVars, cycleVars, budgetVars, day, pc, loaded, cursor>>
    BY DEF Node
  <1>2. LogTypeOK'
    <2> USE FilesAssumption DEF LogTypeOK, Files, TypeInv, TypeOK
    <2>1. CASE CreateLive
      <3>1. PICK f \in Files :
              /\ status' = [status EXCEPT ![f] = "live"]
              /\ \E i \in FreeInodes(f) : ino' = [ino EXCEPT ![f] = i]
        BY <2>1 DEF CreateLive
      <3>2. FreeInodes(f) \subseteq 0..MaxFiles
        BY DEF FreeInodes, GoneFiles
      <3>3. status' \in [Files -> {"unborn", "live", "rotated", "gone"}]
        BY <3>1
      <3>4. ino' \in [Files -> 0..MaxFiles]
        BY <3>1, <3>2
      <3>. QED  BY <2>1, <3>3, <3>4 DEF CreateLive
    <2>2. CASE \E newline \in BOOLEAN : Append(newline)
      <3>1. PICK newline \in BOOLEAN : Append(newline)
        BY <2>2
      <3>2. PICK f \in LiveFiles :
              /\ len[f] < MaxLen
              /\ len' = [len EXCEPT ![f] = @ + 1]
              /\ nl' = [nl EXCEPT ![f] =
                         IF newline THEN @ \cup {len[f] + 1} ELSE @]
              /\ UNCHANGED <<status, ino>>
        BY <3>1 DEF Append
      <3>3. f \in Files /\ len[f] + 1 \in 1..MaxLen
        BY <3>2 DEF LiveFiles
      <3>4. len' \in [Files -> 0..MaxLen]
        BY <3>2, <3>3
      <3>5. nl' \in [Files -> SUBSET (1..MaxLen)]
        BY <3>2, <3>3
      <3>. QED  BY <3>2, <3>4, <3>5
    <2>3. CASE Rotate
      BY <2>3 DEF Rotate, LiveFiles
    <2>4. CASE DeleteOldest
      BY <2>4 DEF DeleteOldest, RotatedFiles
    <2>5. CASE Truncate
      BY <2>5 DEF Truncate, LiveFiles
    <2>. QED  BY <2>1, <2>2, <2>3, <2>4, <2>5 DEF Node
  <1>. QED
    BY <1>1, <1>2 DEF TypeInv, TypeOK, ChunkNamed, sinkVars, cycleVars,
                      budgetVars, Files

LEMMA TypeList ==
  ASSUME TypeInv,
         BeginCycle \/ LoadState \/ LoadFails \/ Glob \/ NoFiles
           \/ StartAtOldest \/ StartAtCursor \/ CursorFileGone
           \/ NextFile \/ CycleDone
  PROVE  TypeInv'
  <1> USE FilesAssumption, ShipperAssumption
      DEF TypeInv, TypeOK, LogTypeOK, ChunkNamed, nodeVars, sinkVars,
          cycleVars, budgetVars, Calls, Files
  <1>1. CASE BeginCycle  BY <1>1 DEF BeginCycle
  <1>2. CASE LoadState
    <2>1. cursor' \in Cursors
      <3>1. \A d \in Recoverable : newest[d] \in Cursors
        BY DEF Recoverable
      <3>. QED  BY <1>2, <3>1, NothingTyped DEF LoadState
    <2>. QED  BY <1>2, <2>1 DEF LoadState
  <1>3. CASE LoadFails  BY <1>3, TypeEndCycle DEF LoadFails, SpendFault
  <1>4. CASE Glob
    <2>1. todo' \subseteq Files
      BY <1>4, ListTyped DEF Glob
    <2>2. asLive' \in 0..MaxFiles
      BY <1>4, ListTyped, FilesTyped DEF Glob
    <2>. QED  BY <1>4, <2>1, <2>2 DEF Glob
  <1>5. CASE NoFiles  BY <1>5, TypeEndCycle DEF NoFiles
  <1>6. CASE StartAtOldest  BY ListTyped, <1>6 DEF StartAtOldest
  <1>7. CASE StartAtCursor  BY ListTyped, <1>7 DEF StartAtCursor
  <1>8. CASE CursorFileGone  BY ListTyped, <1>8 DEF CursorFileGone
  <1>9. CASE NextFile
    <2>1. PICK f \in todo :
            /\ todo' = todo \ {f} /\ at' = f
            /\ cursor' = IF ino[f] = cursor.ino THEN cursor
                         ELSE [file |-> f, ino |-> ino[f], off |-> 0, eof |-> FALSE]
      BY <1>9 DEF NextFile
    <2>2. f \in Files /\ f \in 0..MaxFiles /\ ino[f] \in 0..MaxFiles
      BY <2>1
    <2>3. [file |-> f, ino |-> ino[f], off |-> 0, eof |-> FALSE] \in Cursors
      BY <2>2 DEF Cursors
    <2>4. cursor' \in Cursors
      BY <2>1, <2>3
    <2>. QED  BY <1>9, <2>1, <2>2, <2>4 DEF NextFile, Unset
  <1>10. CASE CycleDone  BY <1>10, TypeEndCycle DEF CycleDone
  <1>. QED
    BY <1>1, <1>2, <1>3, <1>4, <1>5, <1>6, <1>7, <1>8, <1>9, <1>10

LEMMA TypeFile ==
  ASSUME TypeInv,
         FileMoved \/ StatTruncated \/ StatCaughtUp \/ StatUnmarked
           \/ StatMore \/ ReadChunk \/ ReadNothing
  PROVE  TypeInv'
  <1> USE FilesAssumption, ShipperAssumption
      DEF TypeInv, TypeOK, LogTypeOK, ChunkNamed, nodeVars, sinkVars,
          cycleVars, budgetVars, Calls
  <1>1. Opened \subseteq Files
    BY DEF Opened, RotatedFiles, LiveFiles
  <1>2. ASSUME NEW f \in Opened PROVE Limit(f) \in {Unset} \cup 0..MaxLen
    BY <1>1 DEF Limit
  <1>3. cursor.off \in 0..MaxLen
    BY DEF Cursors
  <1>4. CASE FileMoved  BY <1>4, TypeEndCycle DEF FileMoved
  <1>5. CASE StatTruncated  BY <1>5 DEF StatTruncated
  <1>6. CASE StatCaughtUp  BY <1>6 DEF StatCaughtUp
  <1>7. CASE StatUnmarked
    <2>1. PICK f \in Opened :
            /\ chunk' = [file |-> f, ino |-> ino[f], from |-> cursor.off,
                         to |-> cursor.off, eof |-> TRUE]
            /\ lim' = Limit(f)
      BY <1>7 DEF StatUnmarked
    <2>2. chunk' \in Chunks /\ chunk'.file \in Files
      BY <2>1, <1>1, <1>3 DEF Chunks, Files
    <2>. QED  BY <1>7, <2>1, <2>2, <1>2 DEF StatUnmarked
  <1>8. CASE StatMore
    <2>1. PICK f \in Opened : lim' = Limit(f)
      BY <1>8 DEF StatMore
    <2>. QED  BY <1>8, <2>1, <1>2 DEF StatMore
  <1>9. CASE ReadChunk
    <2>1. PICK f \in Opened :
            /\ ReadEnd(f) > cursor.off
            /\ \E to \in ChunkEnds(f) :
                 chunk' = [file |-> f, ino |-> ino[f], from |-> cursor.off,
                           to |-> to, eof |-> closed /\ to >= lim]
      BY <1>9 DEF ReadChunk
    <2>2. ReadEnd(f) \in 0..MaxLen
      <3>1. len[f] \in 0..MaxLen /\ lim \in Int /\ cursor.off + MaxB \in Int
        BY <1>1, <1>3 DEF Unset
      <3>. QED  BY <3>1, <2>1, <1>3 DEF ReadEnd, Lesser
    <2>3. ChunkEnds(f) \subseteq 0..MaxLen
      BY <2>2, <1>1 DEF ChunkEnds, LinesIn
    <2>4. chunk' \in Chunks /\ chunk'.file \in Files
      BY <2>1, <2>3, <1>1, <1>3 DEF Chunks, Files, closed
    <2>. QED  BY <1>9, <2>4 DEF ReadChunk
  <1>10. CASE ReadNothing  BY <1>10 DEF ReadNothing
  <1>. QED  BY <1>4, <1>5, <1>6, <1>7, <1>8, <1>9, <1>10

LEMMA TypeSink ==
  ASSUME TypeInv,
         PutAcked \/ PutLostAck \/ PutFails \/ GapAcked \/ GapLostAck
           \/ GapFails \/ TruncationAcked \/ TruncationLostAck
  PROVE  TypeInv'
  <1> USE FilesAssumption, ShipperAssumption
      DEF TypeInv, TypeOK, LogTypeOK, ChunkNamed, nodeVars, sinkVars,
          cycleVars, budgetVars, Calls
  <1>1. ChunkCursor \in Cursors
    BY DEF ChunkCursor, Chunks, Cursors
  <1>2. pc = "put" => ChunkBytes \subseteq Files \X (1..MaxLen)
    BY DEF ChunkBytes, Chunks
  <1>3. ASSUME pc = "put", Store
        PROVE /\ newest' \in [Days -> Cursors]
              /\ stored' \subseteq Files \X (1..MaxLen)
              /\ declared' \subseteq Files \X (1..MaxLen)
              /\ repeats' \in Nat
    BY <1>1, <1>2, <1>3 DEF Store
  <1>4. LostAfterCursor \subseteq Files \X (1..MaxLen)
    BY DEF LostAfterCursor, Written
  <1>5. CASE PutAcked
    <2>1. cursor' \in Cursors
      BY <1>1, <1>5 DEF PutAcked, Cursors, Chunks
    <2>2. chunk' \in Chunks
      BY <1>5 DEF PutAcked, NoChunk, Chunks
    <2>3. /\ newest' \in [Days -> Cursors]
          /\ stored' \subseteq Files \X (1..MaxLen)
          /\ declared' \subseteq Files \X (1..MaxLen)
          /\ repeats' \in Nat
      BY <1>3, <1>5 DEF PutAcked
    <2>. QED  BY <1>5, <2>1, <2>2, <2>3 DEF PutAcked
  <1>6. CASE PutLostAck
    BY <1>3, <1>6, TypeEndCycle DEF PutLostAck, SpendLostAck
  <1>7. CASE PutFails  BY <1>7, TypeEndCycle DEF PutFails, SpendFault
  <1>8. CASE GapAcked  BY <1>4, <1>8, NothingTyped DEF GapAcked
  <1>9. CASE GapLostAck
    BY <1>4, <1>9, TypeEndCycle DEF GapLostAck, SpendLostAck
  <1>10. CASE GapFails  BY <1>10, TypeEndCycle DEF GapFails, SpendFault
  <1>11. CASE TruncationAcked
    <2>1. PICK f \in IF Opened = {} THEN {at} ELSE Opened :
            cursor' = [file |-> f, ino |-> cursor.ino, off |-> 0, eof |-> cursor.eof]
      BY <1>11 DEF TruncationAcked
    <2>2. f \in 0..MaxFiles
      BY <2>1 DEF Opened, RotatedFiles, LiveFiles, Files
    <2>3. cursor' \in Cursors
      BY <2>1, <2>2 DEF Cursors
    <2>4. declared' \subseteq Files \X (1..MaxLen)
      BY <1>4, <1>11 DEF TruncationAcked
    <2>. QED  BY <1>11, <2>3, <2>4 DEF TruncationAcked
  <1>12. CASE TruncationLostAck
    BY <1>4, <1>12, TypeEndCycle DEF TruncationLostAck, SpendLostAck
  <1>. QED
    BY <1>5, <1>6, <1>7, <1>8, <1>9, <1>10, <1>11, <1>12

LEMMA TypeRest ==
  ASSUME TypeInv, Crash \/ Midnight \/ UNCHANGED vars
  PROVE  TypeInv'
  <1> USE FilesAssumption, ShipperAssumption
      DEF TypeInv, TypeOK, LogTypeOK, ChunkNamed, nodeVars, sinkVars,
          cycleVars, budgetVars, Calls
  <1>1. CASE Crash
    <2>1. cursor' \in Cursors /\ loaded' \in BOOLEAN
      BY <1>1, NothingTyped DEF Crash
    <2>3. crashes' \in 0..MaxCrashes
      BY <1>1 DEF Crash
    <2>2. LogTypeOK'
      BY <1>1 DEF Crash
    <2>. QED  BY <1>1, <2>1, <2>2, <2>3, TypeEndCycle DEF Crash
  <1>2. CASE Midnight  BY <1>2 DEF Midnight, Days
  <1>3. CASE UNCHANGED vars  BY <1>3 DEF vars
  <1>. QED  BY <1>1, <1>2, <1>3

\* Every variable of the node, of the sink and of the script keeps its type:
\* in particular a range never ends beyond its file, and a put always names
\* a file.
THEOREM TypeCorrect == Spec => []TypeOK
  <1>1. TypeInv /\ [Next]_vars => TypeInv'
    BY TypeNode, TypeList, TypeFile, TypeSink, TypeRest DEF Next, Ship
  <1>2. TypeInv => TypeOK
    BY DEF TypeInv
  <1>. QED  BY <1>1, <1>2, TypeInit, PTL DEF Spec

-----------------------------------------------------------------------------
(* What a position means.                                                  *)

\* The audit directory is rotated by rename, inodes in a position are not used
\* again, and no rename falls into the listing.
Steady == ~Truncates /\ ~ReuseInodes /\ ~RotateWhileListing

Old == {"rotated", "gone"}

\* An inode is the number of its file, and files age in the order they were
\* created in.
NodeInv ==
  /\ \A f \in Files : ino[f] = IF status[f] = "unborn" THEN 0 ELSE f
  /\ \A f, g \in Files : f < g /\ status[g] # "unborn" => status[f] \in Old
  /\ \A f, g \in Files : f < g /\ status[g] = "gone" => status[f] = "gone"

\* Position c, in the files of status S and length L, with bytes T in the sink.
Place(c, S, L, T) ==
  /\ c.ino = c.file
  /\ c.file = 0 => c.off = 0 /\ ~c.eof
  /\ c.file # 0 => S[c.file] # "unborn" /\ c.off <= L[c.file]
  /\ c.eof => S[c.file] \in Old /\ c.off = L[c.file]
  /\ \A i \in 1..c.off : <<c.file, i>> \in T

PlaceInv ==
  /\ Place(cursor, status, len, stored)
  /\ \A d \in Days : Place(newest[d], status, len, stored)

\* Once listed, a file is the one listed as live or one nobody writes to.
ListInv ==
  /\ pc \in {"goneGap", "next", "stat", "read", "put"} =>
       \A f \in todo : status[f] # "unborn" /\ (f # asLive => status[f] \in Old)
  /\ pc = "stats" /\ cursor.file # 0 =>
       \/ status[cursor.file] = "gone"
       \/ status[cursor.file] = "rotated" /\ cursor.file \in todo
       \/ status[cursor.file] = "live" /\ asLive # 0
  /\ pc = "goneGap" => cursor.file # 0 /\ status[cursor.file] = "gone"

\* The file under way.
FileInv ==
  /\ pc # "truncGap"
  /\ pc \in {"stat", "read", "put"} =>
       /\ at \in Files /\ cursor.file = at /\ status[at] # "unborn"
       /\ closed => status[at] \in Old /\ (lim # Unset => lim = len[at])
  /\ pc = "read" => lim # Unset
  /\ pc = "put" =>
       /\ chunk.file = at /\ chunk.ino = at /\ chunk.from = cursor.off
       /\ chunk.from <= chunk.to /\ chunk.to <= len[at]
       /\ chunk.eof => status[at] \in Old /\ chunk.to = len[at]

WorkInv == ListInv /\ FileInv

PositionInv == NodeInv /\ PlaceInv /\ WorkInv

LEMMA PositionInit == Init => PositionInv
BY DEF Init, LogInit, PositionInv, NodeInv, PlaceInv, Place, WorkInv, ListInv, FileInv,
       NoCursor, Days, Files

\* How the files age: nobody writes to a file that was renamed, and no file is
\* shortened.
Ages(S, L, S2, L2) ==
  \A f \in Files :
    /\ S[f] # "unborn" => S2[f] # "unborn"
    /\ S[f] \in Old => S2[f] \in Old /\ L2[f] = L[f]
    /\ L[f] \in Nat /\ L2[f] \in Nat /\ L[f] <= L2[f]

\* A position that means something keeps its meaning.
LEMMA PlaceKept ==
  ASSUME NEW S, NEW L, NEW S2, NEW L2, NEW T, NEW T2,
         Ages(S, L, S2, L2), T \subseteq T2,
         NEW c \in Cursors, Place(c, S, L, T)
  PROVE  Place(c, S2, L2, T2)
<1>1. c.file = 0 \/ c.file \in Files
  BY FilesAssumption DEF Cursors, Files
<1>2. c.off \in Nat
  BY FilesAssumption DEF Cursors
<1>3. CASE c.file = 0
  BY <1>3 DEF Place
<1>4. CASE c.file \in Files
  BY <1>2, <1>4 DEF Place, Ages
<1>5. QED
  BY <1>1, <1>3, <1>4

-----------------------------------------------------------------------------
(* The API server.                                                         *)

LEMMA NodeStep ==
  ASSUME Steady, TypeInv, NodeInv, Node
  PROVE  /\ NodeInv' /\ Ages(status, len, status', len')
         /\ pc = "stats" => \A g \in Files : status[g] = "live" => status'[g] = "live"
<1> USE FilesAssumption DEF TypeInv, TypeOK, LogTypeOK
<1> DEFINE Stays == \A g \in Files : status[g] = "live" => status'[g] = "live"
<1>2. CASE CreateLive
  <2>1. PICK f \in Files :
          /\ NextUnborn(f) /\ LiveFiles = {}
          /\ status' = [status EXCEPT ![f] = "live"]
          /\ \E i \in FreeInodes(f) : ino' = [ino EXCEPT ![f] = i]
          /\ len' = len
    BY <1>2 DEF CreateLive
  <2>2. ino' = [ino EXCEPT ![f] = f]
    BY <2>1 DEF FreeInodes, Steady
  <2>3. \A g \in Files : g < f => status[g] \in Old
    BY <2>1 DEF NextUnborn, LiveFiles, Old
  <2>4. \A g \in Files : f < g => status[g] = "unborn"
    BY <2>1 DEF NodeInv, NextUnborn, Old
  <2>5. NodeInv'
    BY <2>1, <2>2, <2>3, <2>4 DEF NodeInv, NextUnborn, Old, Files
  <2>6. Ages(status, len, status', len')
    BY <2>1 DEF Ages, NextUnborn, Old
  <2>7. QED
    BY <2>1, <2>5, <2>6 DEF LiveFiles
<1>3. ASSUME NEW newline \in BOOLEAN, Append(newline)
      PROVE  NodeInv' /\ Ages(status, len, status', len') /\ Stays
  <2>1. PICK f \in LiveFiles :
          /\ len[f] < MaxLen /\ len' = [len EXCEPT ![f] = @ + 1] /\ status' = status /\ ino' = ino
    BY <1>3 DEF Append
  <2>2. f \in Files /\ status[f] = "live"
    BY <2>1 DEF LiveFiles
  <2>3. Ages(status, len, status', len')
    BY <2>1, <2>2 DEF Ages, Old
  <2>4. ~Rotate
    BY <2>1, <2>2 DEF Rotate, LiveFiles
  <2>5. QED
    BY <2>1, <2>3, <2>4 DEF NodeInv
<1>4. CASE Rotate /\ pc # "stats"
  <2>1. PICK f \in Files : status[f] = "live" /\ status' = [status EXCEPT ![f] = "rotated"]
    BY <1>4 DEF Rotate, LiveFiles
  <2>2. len' = len /\ ino' = ino
    BY <1>4 DEF Rotate
  <2>3. QED
    BY <1>4, <2>1, <2>2 DEF NodeInv, Ages, Old
<1>5. CASE DeleteOldest
  <2>1. PICK f \in Files :
          /\ status[f] = "rotated" /\ status' = [status EXCEPT ![f] = "gone"]
          /\ \A g \in Files : status[g] = "rotated" => f <= g
    BY <1>5 DEF DeleteOldest, RotatedFiles
  <2>2. len' = len /\ ino' = ino
    BY <1>5 DEF DeleteOldest
  <2>3. \A g \in Files : g < f => status[g] = "gone"
    BY <2>1 DEF NodeInv, Old, Files
  <2>4. NodeInv' /\ Ages(status, len, status', len') /\ Stays
    BY <2>1, <2>2, <2>3 DEF NodeInv, Ages, Old
  <2>5. QED
    BY <2>4
<1>6. ~Truncate
  BY DEF Truncate, Steady
<1>7. QED
  BY <1>2, <1>3, <1>4, <1>5, <1>6 DEF Node, Steady

LEMMA NoAging == LogTypeOK => Ages(status, len, status, len)
BY FilesAssumption DEF LogTypeOK, Ages

\* The positions that stay keep their meaning, and there is none at the start
\* of a recovery.
LEMMA PlacesKept ==
  ASSUME TypeInv, PlaceInv, Ages(status, len, status', len'), stored \subseteq stored',
         newest' = newest,
         cursor' = cursor \/ cursor' = NoCursor \/ \E d \in Days : cursor' = newest[d]
  PROVE  PlaceInv'
<1>1. cursor \in Cursors /\ \A d \in Days : newest[d] \in Cursors
  BY DEF TypeInv, TypeOK
<1>2. \A d \in Days : Place(newest[d], status', len', stored')
  BY <1>1, PlaceKept DEF PlaceInv
<1>3. Place(cursor, status', len', stored')
  BY <1>1, PlaceKept DEF PlaceInv
<1>4. Place(NoCursor, status', len', stored')
  BY DEF Place, NoCursor
<1>5. QED
  BY <1>2, <1>3, <1>4 DEF PlaceInv

LEMMA PositionNode ==
  ASSUME Steady, TypeInv, PositionInv, Node
  PROVE  PositionInv'
<1>1. UNCHANGED <<sinkVars, cycleVars, budgetVars, day, pc, loaded, cursor>>
  BY DEF Node
<1>2. /\ NodeInv' /\ Ages(status, len, status', len')
      /\ pc = "stats" => \A g \in Files : status[g] = "live" => status'[g] = "live"
  BY NodeStep DEF PositionInv
<1>3. PlaceInv'
  BY <1>1, <1>2, PlacesKept DEF PositionInv, sinkVars
<1>4. ListInv'
  <2>1. cursor.file \in 0..MaxFiles /\ todo \subseteq Files
    BY DEF TypeInv, TypeOK, Cursors
  <2>2. cursor.file # 0 => cursor.file \in Files
    BY <2>1, FilesAssumption DEF Files
  <2>3. \A f \in Files : status[f] = "gone" => status'[f] = "gone"
    BY <1>2, FilesAssumption DEF NodeInv, Node, CreateLive, Append, Rotate, DeleteOldest, Truncate,
       NextUnborn, LiveFiles, RotatedFiles, Steady, PositionInv, TypeInv, TypeOK, LogTypeOK
  <2>4. QED
    BY <1>1, <1>2, <2>1, <2>2, <2>3
    DEF PositionInv, WorkInv, ListInv, Ages, Old, cycleVars, TypeInv, TypeOK, LogTypeOK
<1>5. FileInv'
  BY <1>1, <1>2 DEF PositionInv, WorkInv, FileInv, Ages, Old, cycleVars, closed, TypeInv, TypeOK,
     LogTypeOK, Chunks
<1>6. QED
  BY <1>2, <1>3, <1>4, <1>5 DEF PositionInv, WorkInv

-----------------------------------------------------------------------------
(* Steps of the script.  A cycle that ends leaves nothing under way.       *)

LEMMA CycleEnds == EndCycle => WorkInv'
BY DEF EndCycle, WorkInv, ListInv, FileInv

\* A step that leaves the files and the sink alone.
LEMMA Ashore ==
  ASSUME TypeInv, PositionInv, UNCHANGED <<nodeVars, newest, stored>>,
         cursor' = cursor \/ cursor' = NoCursor \/ \E d \in Days : cursor' = newest[d]
  PROVE  NodeInv' /\ PlaceInv'
<1>1. Ages(status, len, status', len') /\ stored \subseteq stored' /\ newest' = newest
  BY NoAging DEF nodeVars, TypeInv, TypeOK
<1>2. QED
  BY <1>1, PlacesKept DEF PositionInv, NodeInv, nodeVars

\* Steps of the listing.
LEMMA PositionList ==
  ASSUME TypeInv, PositionInv,
         \/ BeginCycle \/ LoadState \/ LoadFails \/ Glob \/ NoFiles
         \/ StartAtOldest \/ StartAtCursor \/ CursorFileGone \/ CycleDone
  PROVE  PositionInv'
<1>1. NodeInv' /\ PlaceInv'
  <2>1. UNCHANGED <<nodeVars, newest, stored>>
    BY DEF BeginCycle, LoadState, LoadFails, Glob, NoFiles, StartAtOldest, StartAtCursor,
       CursorFileGone, CycleDone, sinkVars
  <2>2. cursor' = cursor \/ cursor' = NoCursor \/ \E d \in Days : cursor' = newest[d]
    BY DEF BeginCycle, LoadState, LoadFails, Glob, NoFiles, StartAtOldest, StartAtCursor,
       CursorFileGone, CycleDone, Recoverable
  <2>3. QED
    BY <2>1, <2>2, Ashore
<1>2. CASE BeginCycle \/ LoadState
  BY <1>1, <1>2 DEF BeginCycle, LoadState, PositionInv, WorkInv, ListInv, FileInv
<1>3. CASE LoadFails \/ NoFiles \/ CycleDone
  BY <1>1, <1>3, CycleEnds DEF LoadFails, NoFiles, CycleDone, PositionInv
<1>4. CASE Glob
  <2>1. cursor.file # 0 => cursor.file \in Files /\ status[cursor.file] # "unborn"
    BY FilesAssumption DEF PositionInv, PlaceInv, Place, TypeInv, TypeOK, Cursors, Files
  <2>2. ListInv'
    <3> SUFFICES ASSUME cursor.file # 0
                 PROVE  \/ status[cursor.file] = "gone"
                        \/ status[cursor.file] = "rotated" /\ cursor.file \in todo'
                        \/ status[cursor.file] = "live" /\ asLive' # 0
      BY <1>4 DEF Glob, ListInv, nodeVars
    <3>1. todo' = RotatedFiles /\ (LiveFiles # {} => asLive' \in LiveFiles)
      BY <1>4 DEF Glob
    <3>2. 0 \notin LiveFiles
      BY FilesAssumption DEF LiveFiles, Files
    <3>3. QED
      BY <2>1, <3>1, <3>2 DEF RotatedFiles, LiveFiles, TypeInv, TypeOK, LogTypeOK
  <2>3. FileInv'
    BY <1>4 DEF Glob, FileInv
  <2>4. QED
    BY <1>1, <2>2, <2>3 DEF PositionInv, WorkInv
<1>5. CASE StartAtOldest \/ StartAtCursor \/ CursorFileGone
  <2>1. todo' \subseteq Listed /\ SetAsLive /\ UNCHANGED <<nodeVars, cursor>> /\ pc = "stats"
    BY <1>5 DEF StartAtOldest, StartAtCursor, CursorFileGone
  <2>2. pc' = "next" \/ (pc' = "goneGap" /\ CursorFileGone)
    BY <1>5 DEF StartAtOldest, StartAtCursor, CursorFileGone
  <2>3. \A f \in todo' : status[f] # "unborn" /\ (f # asLive' => status[f] \in Old)
    <3>1. \A f \in Listed : status[f] = "rotated" \/ (status[f] = "live" /\ f \in ListedLive)
      BY DEF Listed, ListedLive, RotatedFiles, LiveFiles
    <3>2. \A f, g \in ListedLive : f = g
      <4>1. \A f, g \in Files : status[f] = "live" /\ status[g] = "live" => ~(f < g)
        BY DEF PositionInv, NodeInv, Old
      <4>2. QED
        BY <4>1, FilesAssumption DEF ListedLive, LiveFiles, Files
    <3>3. QED
      BY <2>1, <3>1, <3>2 DEF SetAsLive, Old
  <2>4. CursorFileGone => cursor.file # 0 /\ status[cursor.file] = "gone"
    <3> SUFFICES ASSUME CursorFileGone PROVE cursor.file # 0 /\ status[cursor.file] = "gone"
      OBVIOUS
    <3>1. cursor.ino # 0 /\ cursor.ino = cursor.file /\ \A f \in Listed : ino[f] # cursor.ino
      BY DEF CursorFileGone, PositionInv, PlaceInv, Place
    <3>2. cursor.file \in Files /\ status[cursor.file] # "unborn" /\ ino[cursor.file] = cursor.file
      BY <3>1, FilesAssumption DEF PositionInv, PlaceInv, Place, NodeInv, TypeInv, TypeOK, Cursors, Files
    <3>3. cursor.file \notin Listed
      BY <3>1, <3>2
    <3>4. QED
      BY <2>1, <3>1, <3>2, <3>3
      DEF PositionInv, WorkInv, ListInv, Listed, ListedLive, RotatedFiles, LiveFiles
  <2>5. ListInv'
    BY <2>1, <2>2, <2>3, <2>4 DEF ListInv, nodeVars
  <2>6. FileInv'
    BY <2>2 DEF FileInv
  <2>7. QED
    BY <1>1, <2>5, <2>6 DEF PositionInv, WorkInv
<1>6. QED
  BY <1>1, <1>2, <1>3, <1>4, <1>5 DEF PositionInv

\* The next file of the list.
LEMMA PositionNext ==
  ASSUME TypeInv, PositionInv, NextFile
  PROVE  PositionInv'
<1>1. PICK f \in todo :
        /\ todo' = todo \ {f} /\ at' = f
        /\ cursor' = IF ino[f] = cursor.ino THEN cursor
                     ELSE [file |-> f, ino |-> ino[f], off |-> 0, eof |-> FALSE]
  BY DEF NextFile
<1>2. /\ pc = "next" /\ pc' = "stat" /\ lim' = Unset
      /\ UNCHANGED <<nodeVars, newest, stored, asLive>>
  BY DEF NextFile, sinkVars
<1>3. /\ f \in Files /\ f # 0 /\ status[f] # "unborn" /\ ino[f] = f
      /\ f # asLive => status[f] \in Old
  BY <1>1, <1>2, FilesAssumption
  DEF PositionInv, WorkInv, ListInv, NodeInv, TypeInv, TypeOK, Files
<1>4. len[f] \in Nat
  BY <1>3, FilesAssumption DEF TypeInv, TypeOK, LogTypeOK
<1>5. cursor'.file = f
  BY <1>1, <1>3 DEF PositionInv, PlaceInv, Place
<1>6. Place(cursor', status, len, stored)
  <2>1. CASE ino[f] = cursor.ino
    BY <1>1, <2>1 DEF PositionInv, PlaceInv
  <2>2. CASE ino[f] # cursor.ino
    <3>1. cursor' = [file |-> f, ino |-> f, off |-> 0, eof |-> FALSE]
      BY <1>1, <1>3, <2>2
    <3>2. QED
      BY <1>3, <1>4, <3>1 DEF Place
  <2>3. QED
    BY <2>1, <2>2
<1>7. NodeInv' /\ PlaceInv'
  BY <1>2, <1>6 DEF PositionInv, NodeInv, PlaceInv, nodeVars
<1>8. WorkInv'
  BY <1>1, <1>2, <1>3, <1>5 DEF PositionInv, WorkInv, ListInv, FileInv, closed, nodeVars
<1>9. QED
  BY <1>7, <1>8 DEF PositionInv

\* Between a stat and a put the files and the sink are left alone.
LEMMA PositionFile ==
  ASSUME TypeInv, PositionInv,
         \/ FileMoved \/ StatTruncated \/ StatCaughtUp \/ StatUnmarked \/ StatMore
         \/ ReadChunk \/ ReadNothing
  PROVE  PositionInv'
<1> USE FilesAssumption, ShipperAssumption
<1>1. UNCHANGED <<nodeVars, newest, stored, cursor>>
  BY DEF FileMoved, StatTruncated, StatCaughtUp, StatUnmarked, StatMore, ReadChunk, ReadNothing,
     sinkVars
<1>2. NodeInv' /\ PlaceInv'
  BY <1>1, Ashore
<1>3. CASE FileMoved
  BY <1>2, <1>3, CycleEnds DEF FileMoved, PositionInv
<1>4. SUFFICES ASSUME ~FileMoved PROVE WorkInv'
  BY <1>2, <1>3 DEF PositionInv
<1>5. pc \in {"stat", "read"}
  BY <1>4 DEF StatTruncated, StatCaughtUp, StatUnmarked, StatMore, ReadChunk, ReadNothing
<1>6. at \in Files /\ cursor.file = at /\ cursor.off <= len[at]
  BY <1>5 DEF PositionInv, WorkInv, FileInv, PlaceInv, Place, Files
<1>7. cursor.off \in Nat /\ len[at] \in Nat /\ lim \in Nat \cup {Unset} /\ Unset \notin Nat
  BY <1>6 DEF TypeInv, TypeOK, LogTypeOK, Cursors, Unset
<1>8. \A f \in Opened : f = at /\ ino[f] = at
  BY <1>5, <1>6 DEF Opened, LiveFiles, PositionInv, WorkInv, FileInv, NodeInv
<1>9. closed => status[at] \in Old /\ (lim # Unset => lim = len[at])
  BY <1>5 DEF PositionInv, WorkInv, FileInv
<1>10. todo' = todo /\ asLive' = asLive /\ at' = at /\ closed' = closed
  BY <1>4 DEF StatTruncated, StatCaughtUp, StatUnmarked, StatMore, ReadChunk, ReadNothing,
     cycleVars, closed
<1>11. ListInv' /\ status[at] # "unborn"
  BY <1>1, <1>4, <1>5, <1>10
  DEF ListInv, FileInv, PositionInv, WorkInv, StatTruncated, StatCaughtUp, StatUnmarked, StatMore,
      ReadChunk, ReadNothing, nodeVars
<1>12. ~StatTruncated
  BY <1>6, <1>7, <1>8 DEF StatTruncated
<1>13. CASE StatCaughtUp \/ ReadNothing
  BY <1>11, <1>13 DEF StatCaughtUp, ReadNothing, WorkInv, FileInv
<1>14. CASE StatMore
  <2>1. pc' = "read" /\ lim' = Limit(at)
    BY <1>8, <1>14 DEF StatMore
  <2>2. lim' # Unset /\ (closed => lim' = len[at])
    BY <1>7, <1>9, <2>1 DEF Limit
  <2>3. QED
    BY <1>1, <1>6, <1>9, <1>10, <1>11, <2>1, <2>2 DEF WorkInv, FileInv, nodeVars
<1>15. CASE StatUnmarked
  <2>1. /\ pc' = "put" /\ closed /\ Size(at) = cursor.off /\ lim' = Limit(at)
        /\ chunk' = [file |-> at, ino |-> at, from |-> cursor.off, to |-> cursor.off, eof |-> TRUE]
    BY <1>8, <1>15 DEF StatUnmarked
  <2>2. Limit(at) = len[at] /\ cursor.off = len[at]
    BY <1>7, <1>9, <2>1 DEF Limit, Size, Lesser
  <2>3. QED
    BY <1>1, <1>6, <1>7, <1>9, <1>10, <1>11, <2>1, <2>2 DEF WorkInv, FileInv, nodeVars
<1>16. CASE ReadChunk
  <2>1. PICK to \in ChunkEnds(at) :
          /\ ReadEnd(at) > cursor.off /\ pc = "read" /\ pc' = "put" /\ lim' = lim
          /\ chunk' = [file |-> at, ino |-> at, from |-> cursor.off, to |-> to,
                       eof |-> closed /\ to >= lim]
    BY <1>8, <1>16 DEF ReadChunk
  <2>2. lim \in Nat /\ MaxB \in Nat
    BY <1>7, <2>1 DEF PositionInv, WorkInv, FileInv
  <2>3. ReadEnd(at) \in Nat /\ ReadEnd(at) <= len[at]
    BY <1>7, <2>2 DEF ReadEnd, Lesser
  <2>4. nl[at] \subseteq Nat
    BY <1>6 DEF TypeInv, TypeOK, LogTypeOK
  <2>5. to \in Nat /\ cursor.off <= to /\ to <= len[at]
    BY <1>7, <2>1, <2>3, <2>4 DEF ChunkEnds, LinesIn
  <2>6. chunk'.eof => status[at] \in Old /\ chunk'.to = len[at]
    <3>1. chunk'.eof <=> closed /\ to >= lim
      BY <2>1 DEF closed
    <3>2. to >= lim /\ lim = len[at] => to = len[at]
      BY <1>7, <2>2, <2>5
    <3>3. QED
      BY <1>7, <1>9, <2>1, <2>2, <3>1, <3>2
  <2>7. QED
    BY <1>1, <1>6, <1>9, <1>10, <1>11, <2>1, <2>5, <2>6 DEF WorkInv, FileInv, nodeVars
<1>17. QED
  BY <1>4, <1>12, <1>13, <1>14, <1>15, <1>16

-----------------------------------------------------------------------------
(* A put moves a position by a range whose bytes the sink has.             *)

\* The position of the range under way means something once it is stored.
LEMMA ChunkPlace ==
  ASSUME TypeInv, PositionInv, pc = "put", NEW e \in BOOLEAN, e => chunk.eof \/ cursor.eof
  PROVE  Place([ChunkCursor EXCEPT !.eof = e], status, len, stored \cup ChunkBytes)
<1> USE FilesAssumption
<1>1. /\ at \in Files /\ at # 0 /\ status[at] # "unborn"
      /\ cursor.file = at /\ chunk.file = at /\ chunk.ino = at /\ chunk.from = cursor.off
      /\ chunk.from <= chunk.to /\ chunk.to <= len[at]
  BY DEF PositionInv, WorkInv, FileInv, Files
<1>2. chunk.to \in Nat /\ chunk.from \in Nat /\ len[at] \in Nat
  BY <1>1 DEF TypeInv, TypeOK, LogTypeOK, Chunks
<1>3. e => status[at] \in Old /\ chunk.to = len[at]
  BY <1>1, <1>2 DEF PositionInv, WorkInv, FileInv, PlaceInv, Place
<1>4. \A i \in 1..chunk.to : <<at, i>> \in stored \cup ChunkBytes
  <2> SUFFICES ASSUME NEW i \in 1..chunk.to PROVE <<at, i>> \in stored \cup ChunkBytes
    OBVIOUS
  <2>1. CASE i <= chunk.from
    <3>1. i \in 1..cursor.off
      BY <1>1, <1>2, <2>1
    <3>2. QED
      BY <1>1, <3>1 DEF PositionInv, PlaceInv, Place
  <2>2. CASE ~(i <= chunk.from)
    BY <1>1, <1>2, <2>2 DEF ChunkBytes
  <2>3. QED
    BY <2>1, <2>2
<1>5. [ChunkCursor EXCEPT !.eof = e] = [file |-> at, ino |-> at, off |-> chunk.to, eof |-> e]
  BY <1>1 DEF ChunkCursor
<1>6. QED
  BY <1>1, <1>3, <1>4, <1>5 DEF Place

\* A put and a gap, whatever restic answers.
LEMMA PositionSink ==
  ASSUME TypeInv, PositionInv,
         \/ GapAcked \/ GapLostAck \/ GapFails \/ PutAcked \/ PutLostAck \/ PutFails
         \/ TruncationAcked \/ TruncationLostAck
  PROVE  PositionInv'
<1>1. ~TruncationAcked /\ ~TruncationLostAck
  BY DEF TruncationAcked, TruncationLostAck, PositionInv, WorkInv, FileInv
<1>2. CASE GapLostAck \/ GapFails \/ PutFails
  <2>1. UNCHANGED <<nodeVars, newest, stored, cursor>> /\ EndCycle
    BY <1>2 DEF GapLostAck, GapFails, PutFails, sinkVars
  <2>2. QED
    BY <2>1, Ashore, CycleEnds DEF PositionInv
<1>3. CASE GapAcked
  <2>1. UNCHANGED <<nodeVars, newest, stored>> /\ cursor' = NoCursor
    BY <1>3 DEF GapAcked
  <2>2. NodeInv' /\ PlaceInv'
    BY <2>1, Ashore
  <2>3. WorkInv'
    BY <1>3 DEF GapAcked, PositionInv, WorkInv, ListInv, FileInv, nodeVars, cycleVars
  <2>4. QED
    BY <2>2, <2>3 DEF PositionInv
<1>4. ASSUME pc = "put", Store, UNCHANGED nodeVars,
             cursor' = cursor \/ cursor' = [ChunkCursor EXCEPT !.eof = chunk.eof \/ cursor.eof]
      PROVE  NodeInv' /\ PlaceInv'
  <2>1. chunk.eof \in BOOLEAN /\ cursor.eof \in BOOLEAN /\ cursor \in Cursors
    BY DEF TypeInv, TypeOK, Chunks, Cursors
  <2>2. Place([ChunkCursor EXCEPT !.eof = chunk.eof \/ cursor.eof], status', len', stored')
    <3>1. (chunk.eof \/ cursor.eof) \in BOOLEAN
      BY <2>1
    <3>2. QED
      BY <1>4, <3>1, ChunkPlace DEF Store, nodeVars
  <2>3. Place(ChunkCursor, status', len', stored')
    <3>1. ChunkCursor = [ChunkCursor EXCEPT !.eof = chunk.eof]
      BY DEF ChunkCursor
    <3>2. QED
      BY <1>4, <2>1, <3>1, ChunkPlace DEF Store, nodeVars
  <2>4. Ages(status, len, status', len') /\ stored \subseteq stored'
    BY <1>4, NoAging DEF Store, nodeVars, TypeInv, TypeOK
  <2>5. Place(cursor, status', len', stored')
    BY <2>1, <2>4, PlaceKept DEF PositionInv, PlaceInv
  <2>6. \A d \in Days : Place(newest'[d], status', len', stored')
    <3> SUFFICES ASSUME NEW d \in Days PROVE Place(newest'[d], status', len', stored')
      OBVIOUS
    <3>1. newest[d] \in Cursors /\ newest \in [Days -> Cursors]
      BY DEF TypeInv, TypeOK
    <3>2. Place(newest[d], status', len', stored')
      BY <2>4, <3>1, PlaceKept DEF PositionInv, PlaceInv
    <3>3. newest'[d] = newest[d] \/ newest'[d] = ChunkCursor
      BY <1>4, <3>1 DEF Store
    <3>4. QED
      BY <2>3, <3>2, <3>3
  <2>7. QED
    BY <1>4, <2>2, <2>5, <2>6 DEF PositionInv, NodeInv, PlaceInv, nodeVars
<1>5. CASE PutLostAck
  <2>1. pc = "put" /\ Store /\ UNCHANGED nodeVars /\ cursor' = cursor /\ EndCycle
    BY <1>5 DEF PutLostAck
  <2>2. QED
    BY <1>4, <2>1, CycleEnds DEF PositionInv
<1>6. CASE PutAcked
  <2>1. /\ pc = "put" /\ Store /\ UNCHANGED nodeVars /\ pc' \in {"next", "stat"}
        /\ cursor' = [ChunkCursor EXCEPT !.eof = chunk.eof \/ cursor.eof]
        /\ UNCHANGED <<todo, asLive, at, lim>>
    BY <1>6 DEF PutAcked
  <2>2. cursor'.file = at /\ at \in Files
    BY <2>1 DEF ChunkCursor, PositionInv, WorkInv, FileInv
  <2>3. WorkInv'
    BY <2>1, <2>2 DEF PositionInv, WorkInv, ListInv, FileInv, closed, nodeVars
  <2>4. QED
    BY <1>4, <2>1, <2>3 DEF PositionInv
<1>7. QED
  BY <1>1, <1>2, <1>3, <1>5, <1>6

-----------------------------------------------------------------------------
\* Every step keeps what the positions mean.
LEMMA PositionStep ==
  ASSUME Steady, TypeInv, PositionInv, [Next]_vars
  PROVE  PositionInv'
<1>1. CASE Node
  BY <1>1, PositionNode
<1>2. CASE Ship
  BY <1>2, PositionList, PositionNext, PositionFile, PositionSink DEF Ship
<1>3. CASE Crash
  <2>1. UNCHANGED <<nodeVars, newest, stored>> /\ cursor' = NoCursor /\ EndCycle
    BY <1>3 DEF Crash, sinkVars
  <2>2. QED
    BY <2>1, Ashore, CycleEnds DEF PositionInv
<1>4. CASE Midnight \/ UNCHANGED vars
  <2>1. UNCHANGED <<nodeVars, newest, stored, cursor, cycleVars, pc>>
    BY <1>4 DEF Midnight, vars, sinkVars
  <2>2. NodeInv' /\ PlaceInv'
    BY <2>1, Ashore
  <2>3. WorkInv'
    BY <2>1 DEF PositionInv, WorkInv, ListInv, FileInv, closed, nodeVars, cycleVars
  <2>4. QED
    BY <2>2, <2>3 DEF PositionInv
<1>5. QED
  BY <1>1, <1>2, <1>3, <1>4 DEF Next

LEMMA PositionHolds == ASSUME Steady PROVE Spec => [](TypeInv /\ PositionInv)
<1>1. TypeInv /\ PositionInv /\ [Next]_vars => TypeInv' /\ PositionInv'
  BY TypeNode, TypeList, TypeFile, TypeSink, TypeRest, PositionStep DEF Next, Ship
<1>2. QED
  BY <1>1, TypeInit, PositionInit, PTL DEF Spec

\* While every inode names one file, the position in memory never runs ahead of
\* the sink: put advances it after the answer of restic only, and a recovery
\* takes it from a range that was stored.
THEOREM PositionIsAcked == ASSUME Steady PROVE Spec => []CursorIsAcked
<1>1. PositionInv => CursorIsAcked
  BY DEF PositionInv, PlaceInv, Place, CursorIsAcked
<1>2. QED
  BY <1>1, PositionHolds, PTL

\* While every inode names one file, a range tagged eof is the end of a file
\* nobody writes to: the end of the live file is never taken for it, and the
\* mark goes from the range to the position and back without being stale.
THEOREM EofStaysFinal == ASSUME Steady PROVE Spec => []EofIsFinal
<1>1. TypeInv /\ PositionInv => EofIsFinal
  <2>1. ASSUME PositionInv, NEW c \in {newest[d] : d \in Days} \cup {cursor}, c.eof
        PROVE  status[c.file] # "live" /\ c.off = len[c.file]
    <3>1. Place(c, status, len, stored)
      BY <2>1 DEF PositionInv, PlaceInv
    <3>2. QED
      BY <2>1, <3>1 DEF Place, Old
  <2>2. QED
    BY <2>1 DEF EofIsFinal
<1>2. QED
  BY <1>1, PositionHolds, PTL

\* While every inode names one file and the listing sees no rename, a gap
\* "file-gone" is declared only of a file that is not on the node.
THEOREM GapsAreReal == ASSUME Steady PROVE Spec => []NoFalseGap
<1>1. TypeInv /\ PositionInv => NoFalseGap
  BY FilesAssumption
  DEF PositionInv, WorkInv, ListInv, NoFalseGap, GoneFiles, TypeInv, TypeOK, Cursors, Files
<1>2. QED
  BY <1>1, PositionHolds, PTL

-----------------------------------------------------------------------------
(***************************************************************************)
(* What the sink promises its reader, for every number of files, bytes,    *)
(* days and faults: nothing is skipped in silence, the acknowledged        *)
(* position only moves forward, a cycle is bounded, a range is repeated    *)
(* for a lost answer only, ranges end with whole lines, and the shipper    *)
(* implements AuditDelivery.                                               *)
(*                                                                         *)
(* DaysInv says that the positions in the sink are ordered as their days   *)
(* are, and that a recovery looks far enough back to find the last one.    *)
(* OrderInv says where the position in memory is beside those: it may be   *)
(* behind one whose answer was lost, and then the next range reaches it.   *)
(* ListedInv says that what a cycle lists has no hole, and SkipInv that    *)
(* what lies before a position, or before the list, is accounted for.      *)
(***************************************************************************)

\* The last acknowledged position is in the repositories a recovery looks into.
Window == MaxOutage < RecoverDays

Set(d) == newest[d] # NoCursor

\* An unborn file is empty, and no newline is beyond the end of its file.
BytesInv ==
  /\ \A f \in Files : status[f] = "unborn" => len[f] = 0
  /\ \A f \in Files : \A j \in nl[f] : j <= len[f]
  /\ stored \subseteq Written

DaysInv ==
  /\ pc # "idle" => dayNow <= day /\ day - dayNow <= MaxOutage
  /\ \A d \in Days : Set(d) =>
       newest[d].file # 0 /\ d <= day /\ (pc # "idle" => d <= dayNow)
  /\ (\E d \in Days : Set(d)) => \E d \in Days : Set(d) /\ day - d <= MaxOutage
  /\ \A d, e \in Days : d < e /\ Set(d) /\ Set(e) =>
       \/ newest[d].file < newest[e].file
       \/ newest[d].file = newest[e].file /\ newest[d].off <= newest[e].off
  /\ \A b \in stored : \E d \in Days :
       Set(d) /\ ~After(newest[d].file, newest[d].off, b)

\* A range that was cut at p from offset o, up to the end of a rotated file (e)
\* or not, of a file of length l and newlines N: whatever is written after it,
\* one cut again from o reaches p.
CutAt(o, p, e, l, N) ==
  /\ o < p /\ p <= o + MaxB /\ p <= l
  /\ \/ p \in N
     \/ e
     \/ p = o + MaxB /\ \A j \in N : ~(o < j /\ j <= p)
Cut(f, o, p, e) == CutAt(o, p, e, len[f], nl[f])

OrderInv ==
  /\ ~loaded => pc \in {"idle", "load"} /\ cursor.file = 0
  /\ pc = "load" => ~loaded
  /\ loaded /\ cursor.file = 0 /\ pc # "next" => \A d \in Days : ~Set(d)
  /\ cursor.file # 0 => \A d \in Days :
       \/ newest[d].file < cursor.file
       \/ /\ newest[d].file = cursor.file
          /\ \/ newest[d].off <= cursor.off
             \/ Cut(cursor.file, cursor.off, newest[d].off, newest[d].eof)

\* Files between two of the list are in it; no other file is older than the
\* list but those that are gone, at its start.
ListedInv ==
  /\ pc = "stats" => RotatedFiles \subseteq todo
  /\ pc \in {"goneGap", "next", "stat", "read", "put"} =>
       /\ \A e, f \in todo : \A g \in Files : e < g /\ g < f => g \in todo
       /\ asLive # 0 => \A f \in todo : f <= asLive
       /\ asLive # 0 => \A d \in Days : newest[d].file = asLive => ~newest[d].eof
  /\ pc = "goneGap" =>
       /\ todo # {}
       /\ \A f \in todo : cursor.file < f
       /\ \A g \in Files : (\A f \in todo : g < f) => status[g] = "gone"
  /\ pc = "next" =>
       /\ \A f \in todo : cursor.file <= f
       /\ cursor.file = 0 => todo # {} /\ \A d \in Days : \A f \in todo : newest[d].file < f
  /\ pc \in {"stat", "read", "put"} =>
       \A f \in todo : at < f /\ \A g \in Files : at < g /\ g < f => g \in todo

\* The range under way.
RangeInv ==
  /\ pc # "put" => chunk = NoChunk
  /\ pc \in {"stat", "read", "put"} /\ lim # Unset =>
       /\ lim <= len[at]
       /\ \A d \in Days : newest[d].file = at => newest[d].off <= lim
  /\ pc = "read" => cursor.off < lim
  /\ pc = "put" =>
       /\ lim # Unset /\ chunk.to <= lim
       /\ chunk.eof => closed
       /\ chunk.from = chunk.to => chunk.eof
       /\ chunk.from # chunk.to => Cut(at, chunk.from, chunk.to, chunk.eof)
       /\ \A d \in Days : newest[d].file = at => newest[d].off <= chunk.to

\* What lies before offset o of file f, of the bytes W that were written, is in
\* the sink (S) or declared (D), as far as the history of S goes back.
Behind(f, o, W, S, D) ==
  \A b \in W : (\E c \in S : c[1] <= b[1]) /\ ~After(f, o, b) => b \in S \cup D

SkipInv ==
  /\ Behind(cursor.file, cursor.off, Written, stored, declared)
  /\ \A d \in Days : Behind(newest[d].file, newest[d].off, Written, stored, declared)
  /\ pc = "next" /\ todo # {} =>
       \A g \in Files : (\A f \in todo : g < f) => Behind(g, len[g], Written, stored, declared)

DeliveryInv == BytesInv /\ DaysInv /\ OrderInv /\ ListedInv /\ RangeInv /\ SkipInv


LEMMA DeliveryInit == Init => DeliveryInv
<1> SUFFICES ASSUME Init PROVE DeliveryInv
  OBVIOUS
<1>1. stored = {} /\ \A d \in Days : ~Set(d) /\ newest[d] = NoCursor
  BY DEF Init, Set
<1>2. BytesInv
  BY <1>1 DEF Init, LogInit, BytesInv
<1>3. DaysInv /\ OrderInv /\ ListedInv /\ RangeInv
  BY <1>1 DEF Init, DaysInv, OrderInv, ListedInv, RangeInv, NoCursor
<1>4. SkipInv
  BY <1>1 DEF Init, SkipInv, Behind
<1>5. QED
  BY <1>2, <1>3, <1>4 DEF DeliveryInv

\* What lies before a position stays accounted for while files are written to
\* after it and more is declared.
LEMMA BehindKept ==
  ASSUME NEW f, NEW o, NEW W, NEW W2, NEW S, NEW D, NEW D2,
         D \subseteq D2, \A b \in W2 : b \notin W => After(f, o, b),
         Behind(f, o, W, S, D)
  PROVE  Behind(f, o, W2, S, D2)
BY DEF Behind

\* What lies before a position holds what lies before an earlier one.
LEMMA BehindLess ==
  ASSUME NEW f \in Int, NEW o \in Int, NEW g \in Int, NEW p \in Int,
         g < f \/ (g = f /\ p <= o),
         NEW W \in SUBSET (Int \X Int), NEW S, NEW D, Behind(f, o, W, S, D)
  PROVE  Behind(g, p, W, S, D)
<1> SUFFICES ASSUME NEW b \in W, \E c \in S : c[1] <= b[1], ~After(g, p, b)
             PROVE  b \in S \cup D
  BY DEF Behind
<1>1. b[1] \in Int /\ b[2] \in Int
  OBVIOUS
<1>2. ~After(f, o, b)
  BY <1>1 DEF After
<1>3. QED
  BY <1>2 DEF Behind

\* The variables the invariant is about, and their types.
LEMMA PositionsTyped ==
  ASSUME TypeInv
  PROVE  /\ cursor.file \in 0..MaxFiles /\ cursor.off \in 0..MaxLen
         /\ cursor.file # 0 => cursor.file \in Files
         /\ \A d \in Days : newest[d].file \in 0..MaxFiles /\ newest[d].off \in 0..MaxLen
         /\ \A d \in Days : newest[d].file # 0 => newest[d].file \in Files
         /\ \A f \in Files : len[f] \in 0..MaxLen /\ nl[f] \subseteq 1..MaxLen
         /\ Written \in SUBSET (Int \X Int) /\ Files \subseteq Nat
         /\ MaxFiles \in Nat /\ MaxLen \in Nat /\ 0 \notin Files
<1>1. MaxFiles \in Nat /\ MaxLen \in Nat /\ Files \subseteq Nat /\ 0 \notin Files
  BY FilesAssumption DEF Files
<1>2. Written \in SUBSET (Int \X Int)
  <2>1. Written \subseteq Files \X (1..MaxLen)
    BY DEF Written
  <2>2. Files \subseteq Int /\ 1..MaxLen \subseteq Int
    BY <1>1
  <2>3. QED
    BY <2>1, <2>2
<1>3. cursor \in Cursors /\ \A d \in Days : newest[d] \in Cursors
  BY DEF TypeInv, TypeOK
<1>4. \A f \in Files : len[f] \in 0..MaxLen /\ nl[f] \subseteq 1..MaxLen
  BY DEF TypeInv, TypeOK, LogTypeOK
<1>5. QED
  BY <1>1, <1>2, <1>3, <1>4 DEF Cursors, Files

-----------------------------------------------------------------------------
(* The API server writes at the end of the youngest file.                  *)

LEMMA NodeWrites ==
  ASSUME Steady, TypeInv, BytesInv, Node
  PROVE  /\ \A f \in Files : status[f] = "gone" => status'[f] = "gone"
         /\ pc = "stats" => RotatedFiles' \subseteq RotatedFiles
         /\ \A f \in Files : len'[f] # len[f] => status[f] = "live"
         /\ \A f \in Files : nl[f] \subseteq nl'[f]
         /\ \A f \in Files : \A j \in nl'[f] :
              j \in nl[f] \/ (j \in Int /\ len[f] < j /\ j <= len'[f])
         /\ \A f \in Files : status'[f] = "unborn" => len'[f] = 0
<1> USE FilesAssumption DEF TypeInv, TypeOK, LogTypeOK, BytesInv
<1>1. CASE CreateLive
  <2>1. PICK f \in Files : status[f] = "unborn" /\ status' = [status EXCEPT ![f] = "live"]
    BY <1>1 DEF CreateLive, NextUnborn
  <2>2. len' = len /\ nl' = nl
    BY <1>1 DEF CreateLive
  <2>3. QED
    BY <2>1, <2>2 DEF RotatedFiles
<1>2. ASSUME NEW newline \in BOOLEAN, Append(newline)
      PROVE  /\ status' = status
             /\ \A f \in Files : len'[f] # len[f] => status[f] = "live"
             /\ \A f \in Files : nl[f] \subseteq nl'[f]
             /\ \A f \in Files : \A j \in nl'[f] :
              j \in nl[f] \/ (j \in Int /\ len[f] < j /\ j <= len'[f])
  <2>1. PICK f \in LiveFiles :
          /\ len[f] < MaxLen /\ len' = [len EXCEPT ![f] = @ + 1] /\ status' = status
          /\ nl' = [nl EXCEPT ![f] = IF newline THEN @ \cup {len[f] + 1} ELSE @]
    BY <1>2 DEF Append
  <2>2. f \in Files /\ status[f] = "live" /\ len[f] \in Nat
    BY <2>1 DEF LiveFiles
  <2>3. \A g \in Files : g # f => nl'[g] = nl[g] /\ len'[g] = len[g]
    BY <2>1
  <2>4. len'[f] = len[f] + 1 /\ nl[f] \subseteq nl'[f] /\ nl'[f] \subseteq nl[f] \cup {len[f] + 1}
    BY <2>1, <2>2
  <2>5. QED
    BY <2>1, <2>2, <2>3, <2>4
<1>3. CASE Rotate /\ pc # "stats"
  BY <1>3 DEF Rotate, LiveFiles
<1>4. CASE DeleteOldest
  BY <1>4 DEF DeleteOldest, RotatedFiles
<1>5. ASSUME NEW newline \in BOOLEAN, Append(newline)
      PROVE  /\ RotatedFiles' = RotatedFiles
             /\ \A f \in Files : status'[f] = "unborn" => len'[f] = 0
  BY <1>2, <1>5 DEF RotatedFiles
<1>6. QED
  BY <1>1, <1>2, <1>3, <1>4, <1>5 DEF Node, Steady, Truncate

\* A range that was cut is cut again.
LEMMA CutKept ==
  ASSUME TypeInv, NEW f \in Files, NEW o \in Int, NEW p \in Int, NEW e, Cut(f, o, p, e),
         Ages(status, len, status', len'), nl[f] \subseteq nl'[f],
         \A j \in nl'[f] : j \in nl[f] \/ (j \in Int /\ len[f] < j /\ j <= len'[f])
  PROVE  CutAt(o, p, e, len'[f], nl'[f])
<1>1. MaxB \in Int /\ len[f] \in Int /\ len'[f] \in Int /\ nl[f] \subseteq Int /\ len[f] <= len'[f]
  BY ShipperAssumption, PositionsTyped DEF Ages
<1>2. /\ o < p /\ p <= o + MaxB /\ p <= len[f]
      /\ p \in nl[f] \/ e \/ (p = o + MaxB /\ \A j \in nl[f] : ~(o < j /\ j <= p))
  BY DEF Cut, CutAt
<1>3. (\A j \in nl[f] : ~(o < j /\ j <= p)) => \A j \in nl'[f] : ~(o < j /\ j <= p)
  BY <1>1, <1>2
<1>4. QED
  BY <1>1, <1>2, <1>3 DEF CutAt

LEMMA DeliveryNode ==
  ASSUME Steady, TypeInv, PositionInv, DeliveryInv, Node
  PROVE  DeliveryInv'
<1> USE PositionsTyped DEF DeliveryInv
<1>1. UNCHANGED <<sinkVars, cycleVars, budgetVars, day, pc, loaded, cursor>>
  BY DEF Node
<1>2. NodeInv /\ NodeInv' /\ Ages(status, len, status', len')
  BY NodeStep DEF PositionInv
<1>3. BytesInv'
  <2>1. Written \subseteq Written'
    BY <1>2 DEF Written, Ages
  <2>2. \A f \in Files : \A j \in nl'[f] : j <= len'[f]
    <3> SUFFICES ASSUME NEW f \in Files, NEW j \in nl'[f] PROVE j <= len'[f]
      OBVIOUS
    <3>1. j \in nl[f] \/ (j \in Int /\ len[f] < j /\ j <= len'[f])
      BY NodeWrites
    <3>2. len[f] \in Nat /\ len'[f] \in Nat /\ len[f] <= len'[f]
      BY <1>2 DEF Ages
    <3>3. QED
      BY <3>1, <3>2 DEF BytesInv
  <2>3. QED
    BY <1>1, <2>1, <2>2, NodeWrites DEF BytesInv, sinkVars
<1>4. DaysInv'
  BY <1>1 DEF DaysInv, Set, sinkVars, cycleVars
<1>6. OrderInv'
  <2>1. ASSUME cursor.file # 0, NEW d \in Days
        PROVE  \/ newest[d].file < cursor.file
               \/ /\ newest[d].file = cursor.file
                  /\ \/ newest[d].off <= cursor.off
                     \/ CutAt(cursor.off, newest[d].off, newest[d].eof,
                              len'[cursor.file], nl'[cursor.file])
    <3>1. cursor.file \in Files /\ cursor.off \in Int /\ newest[d].off \in Int
      BY <2>1
    <3>2. Cut(cursor.file, cursor.off, newest[d].off, newest[d].eof)
            => CutAt(cursor.off, newest[d].off, newest[d].eof,
                     len'[cursor.file], nl'[cursor.file])
      BY <1>2, <3>1, NodeWrites, CutKept
    <3>3. QED
      BY <2>1, <3>2 DEF OrderInv
  <2>2. QED
    BY <1>1, <2>1 DEF OrderInv, Set, Cut, sinkVars
<1>7. ListedInv'
  BY <1>1, NodeWrites DEF ListedInv, sinkVars, cycleVars
<1>8. RangeInv'
  <2>1. pc \in {"stat", "read", "put"}
          => at \in Files /\ len[at] \in Nat /\ len'[at] \in Nat /\ len[at] <= len'[at]
    BY <1>2 DEF PositionInv, WorkInv, FileInv, Ages
  <2>2. pc = "put" /\ chunk.from # chunk.to
          => CutAt(chunk.from, chunk.to, chunk.eof, len'[at], nl'[at])
    <3>1. chunk.from \in Int /\ chunk.to \in Int
      BY DEF TypeInv, TypeOK, Chunks
    <3>2. QED
      BY <1>2, <2>1, <3>1, NodeWrites, CutKept DEF RangeInv
  <2>3. pc \in {"stat", "read", "put"} /\ lim # Unset => lim <= len'[at]
    <3>1. lim \in Int
      BY DEF TypeInv, TypeOK, Unset
    <3>2. QED
      BY <2>1, <3>1 DEF RangeInv
  <2>4. QED
    BY <1>1, <2>2, <2>3 DEF RangeInv, Cut, closed, sinkVars, cycleVars
<1>9. SkipInv'
  <2>1. ASSUME NEW f \in Files, NEW o \in Int, status[f] # "unborn", o <= len[f],
               Behind(f, o, Written, stored, declared)
        PROVE  Behind(f, o, Written', stored', declared')
    <3>1. ASSUME NEW b \in Written', b \notin Written PROVE After(f, o, b)
      <4>1. b[1] \in Files /\ b[2] \in 1..MaxLen /\ b[2] <= len'[b[1]]
        BY <3>1 DEF Written
      <4>2. ~(b[2] <= len[b[1]])
        BY <3>1 DEF Written
      <4>3. status[b[1]] = "live"
        BY <4>1, <4>2, NodeWrites
      <4>4. ~(b[1] < f)
        BY <1>2, <2>1, <4>1, <4>3 DEF NodeInv, Old
      <4>5. QED
        BY <2>1, <4>1, <4>2, <4>4 DEF After, Files
    <3>2. stored' = stored /\ declared' = declared
      BY <1>1 DEF sinkVars
    <3>3. QED
      BY <2>1, <3>1, <3>2, BehindKept
  <2>2. Behind(0, 0, Written', stored', declared')
    BY DEF Behind, After, Written, Files
  <2>3. Behind(cursor.file, cursor.off, Written', stored', declared')
    BY <2>1, <2>2 DEF PositionInv, PlaceInv, Place, SkipInv
  <2>4. \A d \in Days : Behind(newest[d].file, newest[d].off, Written', stored', declared')
    <3> SUFFICES ASSUME NEW d \in Days
                 PROVE  Behind(newest[d].file, newest[d].off, Written', stored', declared')
      OBVIOUS
    <3>1. Place(newest[d], status, len, stored)
      BY DEF PositionInv, PlaceInv
    <3>2. QED
      BY <2>1, <2>2, <3>1 DEF Place, SkipInv
  <2>5. ASSUME pc = "next", todo # {}, NEW g \in Files, \A f \in todo : g < f
        PROVE  Behind(g, len'[g], Written', stored', declared')
    <3>1. PICK f \in todo : f \in Files /\ status[f] # "unborn" /\ g < f
      BY <2>5 DEF PositionInv, WorkInv, ListInv, TypeInv, TypeOK
    <3>2. status[g] \in Old /\ len'[g] = len[g]
      BY <1>2, <3>1 DEF NodeInv, Ages
    <3>3. QED
      BY <2>1, <2>5, <3>2 DEF SkipInv, Old
  <2>6. QED
    BY <1>1, <2>3, <2>4, <2>5 DEF SkipInv, sinkVars, cycleVars
<1>10. QED
  BY <1>3, <1>4, <1>6, <1>7, <1>8, <1>9

-----------------------------------------------------------------------------
(* What a step that leaves the files and the sink alone keeps.             *)

LEMMA BehindStays ==
  ASSUME UNCHANGED <<nodeVars, stored>>, declared \subseteq declared',
         NEW f, NEW o, Behind(f, o, Written, stored, declared)
  PROVE  Behind(f, o, Written', stored', declared')
BY DEF Behind, Written, nodeVars

LEMMA NothingBehind ==
  ASSUME NEW o, o = 0, NEW S, NEW D PROVE Behind(0, o, Written, S, D)
BY FilesAssumption DEF Behind, After, Written, Files

LEMMA BytesStay ==
  ASSUME BytesInv, UNCHANGED <<nodeVars, stored>>
  PROVE  BytesInv'
BY DEF BytesInv, Written, nodeVars

LEMMA DaysStay ==
  ASSUME DaysInv, UNCHANGED <<newest, stored, day>>,
         pc' = "idle" \/ (pc # "idle" /\ dayNow' = dayNow)
  PROVE  DaysInv'
BY DEF DaysInv, Set

\* The positions in the sink, and what lies before them, stay.
LEMMA PositionsStay ==
  ASSUME SkipInv, UNCHANGED <<nodeVars, stored, newest>>, declared \subseteq declared'
  PROVE  /\ \A d \in Days : Behind(newest'[d].file, newest'[d].off, Written', stored', declared')
         /\ cursor' = cursor => Behind(cursor'.file, cursor'.off, Written', stored', declared')
<1>1. \A d \in Days : Behind(newest'[d].file, newest'[d].off, Written', stored', declared')
  BY BehindStays DEF SkipInv
<1>2. Behind(cursor.file, cursor.off, Written', stored', declared')
  BY BehindStays DEF SkipInv
<1>3. QED
  BY <1>1, <1>2

\* A cycle that ends.
LEMMA DeliveryEnds ==
  ASSUME DeliveryInv, EndCycle, UNCHANGED <<nodeVars, newest, stored, day, loaded, cursor>>,
         declared \subseteq declared', ~(pc = "next" /\ cursor.file = 0)
  PROVE  DeliveryInv'
<1> USE DEF DeliveryInv
<1>1. pc' = "idle" /\ chunk' = NoChunk
  BY DEF EndCycle
<1>2. BytesInv' /\ DaysInv'
  BY <1>1, BytesStay, DaysStay
<1>3. OrderInv'
  BY <1>1 DEF OrderInv, Set, Cut, nodeVars
<1>4. ListedInv' /\ RangeInv'
  BY <1>1 DEF ListedInv, RangeInv
<1>5. SkipInv'
  BY <1>1, PositionsStay DEF SkipInv
<1>6. QED
  BY <1>2, <1>3, <1>4, <1>5

-----------------------------------------------------------------------------
(* The start of a cycle.                                                   *)

LEMMA DeliveryBegins ==
  ASSUME TypeInv, DeliveryInv, BeginCycle
  PROVE  DeliveryInv'
<1> USE DEF DeliveryInv
<1>1. /\ pc = "idle" /\ dayNow' = day /\ pc' = IF loaded THEN "glob" ELSE "load"
      /\ UNCHANGED <<nodeVars, newest, stored, declared, day, loaded, cursor, chunk>>
  BY DEF BeginCycle, sinkVars
<1>2. BytesInv'
  BY <1>1, BytesStay
<1>3. DaysInv'
  <2>1. day \in Int /\ MaxOutage \in Nat
    BY ShipperAssumption DEF TypeInv, TypeOK, Days
  <2>2. QED
    BY <1>1, <2>1 DEF DaysInv, Set
<1>4. OrderInv'
  BY <1>1 DEF OrderInv, Set, Cut, nodeVars, TypeInv, TypeOK
<1>5. ListedInv' /\ RangeInv'
  BY <1>1 DEF ListedInv, RangeInv
<1>6. SkipInv'
  BY <1>1, PositionsStay DEF SkipInv
<1>7. QED
  BY <1>2, <1>3, <1>4, <1>5, <1>6

\* A recovery finds the last position of the sink.
LEMMA LoadsLast ==
  ASSUME Window, TypeInv, DaysInv, LoadState
  PROVE  \/ cursor' = NoCursor /\ \A d \in Days : ~Set(d)
         \/ \E e \in Days :
              /\ cursor' = newest[e] /\ newest[e].file # 0
              /\ \A d \in Days :
                   \/ newest[d].file < newest[e].file
                   \/ newest[d].file = newest[e].file /\ newest[d].off <= newest[e].off
<1> USE PositionsTyped
<1>1. day \in Int /\ MaxOutage \in Int /\ RecoverDays \in Int /\ Days \subseteq Int
  BY ShipperAssumption DEF TypeInv, TypeOK, Days
<1>2. Recoverable = {} => \A d \in Days : ~Set(d)
  BY <1>1 DEF Recoverable, DaysInv, Set, Window
<1>3. ASSUME NEW d \in Days, NEW e \in Recoverable, \A c \in Recoverable : c <= e
      PROVE  \/ newest[d].file < newest[e].file
             \/ newest[d].file = newest[e].file /\ newest[d].off <= newest[e].off
  <2>1. e \in Days /\ Set(e) /\ newest[e].file \in Nat \ {0}
    BY <1>3 DEF Recoverable, Set, DaysInv
  <2>2. CASE ~Set(d)
    BY <2>1, <2>2 DEF Set, NoCursor
  <2>3. CASE Set(d)
    <3>1. d < e \/ d = e
      BY <1>1, <1>3, <2>1, <2>3 DEF Recoverable, DaysInv, Set
    <3>2. QED
      BY <2>1, <2>3, <3>1 DEF DaysInv
  <2>4. QED
    BY <2>2, <2>3
<1>4. CASE Recoverable = {}
  BY <1>2, <1>4 DEF LoadState
<1>5. CASE Recoverable # {}
  <2>1. PICK e \in Recoverable : cursor' = newest[e] /\ \A c \in Recoverable : c <= e
    BY <1>5 DEF LoadState
  <2>2. e \in Days /\ newest[e].file # 0
    BY <2>1 DEF Recoverable, DaysInv, Set
  <2>3. QED
    BY <1>3, <2>1, <2>2
<1>6. QED
  BY <1>4, <1>5

LEMMA DeliveryLoads ==
  ASSUME Window, TypeInv, DeliveryInv, LoadState
  PROVE  DeliveryInv'
<1> USE PositionsTyped DEF DeliveryInv
<1>1. /\ pc = "load" /\ pc' = "glob" /\ loaded'
      /\ UNCHANGED <<nodeVars, newest, stored, declared, day, dayNow, chunk>>
  BY DEF LoadState, sinkVars, cycleVars
<1>2. OrderInv'
  BY <1>1, LoadsLast DEF OrderInv, Set, NoCursor
<1>3. BytesInv' /\ DaysInv'
  BY <1>1, BytesStay, DaysStay
<1>4. ListedInv' /\ RangeInv'
  BY <1>1 DEF ListedInv, RangeInv
<1>5. SkipInv'
  <2>1. \A d \in Days : Behind(newest'[d].file, newest'[d].off, Written', stored', declared')
    BY <1>1, PositionsStay
  <2>2. Behind(0, 0, Written', stored', declared')
    BY <1>1, NothingBehind DEF Written, nodeVars
  <2>3. cursor' = NoCursor \/ \E e \in Days : cursor' = newest[e]
    BY LoadsLast
  <2>4. QED
    BY <1>1, <2>1, <2>2, <2>3 DEF SkipInv, NoCursor
<1>6. QED
  BY <1>2, <1>3, <1>4, <1>5

LEMMA DeliveryGlob ==
  ASSUME DeliveryInv, Glob
  PROVE  DeliveryInv'
<1> USE DEF DeliveryInv
<1>1. /\ pc = "glob" /\ pc' = "stats" /\ todo' = RotatedFiles
      /\ UNCHANGED <<nodeVars, newest, stored, declared, day, dayNow, loaded, cursor, chunk>>
  BY DEF Glob, sinkVars
<1>2. BytesInv' /\ DaysInv'
  BY <1>1, BytesStay, DaysStay
<1>3. OrderInv'
  BY <1>1 DEF OrderInv, Set, Cut, nodeVars
<1>4. ListedInv' /\ RangeInv'
  BY <1>1 DEF ListedInv, RangeInv, RotatedFiles, nodeVars
<1>5. SkipInv'
  BY <1>1, PositionsStay DEF SkipInv
<1>6. QED
  BY <1>2, <1>3, <1>4, <1>5

-----------------------------------------------------------------------------
(* What a cycle lists.                                                     *)

\* The list has no hole, ends with the live file, and what is older than all
\* of it is gone.
LEMMA ListedInOrder ==
  ASSUME TypeInv, NodeInv, ListedInv, pc = "stats"
  PROVE  /\ Listed \subseteq Files
         /\ \A e, f \in Listed : \A g \in Files : e < g /\ g < f => g \in Listed
         /\ \A f \in Listed : status[f] \in {"live", "rotated"}
         /\ \A g \in ListedLive : status[g] = "live" /\ g \in Files /\ \A f \in Listed : f <= g
         /\ \A f \in Listed : \A g \in Files :
              g < f => status[g] = "gone" \/ (status[g] = "rotated" /\ g \in Listed)
<1> USE PositionsTyped
<1>1. Listed = RotatedFiles \cup ListedLive
  BY DEF Listed, ListedInv
<1>2. \A f \in Listed : f \in Files /\ status[f] \in {"live", "rotated"}
  BY <1>1 DEF RotatedFiles, ListedLive, LiveFiles
<1>3. \A f \in Listed : \A g \in Files :
        g < f => status[g] = "gone" \/ (status[g] = "rotated" /\ g \in Listed)
  BY <1>1, <1>2 DEF NodeInv, Old, RotatedFiles
<1>4. \A e, f \in Listed : \A g \in Files : e < g /\ g < f => g \in Listed
  BY <1>2, <1>3 DEF NodeInv
<1>5. \A g \in ListedLive : status[g] = "live" /\ g \in Files
  BY DEF ListedLive, LiveFiles
<1>6. \A g \in ListedLive : \A f \in Listed : f <= g
  BY <1>2, <1>3, <1>5
<1>7. QED
  BY <1>2, <1>3, <1>4, <1>5, <1>6

\* A list that begins with any listed file has no hole either, and no range
\* that ends a file is of its live one.
LEMMA ListStarts ==
  ASSUME TypeInv, PositionInv, ListedInv, pc = "stats", SetAsLive,
         UNCHANGED <<nodeVars, newest>>, pc' \in {"goneGap", "next"},
         NEW first \in 0..MaxFiles, todo' = {g \in Listed : first <= g}
  PROVE  /\ \A e, f \in todo' : \A g \in Files : e < g /\ g < f => g \in todo'
         /\ asLive' # 0 => \A f \in todo' : f <= asLive'
         /\ asLive' # 0 => \A d \in Days : newest'[d].file = asLive' => ~newest'[d].eof
<1> USE PositionsTyped
<1>1. asLive' # 0 => asLive' \in ListedLive
  BY DEF SetAsLive
<1>2. \A e, f \in todo' : \A g \in Files : e < g /\ g < f => g \in todo'
  BY ListedInOrder DEF PositionInv
<1>3. asLive' # 0 => \A f \in todo' : f <= asLive'
  BY <1>1, ListedInOrder DEF PositionInv
<1>4. asLive' # 0 => \A d \in Days : newest'[d].file = asLive' => ~newest'[d].eof
  BY <1>1, ListedInOrder DEF PositionInv, PlaceInv, Place, Old
<1>5. QED
  BY <1>2, <1>3, <1>4

LEMMA DeliveryStarts ==
  ASSUME TypeInv, PositionInv, PositionInv', DeliveryInv,
         StartAtOldest \/ StartAtCursor \/ CursorFileGone
  PROVE  DeliveryInv'
<1> USE PositionsTyped DEF DeliveryInv
<1>1. /\ pc = "stats" /\ pc' \in {"goneGap", "next"} /\ SetAsLive /\ loaded
      /\ UNCHANGED <<nodeVars, newest, stored, declared, day, dayNow, loaded, cursor, chunk>>
  BY DEF StartAtOldest, StartAtCursor, CursorFileGone, sinkVars, OrderInv
<1>2. BytesInv' /\ DaysInv'
  BY <1>1, BytesStay, DaysStay
<1>3. RangeInv'
  BY <1>1 DEF RangeInv
<1>4. cursor.ino = cursor.file /\ \A f \in Listed : ino[f] = f /\ f \in Files
  BY <1>1, ListedInOrder DEF PositionInv, PlaceInv, Place, NodeInv
<1>5. /\ \A d \in Days : Behind(newest'[d].file, newest'[d].off, Written', stored', declared')
      /\ Behind(cursor'.file, cursor'.off, Written', stored', declared')
  BY <1>1, PositionsStay
<1>6. CASE StartAtOldest
  <2>1. todo' = Listed /\ Listed # {} /\ cursor.file = 0 /\ pc' = "next"
    BY <1>4, <1>6 DEF StartAtOldest
  <2>2. \A d \in Days : ~Set(d) /\ newest[d].file = 0
    BY <1>1, <2>1 DEF OrderInv, Set, NoCursor
  <2>3. stored = {}
    BY <2>2 DEF DaysInv
  <2>4. todo' = {g \in Listed : 0 <= g}
    BY <1>4, <2>1
  <2>5. ListedInv'
    BY <1>1, <1>4, <2>1, <2>2, <2>4, ListStarts DEF ListedInv
  <2>6. OrderInv'
    BY <1>1, <2>1, <2>2 DEF OrderInv, Set
  <2>7. SkipInv'
    BY <1>1, <1>5, <2>3 DEF SkipInv, Behind
  <2>8. QED
    BY <1>2, <1>3, <2>5, <2>6, <2>7
<1>7. CASE StartAtCursor
  <2>1. PICK f \in Listed : f = cursor.file /\ todo' = {g \in Listed : f <= g}
    BY <1>4, <1>7 DEF StartAtCursor
  <2>2. pc' = "next" /\ f \in todo' /\ f \in Files /\ f # 0
    BY <1>4, <1>7, <2>1 DEF StartAtCursor
  <2>3. ListedInv'
    BY <1>1, <1>4, <2>1, <2>2, ListStarts DEF ListedInv
  <2>4. OrderInv'
    BY <1>1, <2>1, <2>2 DEF OrderInv, Set, Cut, nodeVars
  <2>5. ASSUME NEW g \in Files, \A h \in todo' : g < h
        PROVE  Behind(g, len'[g], Written', stored', declared')
    <3>1. g < cursor.file /\ len[g] \in Int /\ g \in Int /\ cursor.off \in Int /\ cursor.file \in Int
      BY <2>1, <2>2, <2>5
    <3>2. Behind(g, len[g], Written, stored, declared)
      BY <3>1, BehindLess DEF SkipInv
    <3>3. QED
      BY <1>1, <3>2, BehindStays DEF nodeVars
  <2>6. SkipInv'
    BY <1>5, <2>5 DEF SkipInv
  <2>7. QED
    BY <1>2, <1>3, <2>3, <2>4, <2>6
<1>8. CASE CursorFileGone
  <2>1. todo' = Listed /\ Listed # {} /\ pc' = "goneGap"
    BY <1>8 DEF CursorFileGone
  <2>2. cursor.file # 0 /\ status[cursor.file] = "gone"
    BY <1>1, <2>1 DEF PositionInv, WorkInv, ListInv, nodeVars
  <2>3. \A f \in todo' : cursor.file < f
    BY <1>1, <1>4, <2>1, <2>2, ListedInOrder DEF PositionInv, NodeInv
  <2>4. \A g \in Files : (\A f \in todo' : g < f) => status'[g] = "gone"
    BY <1>1, <1>4, <2>1, ListedInOrder DEF PositionInv, nodeVars
  <2>5. todo' = {g \in Listed : 0 <= g}
    BY <1>4, <2>1
  <2>6. ListedInv'
    BY <1>1, <2>1, <2>3, <2>4, <2>5, ListStarts DEF ListedInv
  <2>7. OrderInv'
    BY <1>1, <2>1, <2>2 DEF OrderInv, Set, Cut, nodeVars
  <2>8. SkipInv'
    BY <1>5, <2>1 DEF SkipInv
  <2>9. QED
    BY <1>2, <1>3, <2>6, <2>7, <2>8
<1>9. QED
  BY <1>6, <1>7, <1>8

\* What comes after the position in files that are gone is declared, so all
\* that is older than the list is accounted for.
LEMMA DeliveryGap ==
  ASSUME TypeInv, PositionInv, DeliveryInv, GapAcked
  PROVE  DeliveryInv'
<1> USE PositionsTyped DEF DeliveryInv
<1>1. /\ pc = "goneGap" /\ pc' = "next" /\ cursor' = NoCursor /\ loaded
      /\ UNCHANGED <<nodeVars, newest, stored, day, dayNow, loaded, chunk, todo, asLive>>
      /\ declared' = declared \cup LostAfterCursor
  BY DEF GapAcked, cycleVars, OrderInv
<1>2. BytesInv' /\ DaysInv'
  BY <1>1, BytesStay, DaysStay
<1>3. RangeInv'
  BY <1>1 DEF RangeInv
<1>4. cursor.file # 0
  BY <1>1 DEF PositionInv, WorkInv, ListInv
<1>5. OrderInv'
  BY <1>1 DEF OrderInv, NoCursor
<1>6. todo \subseteq Files
  BY DEF TypeInv, TypeOK
<1>7. ListedInv'
  <2>1. \A d \in Days : \A f \in todo : newest[d].file < f
    BY <1>1, <1>4, <1>6 DEF OrderInv, ListedInv
  <2>2. QED
    BY <1>1, <1>6, <2>1 DEF ListedInv, NoCursor
<1>8. ASSUME NEW g \in Files, \A f \in todo : g < f
      PROVE  Behind(g, len'[g], Written', stored', declared')
  <2> SUFFICES ASSUME NEW b \in Written, \E c \in stored : c[1] <= b[1], ~After(g, len[g], b)
               PROVE  b \in stored \cup declared \cup LostAfterCursor
    BY <1>1 DEF Behind, Written, nodeVars
  <2>1. b[1] \in Files /\ b[1] <= g
    BY DEF After, Written
  <2>2. status[b[1]] = "gone"
    BY <1>1, <1>6, <1>8, <2>1 DEF ListedInv
  <2>3. CASE After(cursor.file, cursor.off, b)
    BY <2>1, <2>2, <2>3 DEF LostAfterCursor, GoneFiles
  <2>4. CASE ~After(cursor.file, cursor.off, b)
    BY <2>4 DEF SkipInv, Behind
  <2>5. QED
    BY <2>3, <2>4
<1>9. SkipInv'
  <2>1. \A d \in Days : Behind(newest'[d].file, newest'[d].off, Written', stored', declared')
    BY <1>1, PositionsStay
  <2>2. Behind(0, 0, Written', stored', declared')
    BY <1>1, NothingBehind DEF Written, nodeVars
  <2>3. QED
    BY <1>1, <1>8, <2>1, <2>2 DEF SkipInv, NoCursor
<1>10. QED
  BY <1>2, <1>3, <1>5, <1>7, <1>9

\* The next file of the list is the one of the position, or is beyond all the
\* sink has.
LEMMA NextIsBeyond ==
  ASSUME TypeInv, PositionInv, OrderInv, ListedInv, NextFile
  PROVE  \/ cursor' = cursor /\ cursor.file # 0 /\ at' = cursor.file
         \/ /\ cursor'.file = at' /\ cursor'.off = 0 /\ at' \in Files
            /\ \A d \in Days : newest[d].file < at'
<1> USE PositionsTyped
<1>1. PICK f \in todo :
        /\ \A g \in todo : f <= g
        /\ at' = f
        /\ cursor' = IF ino[f] = cursor.ino THEN cursor
                     ELSE [file |-> f, ino |-> ino[f], off |-> 0, eof |-> FALSE]
  BY DEF NextFile
<1>2. pc = "next" /\ f \in Files /\ f # 0 /\ ino[f] = f /\ cursor.ino = cursor.file
  BY <1>1
  DEF NextFile, TypeInv, TypeOK, PositionInv, WorkInv, ListInv, NodeInv, PlaceInv, Place
<1>3. CASE f = cursor.file
  BY <1>1, <1>2, <1>3
<1>4. CASE f # cursor.file
  <2>1. \A d \in Days : newest[d].file < f
    <3>1. CASE cursor.file = 0
      BY <1>1, <1>2, <3>1 DEF ListedInv
    <3>2. CASE cursor.file # 0
      <4>1. cursor.file < f
        BY <1>1, <1>2, <1>4 DEF ListedInv
      <4>2. QED
        BY <1>2, <3>2, <4>1 DEF OrderInv
    <3>3. QED
      BY <3>1, <3>2
  <2>2. QED
    BY <1>1, <1>2, <1>4, <2>1
<1>5. QED
  BY <1>3, <1>4

LEMMA DeliveryNext ==
  ASSUME TypeInv, PositionInv, DeliveryInv, NextFile
  PROVE  DeliveryInv'
<1> USE PositionsTyped DEF DeliveryInv
<1>1. PICK f \in todo :
        /\ \A g \in todo : f <= g
        /\ todo' = todo \ {f} /\ at' = f
        /\ cursor' = IF ino[f] = cursor.ino THEN cursor
                     ELSE [file |-> f, ino |-> ino[f], off |-> 0, eof |-> FALSE]
  BY DEF NextFile
<1>2. /\ pc = "next" /\ pc' = "stat" /\ lim' = Unset /\ loaded
      /\ UNCHANGED <<nodeVars, newest, stored, declared, day, dayNow, loaded, chunk, asLive>>
  BY DEF NextFile, sinkVars, OrderInv
<1>3. todo \subseteq Files /\ f \in Files /\ f # 0 /\ ino[f] = f /\ cursor.ino = cursor.file
  BY <1>1, <1>2 DEF TypeInv, TypeOK, PositionInv, WorkInv, ListInv, NodeInv, PlaceInv, Place
<1>4. BytesInv' /\ DaysInv'
  BY <1>2, BytesStay, DaysStay
<1>5. RangeInv'
  BY <1>2 DEF RangeInv
<1>6. ListedInv'
  BY <1>1, <1>2, <1>3 DEF ListedInv
<1>7. OrderInv'
  <2>1. CASE cursor' = cursor /\ cursor.file # 0
    BY <1>2, <2>1 DEF OrderInv, Cut, Set, nodeVars
  <2>2. CASE cursor'.file \in Files /\ \A d \in Days : newest[d].file < cursor'.file
    BY <1>2, <2>2 DEF OrderInv
  <2>3. QED
    BY <2>1, <2>2, NextIsBeyond
<1>8. SkipInv'
  <2>1. /\ \A d \in Days : Behind(newest'[d].file, newest'[d].off, Written', stored', declared')
        /\ cursor' = cursor => Behind(cursor'.file, cursor'.off, Written', stored', declared')
    BY <1>2, PositionsStay
  <2>2. Behind(f, 0, Written, stored, declared)
    <3> SUFFICES ASSUME NEW b \in Written, \E c \in stored : c[1] <= b[1], ~After(f, 0, b)
                 PROVE  b \in stored \cup declared
      BY DEF Behind
    <3>1. b[1] \in Files /\ b[2] \in 1..MaxLen /\ b[2] <= len[b[1]] /\ b[1] < f
      BY <1>3 DEF After, Written
    <3>2. Behind(b[1], len[b[1]], Written, stored, declared)
      BY <1>1, <1>2, <1>3, <3>1 DEF SkipInv
    <3>3. ~After(b[1], len[b[1]], b)
      BY <3>1 DEF After
    <3>4. QED
      BY <3>2, <3>3 DEF Behind
  <2>3. Behind(cursor'.file, cursor'.off, Written', stored', declared')
    <3>1. cursor' = cursor \/ (cursor'.file = f /\ cursor'.off = 0)
      BY <1>1
    <3>2. Behind(f, 0, Written', stored', declared')
      BY <1>2, <2>2, BehindStays
    <3>3. QED
      BY <2>1, <3>1, <3>2
  <2>4. QED
    BY <1>2, <2>1, <2>3 DEF SkipInv
<1>9. QED
  BY <1>4, <1>5, <1>6, <1>7, <1>8

-----------------------------------------------------------------------------
(* The file under way.                                                     *)

LEMMA FileUnderWay ==
  ASSUME TypeInv, PositionInv, pc \in {"stat", "read", "put"}
  PROVE  /\ at \in Files /\ at \in Nat \ {0} /\ cursor.file = at
         /\ len[at] \in Nat /\ cursor.off \in Nat /\ cursor.off <= len[at]
         /\ lim \in Nat \cup {Unset} /\ Unset \notin Nat
         /\ \A f \in Opened : f = at /\ ino[f] = at
         /\ closed => status[at] \in Old /\ (lim # Unset => lim = len[at])
<1> USE PositionsTyped
<1>1. at \in Files /\ at \in Nat \ {0} /\ cursor.file = at /\ status[at] # "unborn"
  BY DEF PositionInv, WorkInv, FileInv
<1>2. cursor.off <= len[at]
  BY <1>1 DEF PositionInv, PlaceInv, Place
<1>3. lim \in Nat \cup {Unset} /\ Unset \notin Nat
  BY DEF TypeInv, TypeOK, Unset
<1>4. \A f \in Opened : f = at /\ ino[f] = at
  BY <1>1 DEF Opened, LiveFiles, PositionInv, NodeInv
<1>5. closed => status[at] \in Old /\ (lim # Unset => lim = len[at])
  BY DEF PositionInv, WorkInv, FileInv
<1>6. QED
  BY <1>1, <1>2, <1>3, <1>4, <1>5

\* A cycle leaves a file when the position is at its end, or when the file is
\* the last of the list.
LEMMA FileDone ==
  ASSUME TypeInv, PositionInv, DeliveryInv, pc \in {"stat", "read", "put"},
         UNCHANGED <<nodeVars, newest, stored, declared, day, dayNow, loaded, cursor,
                     todo, asLive, chunk>>,
         pc # "put", pc' = "next", todo # {} => cursor.off = len[at]
  PROVE  DeliveryInv'
<1> USE PositionsTyped DEF DeliveryInv
<1>1. BytesInv' /\ DaysInv'
  BY BytesStay, DaysStay
<1>2. RangeInv'
  BY DEF RangeInv
<1>3. cursor.file = at /\ at \in Files /\ at # 0
  BY FileUnderWay
<1>4. OrderInv'
  BY <1>3 DEF OrderInv, Set, Cut, nodeVars
<1>5. todo \subseteq Files
  BY DEF TypeInv, TypeOK
<1>6. ListedInv'
  BY <1>3, <1>5 DEF ListedInv
<1>7. ASSUME todo # {}, NEW g \in Files, \A f \in todo : g < f
      PROVE  Behind(g, len'[g], Written', stored', declared')
  <2>1. ~(at < g)
    BY <1>5, <1>7 DEF ListedInv
  <2>2. g < at \/ (g = at /\ len[g] = cursor.off)
    BY <1>3, <1>7, <2>1
  <2>3. Behind(g, len[g], Written, stored, declared)
    <3>1. len[g] \in Int /\ cursor.off \in Int /\ g \in Int /\ at \in Int
      BY <1>3
    <3>2. QED
      BY <1>3, <2>2, <3>1, BehindLess DEF SkipInv
  <2>4. QED
    BY <2>3, BehindStays DEF nodeVars
<1>8. SkipInv'
  BY <1>7, PositionsStay DEF SkipInv
<1>9. QED
  BY <1>1, <1>2, <1>4, <1>6, <1>8

\* The stat of a file: caught up, or more to read.
LEMMA DeliveryStat ==
  ASSUME TypeInv, PositionInv, PositionInv', DeliveryInv,
         FileMoved \/ StatTruncated \/ StatCaughtUp \/ StatUnmarked \/ StatMore
  PROVE  DeliveryInv'
<1> USE PositionsTyped DEF DeliveryInv
<1>1. ~StatTruncated
  BY DEF StatTruncated, PositionInv, WorkInv, FileInv
<1>2. CASE FileMoved
  BY <1>2, DeliveryEnds DEF FileMoved, sinkVars
<1>3. SUFFICES ASSUME ~FileMoved PROVE DeliveryInv'
  BY <1>2
<1>4. /\ pc = "stat" /\ loaded
      /\ UNCHANGED <<nodeVars, newest, stored, declared, day, dayNow, loaded, cursor,
                     todo, asLive, at>>
  BY <1>1, <1>3 DEF StatCaughtUp, StatUnmarked, StatMore, sinkVars, cycleVars, OrderInv
<1>5. /\ at \in Files /\ at \in Nat \ {0} /\ cursor.file = at
      /\ len[at] \in Nat /\ cursor.off \in Nat /\ cursor.off <= len[at]
      /\ lim \in Nat \cup {Unset} /\ Unset \notin Nat
      /\ \A f \in Opened : f = at /\ ino[f] = at
      /\ closed => status[at] \in Old /\ (lim # Unset => lim = len[at])
  BY <1>4, FileUnderWay
<1>6. CASE StatCaughtUp
  <2>1. Size(at) = cursor.off /\ pc' = "next" /\ chunk' = chunk
    BY <1>5, <1>6 DEF StatCaughtUp, cycleVars
  <2>2. closed => cursor.off = len[at]
    BY <1>5, <2>1 DEF Size, Limit, Lesser
  <2>3. ~closed => todo = {}
    <3> SUFFICES ASSUME ~closed, NEW f \in todo PROVE FALSE
      OBVIOUS
    <3>1. at = asLive /\ f \in Files
      BY DEF closed, TypeInv, TypeOK
    <3>2. f <= asLive /\ at < f
      BY <1>4, <1>5, <3>1 DEF ListedInv
    <3>3. QED
      BY <1>5, <3>1, <3>2
  <2>4. QED
    BY <1>4, <2>1, <2>2, <2>3, FileDone
<1>7. ASSUME pc' \in {"read", "put"}, lim' = Limit(at), Size(at) >= cursor.off
      PROVE  /\ lim' \in Nat /\ lim' <= len'[at]
             /\ \A d \in Days : newest'[d].file = at => newest'[d].off <= lim'
             /\ BytesInv' /\ DaysInv' /\ OrderInv' /\ ListedInv' /\ SkipInv'
  <2>1. lim' \in Nat /\ lim' <= len'[at]
    BY <1>4, <1>5, <1>7 DEF RangeInv, Limit, nodeVars
  <2>2. \A d \in Days : newest'[d].file = at => newest'[d].off <= lim'
    BY <1>4, <1>5, <1>7 DEF RangeInv, Limit, PositionInv, PlaceInv, Place
  <2>3. BytesInv' /\ DaysInv'
    BY <1>4, BytesStay, DaysStay
  <2>4. OrderInv'
    BY <1>4, <1>5, <1>7 DEF OrderInv, Set, Cut, nodeVars
  <2>5. ListedInv'
    BY <1>4, <1>7 DEF ListedInv
  <2>6. SkipInv'
    BY <1>4, <1>7, PositionsStay DEF SkipInv
  <2>7. QED
    BY <2>1, <2>2, <2>3, <2>4, <2>5, <2>6
<1>8. CASE StatMore
  <2>1. Size(at) > cursor.off /\ lim' = Limit(at) /\ pc' = "read" /\ chunk' = chunk
    BY <1>5, <1>8 DEF StatMore
  <2>2. Size(at) \in Nat /\ Size(at) <= Limit(at)
    BY <1>4, <1>5 DEF Size, Limit, Lesser
  <2>3. cursor.off < lim'
    BY <1>5, <1>7, <2>1, <2>2
  <2>4. RangeInv'
    BY <1>4, <1>5, <1>7, <2>1, <2>2, <2>3 DEF RangeInv
  <2>5. QED
    BY <1>5, <1>7, <2>1, <2>2, <2>4
<1>9. CASE StatUnmarked
  <2>1. /\ pc' = "put" /\ closed /\ Size(at) = cursor.off /\ lim' = Limit(at)
        /\ chunk' = [file |-> at, ino |-> at, from |-> cursor.off, to |-> cursor.off, eof |-> TRUE]
    BY <1>5, <1>9 DEF StatUnmarked
  <2>2. Limit(at) = len[at] /\ cursor.off = len[at]
    BY <1>5, <2>1 DEF Limit, Size, Lesser
  <2>3. closed'
    BY <1>4, <2>1 DEF closed
  <2>4. RangeInv'
    BY <1>4, <1>5, <1>7, <2>1, <2>2, <2>3 DEF RangeInv
  <2>5. QED
    BY <1>5, <1>7, <2>1, <2>4
<1>10. QED
  BY <1>1, <1>3, <1>6, <1>8, <1>9

\* A nonempty set of natural numbers below a bound has a greatest element.
LEMMA SetHasGreatest ==
  ASSUME NEW n \in Nat, NEW S \in SUBSET (0..n), S # {}
  PROVE  \E m \in S : \A j \in S : j <= m
<1> DEFINE Rest == {k \in 0..n : n - k \in S}
<1>1. Rest # {}
  <2>1. PICK j \in S : TRUE
    OBVIOUS
  <2>2. j \in 0..n /\ n - j \in 0..n /\ n - (n - j) = j
    BY <2>1
  <2>3. QED
    BY <2>1, <2>2
<1>2. Rest \subseteq Nat
  OBVIOUS
<1> DEFINE Less == {ss \in Nat \X Nat : ss[1] < ss[2]}
<1>3. PICK k \in Rest : \A j \in Rest : ~(<<j, k>> \in Less)
  <2>1. IsWellFoundedOn(Less, Nat)
    BY NatLessThanWellFounded DEF OpToRel
  <2> HIDE DEF Rest, Less
  <2>2. QED
    BY <1>1, <1>2, <2>1, WFMin
<1>4. \A j \in Rest : ~(j < k)
  BY <1>2, <1>3
<1>5. \A j \in S : j <= n - k
  <2> SUFFICES ASSUME NEW j \in S PROVE j <= n - k
    OBVIOUS
  <2>1. j \in 0..n /\ k \in 0..n /\ n - j \in 0..n /\ n - (n - j) = j
    OBVIOUS
  <2>2. ~(n - j < k)
    BY <1>4, <2>1
  <2>3. QED
    BY <2>1, <2>2
<1>6. QED
  BY <1>5

\* The end of a chunk: within the limit, after a newline if it can be, and at
\* least as far as any range cut from the same offset before.
LEMMA ChunkReaches ==
  ASSUME TypeInv, PositionInv, RangeInv, pc = "read", NEW to \in ChunkEnds(at)
  PROVE  /\ to \in Nat /\ to <= lim
         /\ ReadEnd(at) > cursor.off => cursor.off < to
         /\ ReadEnd(at) > cursor.off => Cut(at, cursor.off, to, closed /\ to >= lim)
         /\ \A p \in Nat : \A e \in BOOLEAN :
              /\ Cut(at, cursor.off, p, e) /\ p <= lim
              /\ e => closed /\ p = len[at]
              => p <= to
<1> USE PositionsTyped
<1>1. /\ at \in Files /\ len[at] \in Nat /\ cursor.off \in Nat /\ lim \in Nat /\ MaxB \in Nat
      /\ nl[at] \subseteq Nat /\ lim <= len[at]
      /\ closed => lim = len[at]
  <2>1. at \in Files /\ nl[at] \subseteq Nat
    BY FileUnderWay
  <2>2. lim # Unset
    BY DEF PositionInv, WorkInv, FileInv
  <2>3. QED
    BY <2>1, <2>2, FileUnderWay, ShipperAssumption DEF RangeInv
<1> DEFINE R == ReadEnd(at)
<1>2. /\ R \in Nat /\ R <= lim /\ R <= cursor.off + MaxB /\ R <= len[at]
      /\ R = lim \/ R = cursor.off + MaxB
  BY <1>1 DEF ReadEnd, Lesser
<1>3. \A i \in LinesIn(at) : i \in nl[at] /\ i \in Nat /\ cursor.off < i /\ i <= R
  BY <1>1 DEF LinesIn
<1>4. ASSUME NEW p \in Nat, p \in nl[at], cursor.off < p, p <= R
      PROVE  p \in LinesIn(at)
  BY <1>4 DEF LinesIn
<1>5. \/ closed /\ R >= lim /\ to = R
      \/ /\ ~(closed /\ R >= lim)
         /\ to \in LinesIn(at) /\ \A j \in LinesIn(at) : j <= to
      \/ ~(closed /\ R >= lim) /\ LinesIn(at) = {} /\ R >= cursor.off + MaxB /\ to = R
  BY DEF ChunkEnds
<1>6. to \in Nat /\ to <= R /\ (R > cursor.off => cursor.off < to)
  BY <1>1, <1>2, <1>3, <1>5
<1>7. R > cursor.off => Cut(at, cursor.off, to, closed /\ to >= lim)
  <2> SUFFICES ASSUME R > cursor.off PROVE Cut(at, cursor.off, to, closed /\ to >= lim)
    OBVIOUS
  <2>1. cursor.off < to /\ to <= cursor.off + MaxB /\ to <= len[at]
    BY <1>1, <1>2, <1>6
  <2>2. \/ to \in nl[at]
        \/ closed /\ to >= lim
        \/ to = cursor.off + MaxB /\ \A j \in nl[at] : ~(cursor.off < j /\ j <= to)
    BY <1>1, <1>2, <1>3, <1>4, <1>5
  <2>3. QED
    BY <2>1, <2>2 DEF Cut, CutAt
<1>8. ASSUME NEW p \in Nat, NEW e \in BOOLEAN, Cut(at, cursor.off, p, e), p <= lim,
             e => closed /\ p = len[at]
      PROVE  p <= to
  <2>1. /\ cursor.off < p /\ p <= cursor.off + MaxB /\ p <= len[at]
        /\ \/ p \in nl[at]
           \/ closed /\ p = len[at]
           \/ p = cursor.off + MaxB /\ \A j \in nl[at] : ~(cursor.off < j /\ j <= p)
    BY <1>8 DEF Cut, CutAt
  <2>2. p <= R
    BY <1>1, <1>2, <1>8, <2>1
  <2>3. CASE to = R
    BY <2>2, <2>3
  <2>4. CASE /\ ~(closed /\ R >= lim)
             /\ to \in LinesIn(at) /\ \A j \in LinesIn(at) : j <= to
    <3>1. p \in nl[at] => p <= to
      BY <1>4, <2>1, <2>2, <2>4
    <3>2. ~(closed /\ p = len[at])
      BY <1>1, <1>2, <2>2, <2>4
    <3>3. ~(p = cursor.off + MaxB /\ \A j \in nl[at] : ~(cursor.off < j /\ j <= p))
      BY <1>1, <1>2, <1>3, <2>4
    <3>4. QED
      BY <2>1, <3>1, <3>2, <3>3
  <2>5. QED
    BY <1>5, <2>3, <2>4
<1>9. QED
  BY <1>1, <1>2, <1>6, <1>7, <1>8

\* Of a rotated file with bytes to read, something is read.
LEMMA ReadsSomething ==
  ASSUME TypeInv, PositionInv, RangeInv, pc = "read", closed
  PROVE  ReadEnd(at) > cursor.off /\ ChunkEnds(at) # {}
<1> USE PositionsTyped
<1>1. /\ at \in Files /\ len[at] \in Nat /\ cursor.off \in Nat /\ lim = len[at]
      /\ MaxB \in Nat \ {0} /\ cursor.off < lim
  BY FileUnderWay, ShipperAssumption DEF PositionInv, WorkInv, FileInv, RangeInv
<1>2. /\ ReadEnd(at) \in Nat /\ ReadEnd(at) > cursor.off
      /\ (ReadEnd(at) >= lim \/ ReadEnd(at) >= cursor.off + MaxB)
  BY <1>1 DEF ReadEnd, Lesser
<1>3. LinesIn(at) \in SUBSET (0..MaxLen)
  BY <1>1 DEF LinesIn
<1>4. CASE LinesIn(at) = {}
  BY <1>2, <1>4 DEF ChunkEnds
<1>5. CASE LinesIn(at) # {}
  <2>1. \E m \in LinesIn(at) : \A j \in LinesIn(at) : j <= m
    BY <1>3, <1>5, SetHasGreatest
  <2>2. QED
    BY <1>2, <2>1 DEF ChunkEnds
<1>6. QED
  BY <1>2, <1>4, <1>5

LEMMA DeliveryRead ==
  ASSUME TypeInv, PositionInv, DeliveryInv, ReadChunk \/ ReadNothing
  PROVE  DeliveryInv'
<1> USE PositionsTyped DEF DeliveryInv
<1>1. /\ pc = "read" /\ loaded
      /\ UNCHANGED <<nodeVars, newest, stored, declared, day, dayNow, loaded, cursor,
                     todo, asLive, at, lim>>
  BY DEF ReadChunk, ReadNothing, sinkVars, cycleVars, OrderInv
<1>2. /\ at \in Files /\ at \in Nat \ {0} /\ cursor.file = at
      /\ len[at] \in Nat /\ cursor.off \in Nat /\ cursor.off <= len[at]
      /\ lim \in Nat \cup {Unset} /\ Unset \notin Nat
      /\ \A f \in Opened : f = at /\ ino[f] = at
      /\ closed => status[at] \in Old /\ (lim # Unset => lim = len[at])
  BY <1>1, FileUnderWay
<1>3. CASE ReadNothing
  <2>1. pc' = "next" /\ chunk' = chunk /\ (ReadEnd(at) <= cursor.off \/ ChunkEnds(at) = {})
    BY <1>2, <1>3 DEF ReadNothing, cycleVars
  <2>2. ReadEnd(at) \in Int
    BY <1>1, <1>2, ShipperAssumption DEF ReadEnd, Lesser, RangeInv, Unset
  <2>3. ~closed
    BY <1>1, <1>2, <2>1, <2>2, ReadsSomething
  <2>4. todo = {}
    <3> SUFFICES ASSUME NEW f \in todo PROVE FALSE
      OBVIOUS
    <3>1. at = asLive /\ f \in Files
      BY <2>3 DEF closed, TypeInv, TypeOK
    <3>2. f <= asLive /\ at < f
      BY <1>1, <1>2, <3>1 DEF ListedInv
    <3>3. QED
      BY <1>2, <3>1, <3>2
  <2>5. QED
    BY <1>1, <2>1, <2>4, FileDone
<1>4. CASE ReadChunk
  <2>1. PICK to \in ChunkEnds(at) :
          /\ ReadEnd(at) > cursor.off /\ pc' = "put"
          /\ chunk' = [file |-> at, ino |-> at, from |-> cursor.off, to |-> to,
                       eof |-> closed /\ to >= lim]
    BY <1>2, <1>4 DEF ReadChunk
  <2>2. /\ to \in Nat /\ to <= lim /\ cursor.off < to
        /\ Cut(at, cursor.off, to, closed /\ to >= lim)
    BY <1>1, <2>1, ChunkReaches
  <2>3. ASSUME NEW d \in Days, newest[d].file = at PROVE newest[d].off <= to
    <3>1. newest[d].off \in Nat /\ newest[d].eof \in BOOLEAN
      BY DEF TypeInv, TypeOK, Cursors
    <3>2. lim # Unset /\ newest[d].off <= lim
      BY <1>1, <2>3 DEF RangeInv, PositionInv, WorkInv, FileInv
    <3>3. newest[d].eof => closed /\ newest[d].off = len[at]
      <4>1. newest[d].eof => newest[d].off = len[at]
        BY <2>3 DEF PositionInv, PlaceInv, Place
      <4>2. newest[d].eof => at # asLive
        BY <1>1, <1>2, <2>3 DEF ListedInv
      <4>3. QED
        BY <4>1, <4>2 DEF closed
    <3>4. newest[d].off <= cursor.off \/ Cut(at, cursor.off, newest[d].off, newest[d].eof)
      BY <1>2, <2>3 DEF OrderInv
    <3>5. CASE newest[d].off <= cursor.off
      BY <1>2, <2>2, <3>1, <3>5
    <3>6. CASE Cut(at, cursor.off, newest[d].off, newest[d].eof)
      BY <1>1, <3>1, <3>2, <3>3, <3>6, ChunkReaches
    <3>7. QED
      BY <3>4, <3>5, <3>6
  <2>4. chunk'.eof <=> closed /\ to >= lim
    BY <2>1 DEF closed
  <2>5. Cut(at, cursor.off, to, chunk'.eof)
    BY <2>2, <2>4 DEF Cut, CutAt
  <2>6. closed' = closed
    BY <1>1 DEF closed
  <2>7. lim # Unset
    BY <1>1 DEF PositionInv, WorkInv, FileInv
  <2>8. RangeInv'
    BY <1>1, <1>2, <2>1, <2>2, <2>3, <2>4, <2>5, <2>6, <2>7 DEF RangeInv, Cut, nodeVars
  <2>9. BytesInv' /\ DaysInv'
    BY <1>1, BytesStay, DaysStay
  <2>10. OrderInv'
    BY <1>1, <1>2, <2>1 DEF OrderInv, Set, Cut, nodeVars
  <2>11. ListedInv'
    BY <1>1, <2>1 DEF ListedInv
  <2>12. SkipInv'
    BY <1>1, <2>1, PositionsStay DEF SkipInv
  <2>13. QED
    BY <2>8, <2>9, <2>10, <2>11, <2>12
<1>5. QED
  BY <1>3, <1>4

-----------------------------------------------------------------------------
(* A put.                                                                  *)

LEMMA PutsAt ==
  ASSUME TypeInv, PositionInv, DeliveryInv, pc = "put"
  PROVE  /\ at \in Files /\ at \in Nat \ {0} /\ cursor.file = at /\ chunk.file = at
         /\ chunk.from = cursor.off /\ chunk.from <= chunk.to /\ chunk.to <= len[at]
         /\ chunk.from \in Nat /\ chunk.to \in Nat /\ len[at] \in Nat /\ cursor.off \in Nat
         /\ chunk.eof \in BOOLEAN /\ (chunk.eof => chunk.to = len[at])
         /\ ChunkCursor.file = at /\ ChunkCursor.off = chunk.to /\ ChunkCursor.eof = chunk.eof
         /\ dayNow \in Days /\ dayNow \in Int /\ loaded
<1> USE PositionsTyped
<1>1. /\ at \in Files /\ at \in Nat \ {0} /\ cursor.file = at /\ chunk.file = at
      /\ chunk.from = cursor.off /\ chunk.from <= chunk.to /\ chunk.to <= len[at]
      /\ chunk.eof => chunk.to = len[at]
  BY DEF PositionInv, WorkInv, FileInv
<1>2. /\ chunk.from \in Nat /\ chunk.to \in Nat /\ chunk.eof \in BOOLEAN
      /\ dayNow \in Days /\ dayNow \in Int
  BY DEF TypeInv, TypeOK, Chunks, Days
<1>3. loaded
  BY DEF DeliveryInv, OrderInv
<1>4. QED
  BY <1>1, <1>2, <1>3 DEF ChunkCursor

\* What a put stores begins where the position is, so all that lies before its
\* end is accounted for; and no position of the sink is beyond its end.
LEMMA StoreAccounts ==
  ASSUME TypeInv, PositionInv, DeliveryInv, pc = "put", Store, UNCHANGED nodeVars
  PROVE  /\ stored' = stored \cup ChunkBytes /\ declared' = declared
         /\ \A d \in Days : newest'[d] = IF d = dayNow THEN ChunkCursor ELSE newest[d]
         /\ ChunkBytes \subseteq Written
         /\ \A d \in Days :
              newest[d].file < at \/ (newest[d].file = at /\ newest[d].off <= chunk.to)
         /\ Behind(at, chunk.to, Written', stored', declared')
<1> USE PositionsTyped, PutsAt DEF DeliveryInv
<1>1. stored' = stored \cup ChunkBytes /\ declared' = declared
  BY DEF Store
<1>2. \A d \in Days : newest'[d] = IF d = dayNow THEN ChunkCursor ELSE newest[d]
  BY DEF Store, TypeInv, TypeOK
<1>3. ChunkBytes \subseteq Written
  <2> SUFFICES ASSUME NEW i \in (chunk.from + 1)..chunk.to PROVE <<at, i>> \in Written
    BY DEF ChunkBytes
  <2>1. i \in 1..MaxLen /\ i <= len[at]
    OBVIOUS
  <2>2. QED
    BY <2>1 DEF Written
<1>4. \A d \in Days :
        newest[d].file < at \/ (newest[d].file = at /\ newest[d].off <= chunk.to)
  BY DEF OrderInv, RangeInv
<1>5. Behind(at, chunk.to, Written, stored \cup ChunkBytes, declared)
  <2> SUFFICES ASSUME NEW b \in Written, NEW c \in stored \cup ChunkBytes, c[1] <= b[1],
                      ~After(at, chunk.to, b)
               PROVE  b \in stored \cup ChunkBytes \cup declared
    BY DEF Behind
  <2>1. b[1] \in Files /\ b[2] \in 1..MaxLen /\ b = <<b[1], b[2]>>
    BY DEF Written
  <2>2. CASE b[1] = at
    <3>1. b[2] <= chunk.to
      BY <2>1, <2>2 DEF After
    <3>2. CASE b[2] <= cursor.off
      <4>1. <<cursor.file, b[2]>> \in stored
        BY <2>1, <3>2 DEF PositionInv, PlaceInv, Place
      <4>2. QED
        BY <2>1, <2>2, <4>1
    <3>3. CASE ~(b[2] <= cursor.off)
      BY <2>1, <2>2, <3>1, <3>3 DEF ChunkBytes
    <3>4. QED
      BY <3>2, <3>3
  <2>3. CASE b[1] # at
    <3>1. b[1] < at
      BY <2>1, <2>3 DEF After
    <3>2. c \in stored
      <4>1. c \in ChunkBytes => c[1] = at
        BY DEF ChunkBytes
      <4>2. QED
        BY <2>1, <3>1, <4>1
    <3>3. ~After(cursor.file, cursor.off, b)
      BY <2>1, <3>1 DEF After
    <3>4. QED
      BY <3>2, <3>3 DEF SkipInv, Behind
  <2>4. QED
    BY <2>2, <2>3
<1>6. Behind(at, chunk.to, Written', stored', declared')
  BY <1>1, <1>5 DEF Written, nodeVars
<1>7. QED
  BY <1>1, <1>2, <1>3, <1>4, <1>6

LEMMA DeliveryStores ==
  ASSUME TypeInv, PositionInv, DeliveryInv, pc = "put", Store, UNCHANGED <<nodeVars, day, loaded>>,
         \/ pc' = "idle" /\ cursor' = cursor
         \/ /\ pc' \in {"next", "stat"} /\ dayNow' = dayNow
            /\ cursor'.file = at /\ cursor'.off = chunk.to
  PROVE  /\ BytesInv' /\ DaysInv' /\ OrderInv'
         /\ \A d \in Days : Behind(newest'[d].file, newest'[d].off, Written', stored', declared')
         /\ Behind(cursor'.file, cursor'.off, Written', stored', declared')
<1> USE PositionsTyped, PutsAt DEF DeliveryInv
<1>1. /\ stored' = stored \cup ChunkBytes /\ declared' = declared
      /\ \A d \in Days : newest'[d] = IF d = dayNow THEN ChunkCursor ELSE newest[d]
      /\ ChunkBytes \subseteq Written
      /\ \A d \in Days :
           newest[d].file < at \/ (newest[d].file = at /\ newest[d].off <= chunk.to)
      /\ Behind(at, chunk.to, Written', stored', declared')
  BY StoreAccounts
<1>2. Written' = Written /\ Days \subseteq Int /\ day \in Int /\ MaxOutage \in Int
  BY ShipperAssumption DEF Written, nodeVars, Days, TypeInv, TypeOK
<1>3. BytesInv'
  BY <1>1, <1>2 DEF BytesInv, nodeVars
<1>4. DaysInv'
  <2>1. pc' # "idle" => dayNow' <= day' /\ day' - dayNow' <= MaxOutage
    BY DEF DaysInv
  <2>2. \A d \in Days : Set(d)' =>
          newest'[d].file # 0 /\ d <= day' /\ (pc' # "idle" => d <= dayNow')
    BY <1>1 DEF DaysInv, Set
  <2>3. ChunkCursor # NoCursor
    BY DEF NoCursor
  <2>4. \E d \in Days : Set(d)' /\ day' - d <= MaxOutage
    BY <1>1, <2>3 DEF DaysInv, Set
  <2>5. ASSUME NEW d \in Days, NEW e \in Days, d < e, Set(d)', Set(e)'
        PROVE  \/ newest'[d].file < newest'[e].file
               \/ newest'[d].file = newest'[e].file /\ newest'[d].off <= newest'[e].off
    <3>1. CASE e = dayNow
      BY <1>1, <1>2, <2>5, <3>1
    <3>2. CASE e # dayNow
      <4>1. Set(e) /\ e <= dayNow
        BY <1>1, <2>5, <3>2 DEF Set, DaysInv
      <4>2. d # dayNow /\ Set(d)
        BY <1>1, <1>2, <2>5, <4>1 DEF Set
      <4>3. QED
        BY <1>1, <2>5, <3>2, <4>1, <4>2 DEF DaysInv
    <3>3. QED
      BY <3>1, <3>2
  <2>6. ASSUME NEW b \in stored'
        PROVE  \E d \in Days : Set(d)' /\ ~After(newest'[d].file, newest'[d].off, b)
    <3>1. b \in Written /\ b[1] \in Int /\ b[2] \in Int
      BY <1>1, <2>6 DEF BytesInv
    <3>2. CASE b \in stored
      <4>1. PICK d \in Days : Set(d) /\ ~After(newest[d].file, newest[d].off, b)
        BY <3>2 DEF DaysInv
      <4>2. CASE d = dayNow
        <5>1. ~After(at, chunk.to, b)
          BY <1>1, <3>1, <4>1 DEF After
        <5>2. QED
          BY <1>1, <2>3, <5>1 DEF Set
      <4>3. CASE d # dayNow
        BY <1>1, <4>1, <4>3 DEF Set
      <4>4. QED
        BY <4>2, <4>3
    <3>3. CASE b \in ChunkBytes
      <4>1. ~After(at, chunk.to, b)
        BY <3>3 DEF ChunkBytes, After
      <4>2. QED
        BY <1>1, <2>3, <4>1 DEF Set
    <3>4. QED
      BY <1>1, <2>6, <3>2, <3>3
  <2>7. QED
    BY <2>1, <2>2, <2>4, <2>5, <2>6 DEF DaysInv
<1>5. OrderInv'
  <2>1. CASE pc' = "idle" /\ cursor' = cursor
    <3>1. chunk.to <= cursor.off \/ Cut(cursor.file, cursor.off, chunk.to, chunk.eof)
      BY DEF RangeInv
    <3>2. QED
      BY <1>1, <2>1, <3>1 DEF OrderInv, Set, Cut, nodeVars
  <2>2. CASE pc' \in {"next", "stat"} /\ cursor'.file = at /\ cursor'.off = chunk.to
    BY <1>1, <2>2 DEF OrderInv
  <2>3. QED
    BY <2>1, <2>2
<1>6. ASSUME NEW g \in Int, NEW p \in Int, g < at \/ (g = at /\ p <= chunk.to)
      PROVE  Behind(g, p, Written', stored', declared')
  BY <1>1, <1>2, <1>6, BehindLess
<1>7. \A d \in Days : Behind(newest'[d].file, newest'[d].off, Written', stored', declared')
  <2> SUFFICES ASSUME NEW d \in Days
               PROVE  Behind(newest'[d].file, newest'[d].off, Written', stored', declared')
    OBVIOUS
  <2>1. newest[d].file \in Int /\ newest[d].off \in Int
    OBVIOUS
  <2>2. QED
    BY <1>1, <1>6, <2>1
<1>8. Behind(cursor'.file, cursor'.off, Written', stored', declared')
  BY <1>6
<1>9. QED
  BY <1>3, <1>4, <1>5, <1>7, <1>8

LEMMA DeliveryPut ==
  ASSUME TypeInv, PositionInv, DeliveryInv, PutAcked \/ PutLostAck
  PROVE  DeliveryInv'
<1> USE PositionsTyped DEF DeliveryInv
<1>1. pc = "put" /\ Store /\ UNCHANGED <<nodeVars, day, loaded>>
  BY DEF PutAcked, PutLostAck
<1>2. CASE PutLostAck
  <2>1. pc' = "idle" /\ cursor' = cursor /\ chunk' = NoChunk
    BY <1>2 DEF PutLostAck, EndCycle
  <2>2. QED
    BY <1>1, <2>1, DeliveryStores DEF ListedInv, RangeInv, SkipInv
<1>3. CASE PutAcked
  <2>1. /\ pc' = IF chunk.from = chunk.to THEN "next" ELSE "stat"
        /\ chunk' = NoChunk /\ UNCHANGED <<dayNow, todo, asLive, at, lim>>
    BY <1>3 DEF PutAcked
  <2>2. cursor'.file = at /\ cursor'.off = chunk.to
    BY <1>1, <1>3, PutsAt DEF PutAcked
  <2>3. /\ BytesInv' /\ DaysInv' /\ OrderInv'
        /\ \A d \in Days : Behind(newest'[d].file, newest'[d].off, Written', stored', declared')
        /\ Behind(cursor'.file, cursor'.off, Written', stored', declared')
    BY <1>1, <2>1, <2>2, DeliveryStores
  <2>4. /\ \A d \in Days : newest'[d] = IF d = dayNow THEN ChunkCursor ELSE newest[d]
        /\ Behind(at, chunk.to, Written', stored', declared')
    BY <1>1, StoreAccounts
  <2>5. RangeInv'
    BY <1>1, <2>1, <2>4, PutsAt DEF RangeInv, nodeVars
  <2>6. ListedInv'
    <3>1. \A f \in todo : at < f /\ f \in Nat
      BY <1>1 DEF ListedInv, TypeInv, TypeOK
    <3>2. chunk.eof => at # asLive
      BY <1>1 DEF RangeInv, closed
    <3>3. asLive # 0 => \A d \in Days : newest'[d].file = asLive => ~newest'[d].eof
      BY <1>1, <2>4, <3>2, PutsAt DEF ListedInv
    <3>4. QED
      BY <1>1, <2>1, <2>2, <3>1, <3>3, PutsAt DEF ListedInv
  <2>7. ASSUME pc' = "next", todo # {}, NEW g \in Files, \A f \in todo : g < f
        PROVE  Behind(g, len'[g], Written', stored', declared')
    <3>1. chunk.to = len[at] /\ g \in Int /\ len[g] \in Int /\ len' = len
      BY <1>1, <2>1, <2>7, PutsAt DEF RangeInv, nodeVars
    <3>2. todo \subseteq Files
      BY DEF TypeInv, TypeOK
    <3>3. ~(at < g)
      BY <1>1, <2>7, <3>2 DEF ListedInv
    <3>4. g < at \/ (g = at /\ len[g] <= chunk.to)
      BY <1>1, <3>1, <3>3, PutsAt
    <3>5. Written' \in SUBSET (Int \X Int)
      BY <1>1 DEF Written, nodeVars
    <3>6. QED
      BY <1>1, <2>4, <3>1, <3>4, <3>5, PutsAt, BehindLess
  <2>8. SkipInv'
    BY <2>1, <2>3, <2>7 DEF SkipInv
  <2>9. QED
    BY <2>3, <2>5, <2>6, <2>8
<1>4. QED
  BY <1>2, <1>3

-----------------------------------------------------------------------------
(* Every step keeps the order of the positions and what lies before them.  *)

LEMMA DeliveryRest ==
  ASSUME TypeInv, DeliveryInv, Crash \/ Midnight \/ UNCHANGED vars
  PROVE  DeliveryInv'
<1> USE DEF DeliveryInv
<1>1. CASE Crash
  <2>1. /\ pc' = "idle" /\ chunk' = NoChunk /\ ~loaded' /\ cursor' = NoCursor
        /\ UNCHANGED <<nodeVars, newest, stored, declared, day>>
    BY <1>1 DEF Crash, EndCycle, sinkVars
  <2>2. BytesInv' /\ DaysInv'
    BY <2>1, BytesStay, DaysStay
  <2>3. OrderInv' /\ ListedInv' /\ RangeInv'
    BY <2>1 DEF OrderInv, ListedInv, RangeInv, NoCursor
  <2>4. SkipInv'
    <3>1. \A d \in Days : Behind(newest'[d].file, newest'[d].off, Written', stored', declared')
      BY <2>1, PositionsStay
    <3>2. Behind(0, 0, Written', stored', declared')
      BY <2>1, NothingBehind DEF Written, nodeVars
    <3>3. QED
      BY <2>1, <3>1, <3>2 DEF SkipInv, NoCursor
  <2>5. QED
    BY <2>2, <2>3, <2>4
<1>2. ASSUME UNCHANGED <<nodeVars, sinkVars, cycleVars, pc, loaded, cursor>>
      PROVE  BytesInv' /\ OrderInv' /\ ListedInv' /\ RangeInv' /\ SkipInv'
  <2>1. BytesInv'
    BY <1>2, BytesStay DEF sinkVars
  <2>2. ListedInv'
    BY <1>2 DEF ListedInv, RotatedFiles, nodeVars, sinkVars, cycleVars
  <2>3. OrderInv' /\ RangeInv'
    <3>1. UNCHANGED <<nodeVars, newest, pc, loaded, cursor, asLive, at, lim, chunk>>
      BY <1>2 DEF sinkVars, cycleVars
    <3>2. QED
      BY <3>1 DEF OrderInv, RangeInv, Set, Cut, closed, nodeVars
  <2>4. SkipInv'
    <3>1. \A f, o : Behind(f, o, Written, stored, declared)
                      <=> Behind(f, o, Written', stored', declared')
      BY <1>2 DEF Behind, Written, nodeVars, sinkVars
    <3>2. QED
      BY <1>2, <3>1 DEF SkipInv, nodeVars, sinkVars, cycleVars
  <2>5. QED
    BY <2>1, <2>2, <2>3, <2>4
<1>3. CASE Midnight
  <2>1. /\ day' = day + 1
        /\ UNCHANGED <<nodeVars, sinkVars, cycleVars, pc, loaded, cursor>>
        /\ pc # "idle" => day + 1 - dayNow <= MaxOutage
        /\ \/ \A d \in Days : ~Set(d)
           \/ \E d \in Days : Set(d) /\ day + 1 - d <= MaxOutage
    BY <1>3 DEF Midnight, Set
  <2>2. day \in Int /\ dayNow \in Int /\ Days \subseteq Int
    BY ShipperAssumption DEF TypeInv, TypeOK, Days
  <2>3. DaysInv'
    BY <2>1, <2>2 DEF DaysInv, Set, sinkVars, cycleVars
  <2>4. QED
    BY <1>2, <2>1, <2>3
<1>4. CASE UNCHANGED vars
  <2>1. UNCHANGED <<nodeVars, sinkVars, cycleVars, day, pc, loaded, cursor>>
    BY <1>4 DEF vars
  <2>2. DaysInv'
    BY <2>1 DEF DaysInv, Set, sinkVars, cycleVars
  <2>3. QED
    BY <1>2, <2>1, <2>2
<1>5. QED
  BY <1>1, <1>3, <1>4

\* The cycles that end before they ship, or without an answer.
LEMMA DeliveryStops ==
  ASSUME TypeInv, PositionInv, DeliveryInv,
         \/ LoadFails \/ NoFiles \/ CycleDone \/ GapLostAck \/ GapFails \/ PutFails
  PROVE  DeliveryInv'
<1>1. /\ EndCycle /\ UNCHANGED <<nodeVars, newest, stored, day, loaded, cursor>>
      /\ declared \subseteq declared'
  BY DEF LoadFails, NoFiles, CycleDone, GapLostAck, GapFails, PutFails, sinkVars
<1>2. ~(pc = "next" /\ cursor.file = 0)
  BY DEF LoadFails, NoFiles, CycleDone, GapLostAck, GapFails, PutFails, DeliveryInv, ListedInv
<1>3. QED
  BY <1>1, <1>2, DeliveryEnds

LEMMA DeliveryStep ==
  ASSUME Steady, Window, TypeInv, PositionInv, PositionInv', DeliveryInv, [Next]_vars
  PROVE  DeliveryInv'
<1>1. CASE Node
  BY <1>1, DeliveryNode
<1>2. CASE Ship
  <2>1. ~TruncationAcked /\ ~TruncationLostAck
    BY DEF TruncationAcked, TruncationLostAck, PositionInv, WorkInv, FileInv
  <2>2. CASE BeginCycle \/ LoadState \/ Glob
    BY <2>2, DeliveryBegins, DeliveryLoads, DeliveryGlob
  <2>3. CASE StartAtOldest \/ StartAtCursor \/ CursorFileGone \/ GapAcked \/ NextFile
    BY <2>3, DeliveryStarts, DeliveryGap, DeliveryNext
  <2>4. CASE \/ FileMoved \/ StatTruncated \/ StatCaughtUp \/ StatUnmarked \/ StatMore
             \/ ReadChunk \/ ReadNothing \/ PutAcked \/ PutLostAck
    BY <2>4, DeliveryStat, DeliveryRead, DeliveryPut
  <2>5. CASE LoadFails \/ NoFiles \/ CycleDone \/ GapLostAck \/ GapFails \/ PutFails
    BY <2>5, DeliveryStops
  <2>6. QED
    BY <1>2, <2>1, <2>2, <2>3, <2>4, <2>5 DEF Ship
<1>3. CASE Crash \/ Midnight \/ UNCHANGED vars
  BY <1>3, DeliveryRest
<1>4. QED
  BY <1>1, <1>2, <1>3 DEF Next

LEMMA DeliveryHolds ==
  ASSUME Steady, Window PROVE Spec => [](TypeInv /\ PositionInv /\ DeliveryInv)
<1>1. TypeInv /\ PositionInv /\ [Next]_vars => TypeInv' /\ PositionInv'
  BY TypeNode, TypeList, TypeFile, TypeSink, TypeRest, PositionStep DEF Next, Ship
<1>2. TypeInv /\ PositionInv /\ PositionInv' /\ DeliveryInv /\ [Next]_vars => DeliveryInv'
  BY DeliveryStep
<1>3. QED
  BY <1>1, <1>2, TypeInit, PositionInit, DeliveryInit, PTL DEF Spec

\* While every inode names one file and no outage is longer than a recovery
\* looks back, nothing is skipped in silence: what was written before a position
\* the sink acknowledges is in the sink or declared lost, whatever was rotated,
\* deleted, lost on the way or restarted in between.
THEOREM NothingIsSkipped == ASSUME Steady, Window PROVE Spec => []NoSilentSkip
<1>1. DeliveryInv => NoSilentSkip
  BY DEF DeliveryInv, SkipInv, Behind, NoSilentSkip, InHistory
<1>2. QED
  BY <1>1, DeliveryHolds, PTL

-----------------------------------------------------------------------------
(* The last position of the sink only moves forward.                       *)

\* What a step that is no put leaves alone.
LEMMA OnlyPutsStore ==
  ASSUME [Next]_vars
  PROVE  \/ UNCHANGED <<newest, stored, repeats>>
         \/ (PutAcked \/ PutLostAck) /\ pc = "put" /\ Store /\ UNCHANGED nodeVars
<1>1. CASE Ship
  BY <1>1 DEF Ship, BeginCycle, LoadState, LoadFails, Glob, NoFiles, StartAtOldest, StartAtCursor,
     CursorFileGone, GapAcked, GapLostAck, GapFails, NextFile, CycleDone, FileMoved, StatTruncated,
     StatCaughtUp, StatUnmarked, StatMore, ReadChunk, ReadNothing, PutAcked, PutLostAck, PutFails,
     TruncationAcked, TruncationLostAck, sinkVars
<1>2. CASE Node \/ Crash \/ Midnight \/ UNCHANGED vars
  BY <1>2 DEF Node, Crash, Midnight, vars, sinkVars
<1>3. QED
  BY <1>1, <1>2 DEF Next

\* While every inode names one file and no outage is longer than a recovery
\* looks back, the last acknowledged position only moves forward: what is put
\* after a lost answer, a gap or a recovery reaches at least what was acknowledged.
THEOREM PositionsMoveForward == ASSUME Steady, Window PROVE Spec => NeverGoesBack
<1> DEFINE Forward ==
      \A c \in NewestPosition, e \in NewestPosition' :
        e.file > c.file \/ (e.file = c.file /\ e.off >= c.off)
<1>1. TypeInv /\ PositionInv /\ DeliveryInv /\ TypeInv' /\ [Next]_vars => Forward
  <2> SUFFICES ASSUME TypeInv, PositionInv, DeliveryInv, TypeInv', [Next]_vars,
                      NEW c \in NewestPosition, NEW e \in NewestPosition'
               PROVE  e.file > c.file \/ (e.file = c.file /\ e.off >= c.off)
    OBVIOUS
  <2>1. PICK d \in Days : c = newest[d]
    BY DEF NewestPosition
  <2>2. PICK f \in Days : e = newest'[f]
    BY DEF NewestPosition
  <2>3. \A g \in Days : newest[g].file \in Int /\ newest[g].off \in Int
    BY PositionsTyped
  <2>4. \A g \in Days : newest'[g].file \in Int /\ newest'[g].off \in Int
    BY FilesAssumption DEF TypeInv, TypeOK, Cursors
  <2>5. ASSUME NEW g \in Days
        PROVE  newest'[g].file < e.file \/ (newest'[g].file = e.file /\ newest'[g].off <= e.off)
    <3>1. <<newest'[g].file, newest'[g].off>> # <<e.file, e.off>> =>
             \/ newest'[g].file < e.file
             \/ newest'[g].file = e.file /\ newest'[g].off < e.off
      BY DEF NewestPosition
    <3>2. QED
      BY <2>2, <2>4, <3>1
  <2>6. CASE newest' = newest
    BY <2>1, <2>2, <2>3, <2>5, <2>6
  <2>7. CASE pc = "put" /\ Store /\ UNCHANGED nodeVars
    <3>1. newest[d].file < at \/ (newest[d].file = at /\ newest[d].off <= chunk.to)
      BY <2>7, StoreAccounts
    <3>2. dayNow \in Days /\ newest'[dayNow].file = at /\ newest'[dayNow].off = chunk.to
      BY <2>7, StoreAccounts, PutsAt
    <3>3. at < e.file \/ (at = e.file /\ chunk.to <= e.off)
      BY <2>5, <3>2
    <3>4. at \in Int /\ chunk.to \in Int
      BY <2>7, PutsAt
    <3>5. QED
      BY <2>1, <2>2, <2>3, <2>4, <3>1, <3>3, <3>4
  <2>8. QED
    BY <2>6, <2>7, OnlyPutsStore
<1>2. TypeInv /\ PositionInv /\ DeliveryInv /\ TypeInv' /\ [Next]_vars => [Forward]_vars
  BY <1>1
<1>3. QED
  BY <1>2, DeliveryHolds, PTL DEF Spec, NeverGoesBack

-----------------------------------------------------------------------------
(* A cycle ends.                                                           *)

\* The range under way ends within the limit of its file.
BoundInv ==
  /\ pc # "put" => chunk = NoChunk
  /\ pc \in {"read", "put"} => lim # Unset
  /\ pc = "put" => chunk.to <= lim

LEMMA LimitKept ==
  ASSUME TypeInv, [Next]_vars
  PROVE  lim = Unset \/ lim' = Unset \/ lim' = lim
<1>1. CASE Ship
  BY <1>1 DEF Ship, BeginCycle, LoadState, LoadFails, Glob, NoFiles, StartAtOldest, StartAtCursor,
     CursorFileGone, GapAcked, GapLostAck, GapFails, NextFile, CycleDone, FileMoved, StatTruncated,
     StatCaughtUp, StatUnmarked, StatMore, ReadChunk, ReadNothing, PutAcked, PutLostAck, PutFails,
     TruncationAcked, TruncationLostAck, EndCycle, Limit, cycleVars
<1>2. CASE Node \/ Crash \/ Midnight \/ UNCHANGED vars
  BY <1>2 DEF Node, Crash, Midnight, EndCycle, vars, cycleVars
<1>3. QED
  BY <1>1, <1>2 DEF Next

LEMMA BoundStep ==
  ASSUME TypeInv, BoundInv, [Next]_vars
  PROVE  BoundInv'
<1> USE FilesAssumption, ShipperAssumption
<1>1. /\ cursor.off \in Nat /\ (lim # Unset => lim \in Nat) /\ Unset \notin Nat
      /\ \A f \in Files : len[f] \in Nat /\ nl[f] \subseteq Nat
  BY DEF TypeInv, TypeOK, LogTypeOK, Cursors, Unset
<1>2. Opened \subseteq Files
  BY DEF Opened, LiveFiles, RotatedFiles
<1>3. CASE StatUnmarked
  <2>1. PICK f \in Opened :
          /\ len[f] >= cursor.off /\ Size(f) = cursor.off /\ lim' = Limit(f)
          /\ chunk'.to = cursor.off /\ pc' = "put"
    BY <1>3 DEF StatUnmarked
  <2>2. Limit(f) \in Nat /\ cursor.off <= Limit(f)
    BY <1>1, <1>2, <2>1 DEF Size, Lesser, Limit
  <2>3. QED
    BY <1>1, <2>1, <2>2 DEF BoundInv
<1>4. CASE StatMore
  <2>1. PICK f \in Opened : lim' = Limit(f) /\ pc' = "read" /\ chunk' = chunk /\ pc = "stat"
    BY <1>4 DEF StatMore
  <2>2. Limit(f) \in Nat
    BY <1>1, <1>2 DEF Limit
  <2>3. QED
    BY <1>1, <2>1, <2>2 DEF BoundInv
<1>5. CASE ReadChunk
  <2>1. PICK f \in Opened : \E to \in ChunkEnds(f) :
          chunk'.to = to /\ lim' = lim /\ pc = "read" /\ pc' = "put"
    BY <1>5 DEF ReadChunk
  <2>2. lim \in Nat
    BY <1>1, <2>1 DEF BoundInv
  <2>3. ReadEnd(f) \in Nat /\ ReadEnd(f) <= lim
    BY <1>1, <1>2, <2>2 DEF ReadEnd, Lesser
  <2>4. \A to \in ChunkEnds(f) : to <= lim
    BY <1>1, <1>2, <2>2, <2>3 DEF ChunkEnds, LinesIn
  <2>5. QED
    BY <1>1, <2>1, <2>2, <2>4 DEF BoundInv
<1>6. CASE Ship
  BY <1>3, <1>4, <1>5, <1>6
  DEF Ship, BeginCycle, LoadState, LoadFails, Glob, NoFiles, StartAtOldest, StartAtCursor,
      CursorFileGone, GapAcked, GapLostAck, GapFails, NextFile, CycleDone, FileMoved, StatTruncated,
      StatCaughtUp, ReadNothing, PutAcked, PutLostAck, PutFails, TruncationAcked, TruncationLostAck,
      EndCycle, cycleVars, BoundInv
<1>7. CASE Node \/ Crash \/ Midnight \/ UNCHANGED vars
  BY <1>7 DEF Node, Crash, Midnight, EndCycle, vars, cycleVars, BoundInv
<1>8. QED
  BY <1>6, <1>7 DEF Next

\* Whatever the node does, a cycle ships of a file what it held at the first
\* stat: the limit is not moved while the file grows, and no range goes beyond
\* it.
THEOREM CyclesAreBounded == Spec => CycleIsBounded
<1> DEFINE Bounded == lim # Unset /\ lim' # Unset => lim' = lim /\ chunk'.to <= lim
<1>1. Init => BoundInv
  BY DEF Init, BoundInv
<1>2. TypeInv /\ [Next]_vars => TypeInv'
  BY TypeNode, TypeList, TypeFile, TypeSink, TypeRest DEF Next, Ship
<1>3. TypeInv /\ BoundInv /\ [Next]_vars => BoundInv'
  BY BoundStep
<1>4. TypeInv' /\ BoundInv' /\ lim' # Unset => chunk'.to <= lim'
  BY FilesAssumption DEF TypeInv, TypeOK, BoundInv, NoChunk, Unset
<1>5. TypeInv /\ TypeInv' /\ BoundInv' /\ [Next]_vars => [Bounded]_vars
  BY <1>4, LimitKept
<1>6. QED
  BY <1>1, <1>2, <1>3, <1>5, TypeInit, PTL DEF Spec, CycleIsBounded

-----------------------------------------------------------------------------
(* A range is repeated for a lost answer only.                             *)

\* The sink holds bytes beyond the position in memory: those of a lost answer.
Ahead == cursor.file # 0 /\ \E b \in stored : After(cursor.file, cursor.off, b)
RepeatInv == repeats + (IF Ahead THEN 1 ELSE 0) <= lostAcks

\* Nothing is stored beyond the last position of the sink.
LEMMA StoredBefore ==
  ASSUME TypeInv, DaysInv, stored \subseteq Written, NEW f \in Int, NEW o \in Int,
         \A d \in Days : newest[d].file < f \/ (newest[d].file = f /\ newest[d].off <= o)
  PROVE  \A b \in stored : ~After(f, o, b)
<1> SUFFICES ASSUME NEW b \in stored PROVE ~After(f, o, b)
  OBVIOUS
<1>1. b[1] \in Int /\ b[2] \in Int
  BY PositionsTyped
<1>2. PICK d \in Days : ~After(newest[d].file, newest[d].off, b)
  BY DEF DaysInv
<1>3. newest[d].file \in Int /\ newest[d].off \in Int
  BY PositionsTyped
<1>4. QED
  BY <1>1, <1>2, <1>3 DEF After

\* A put repeats bytes only when the position is behind those of a lost answer,
\* and then it is not any more.
LEMMA RepeatPut ==
  ASSUME TypeInv, PositionInv, DeliveryInv, RepeatInv, PutAcked \/ PutLostAck
  PROVE  RepeatInv'
<1> USE DEF DeliveryInv
<1>1. pc = "put" /\ Store /\ UNCHANGED nodeVars
  BY DEF PutAcked, PutLostAck
<1>2. repeats \in Nat /\ lostAcks \in Nat
  BY ShipperAssumption DEF TypeInv, TypeOK
<1>3. repeats' = repeats \/ (repeats' = repeats + 1 /\ Ahead)
  <2> SUFFICES ASSUME ChunkBytes \cap stored # {} PROVE Ahead
    BY <1>1 DEF Store
  <2>1. PICK b \in stored : b \in ChunkBytes
    OBVIOUS
  <2>2. b[1] = at /\ b[2] > cursor.off
    BY <1>1, <2>1, PutsAt DEF ChunkBytes
  <2>3. QED
    BY <1>1, <2>2, PutsAt DEF Ahead, After
<1>4. CASE PutAcked
  <2>1. cursor'.file = at /\ cursor'.off = chunk.to /\ lostAcks' = lostAcks
    BY <1>1, <1>4, PutsAt DEF PutAcked, budgetVars
  <2>2. \A b \in stored : ~After(at, chunk.to, b)
    BY <1>1, StoreAccounts, StoredBefore, PutsAt DEF BytesInv
  <2>3. \A b \in ChunkBytes : ~After(at, chunk.to, b)
    BY <1>1, PutsAt DEF ChunkBytes, After
  <2>4. ~Ahead'
    BY <1>1, <2>1, <2>2, <2>3, StoreAccounts DEF Ahead, After
  <2>5. QED
    BY <1>2, <1>3, <2>1, <2>4 DEF RepeatInv
<1>5. CASE PutLostAck
  <2>1. lostAcks' = lostAcks + 1
    BY <1>5 DEF PutLostAck, SpendLostAck
  <2>2. QED
    BY <1>2, <1>3, <2>1 DEF RepeatInv
<1>6. QED
  BY <1>4, <1>5

\* A position that moves without a put moves to where nothing is stored beyond
\* it.
LEMMA RepeatMoves ==
  ASSUME Window, TypeInv, PositionInv, DeliveryInv, RepeatInv,
         UNCHANGED <<stored, repeats>>, lostAcks' \in {lostAcks, lostAcks + 1},
         cursor' = cursor \/ cursor' = NoCursor \/ LoadState \/ NextFile
  PROVE  RepeatInv'
<1> USE PositionsTyped DEF DeliveryInv
<1>1. repeats \in Nat /\ lostAcks \in Nat
  BY ShipperAssumption DEF TypeInv, TypeOK
<1>2. Ahead' => Ahead
  <2>1. CASE cursor' = cursor \/ cursor' = NoCursor
    BY <2>1 DEF Ahead, After, NoCursor
  <2>2. ASSUME cursor'.file \in Int, cursor'.off \in Int,
               \A d \in Days : \/ newest[d].file < cursor'.file
                               \/ newest[d].file = cursor'.file /\ newest[d].off <= cursor'.off
        PROVE  ~Ahead'
    <3>1. \A b \in stored : ~After(cursor'.file, cursor'.off, b)
      BY <2>2, StoredBefore DEF BytesInv
    <3>2. QED
      BY <3>1 DEF Ahead, After
  <2>3. CASE LoadState
    <3>1. CASE cursor' = NoCursor
      BY <2>1, <3>1
    <3>2. CASE cursor' # NoCursor
      <4>1. PICK e \in Days :
              /\ cursor' = newest[e]
              /\ \A d \in Days :
                   \/ newest[d].file < newest[e].file
                   \/ newest[d].file = newest[e].file /\ newest[d].off <= newest[e].off
        BY <2>3, <3>2, LoadsLast
      <4>2. newest[e].file \in Int /\ newest[e].off \in Int
        OBVIOUS
      <4>3. QED
        BY <2>2, <4>1, <4>2
    <3>3. QED
      BY <3>1, <3>2
  <2>4. CASE NextFile
    BY <2>1, <2>2, <2>4, NextIsBeyond
  <2>5. QED
    BY <2>1, <2>3, <2>4
<1>3. QED
  BY <1>1, <1>2 DEF RepeatInv

\* The position is moved by a put, a recovery, a gap, the list and a restart.
LEMMA CursorMoves ==
  ASSUME [Next]_vars, ~PutAcked, ~PutLostAck, ~TruncationAcked
  PROVE  /\ cursor' = cursor \/ cursor' = NoCursor \/ LoadState \/ NextFile
         /\ lostAcks' \in {lostAcks, lostAcks + 1}
<1>1. CASE Ship
  BY <1>1 DEF Ship, BeginCycle, LoadState, LoadFails, Glob, NoFiles, StartAtOldest, StartAtCursor,
     CursorFileGone, GapAcked, GapLostAck, GapFails, NextFile, CycleDone, FileMoved, StatTruncated,
     StatCaughtUp, StatUnmarked, StatMore, ReadChunk, ReadNothing, PutFails, TruncationLostAck,
     SpendLostAck, budgetVars
<1>2. CASE Node \/ Crash \/ Midnight \/ UNCHANGED vars
  BY <1>2 DEF Node, Crash, Midnight, vars, budgetVars
<1>3. QED
  BY <1>1, <1>2 DEF Next

LEMMA RepeatStep ==
  ASSUME Window, TypeInv, PositionInv, DeliveryInv, RepeatInv, [Next]_vars
  PROVE  RepeatInv'
<1>1. ~TruncationAcked
  BY DEF TruncationAcked, PositionInv, WorkInv, FileInv
<1>2. CASE PutAcked \/ PutLostAck
  BY <1>2, RepeatPut
<1>3. CASE ~PutAcked /\ ~PutLostAck
  BY <1>1, <1>3, OnlyPutsStore, CursorMoves, RepeatMoves
<1>4. QED
  BY <1>2, <1>3

\* While every inode names one file and no outage is longer than a recovery
\* looks back, the sink holds a byte twice only after the answer of a put was
\* lost, one range for one answer: neither a restart, nor a gap, nor a put that
\* failed repeats anything.
THEOREM RepeatsAreLostAcks == ASSUME Steady, Window PROVE Spec => []RepeatsNeedALostAck
<1>1. Init => RepeatInv
  BY DEF Init, RepeatInv, Ahead, NoCursor
<1>2. TypeInv /\ PositionInv /\ DeliveryInv /\ RepeatInv /\ [Next]_vars => RepeatInv'
  BY RepeatStep
<1>3. TypeInv /\ RepeatInv => RepeatsNeedALostAck
  BY ShipperAssumption DEF TypeInv, TypeOK, RepeatInv, RepeatsNeedALostAck
<1>4. QED
  BY <1>1, <1>2, <1>3, DeliveryHolds, PTL DEF Spec

-----------------------------------------------------------------------------
(* Whole lines.                                                            *)

\* No line is longer than MaxLine, and positions are at the end of one.
LinesEnd ==
  \A f \in Files : \A o \in 0..len[f] :
    (o = 0 \/ o \in nl[f]) /\ o + MaxLine <= len[f] =>
      \E j \in nl[f] : o < j /\ j <= o + MaxLine
AtLineEnd(c, N) == c.file # 0 => c.off = 0 \/ c.eof \/ c.off \in N[c.file]
LineInv ==
  /\ LinesEnd
  /\ AtLineEnd(cursor, nl) /\ \A d \in Days : AtLineEnd(newest[d], nl)
  /\ \A d \in Days : Set(d) => newest[d].eof \/ newest[d].off \in nl[newest[d].file]
  /\ pc = "put" => chunk.eof \/ chunk.to \in nl[at]

\* The API server ends a line before it is too long.
LEMMA LineAppended ==
  ASSUME TypeInv, LinesEnd, NEW newline \in BOOLEAN, Append(newline)
  PROVE  LinesEnd'
<1> USE PositionsTyped, FilesAssumption
<1>1. PICK f \in LiveFiles :
        /\ newline \/ \E i \in (len[f] + 2 - MaxLine)..len[f] : i = 0 \/ i \in nl[f]
        /\ len' = [len EXCEPT ![f] = @ + 1]
        /\ nl' = [nl EXCEPT ![f] = IF newline THEN @ \cup {len[f] + 1} ELSE @]
  BY DEF Append
<1>2. /\ f \in Files /\ len[f] \in Nat /\ len'[f] = len[f] + 1
      /\ \A g \in Files : g # f => len'[g] = len[g] /\ nl'[g] = nl[g]
      /\ nl'[f] = IF newline THEN nl[f] \cup {len[f] + 1} ELSE nl[f]
  BY <1>1 DEF LiveFiles, TypeInv, TypeOK, LogTypeOK
<1> SUFFICES ASSUME NEW g \in Files, NEW o \in 0..len'[g],
                    o = 0 \/ o \in nl'[g], o + MaxLine <= len'[g]
             PROVE  \E j \in nl'[g] : o < j /\ j <= o + MaxLine
  BY DEF LinesEnd
<1>3. CASE g # f
  BY <1>2, <1>3 DEF LinesEnd
<1>4. CASE g = f /\ o + MaxLine <= len[f]
  <2>1. o \in 0..len[f] /\ (o = 0 \/ o \in nl[f])
    BY <1>2, <1>4
  <2>2. PICK j \in nl[f] : o < j /\ j <= o + MaxLine
    BY <1>2, <1>4, <2>1 DEF LinesEnd
  <2>3. QED
    BY <1>2, <1>4, <2>2
<1>5. CASE g = f /\ o + MaxLine = len[f] + 1
  <2>1. CASE newline
    BY <1>2, <1>5, <2>1
  <2>2. CASE ~newline
    <3>1. PICK i \in (len[f] + 2 - MaxLine)..len[f] : i = 0 \/ i \in nl[f]
      BY <1>1, <2>2
    <3>2. o < i /\ i <= o + MaxLine /\ i # 0
      BY <1>2, <1>5, <3>1
    <3>3. QED
      BY <1>2, <1>5, <2>2, <3>1, <3>2
  <2>3. QED
    BY <2>1, <2>2
<1>6. QED
  BY <1>2, <1>3, <1>4, <1>5

\* A chunk that is not cut after a newline is the end of a rotated file: the
\* longest line fits in it.
LEMMA ChunkEndsLine ==
  ASSUME MaxLine <= MaxB, TypeInv, PositionInv, RangeInv, LineInv, pc = "read",
         ReadEnd(at) > cursor.off, NEW to \in ChunkEnds(at)
  PROVE  (closed /\ to >= lim) \/ to \in nl[at]
<1> USE PositionsTyped, FilesAssumption, ShipperAssumption
<1>1. /\ at \in Files /\ len[at] \in Nat /\ cursor.off \in Nat /\ lim \in Nat /\ MaxB \in Nat
      /\ cursor.file = at /\ at # 0 /\ nl[at] \subseteq Nat /\ lim <= len[at]
  BY FileUnderWay DEF PositionInv, WorkInv, FileInv, RangeInv
<1>2. /\ ReadEnd(at) \in Nat /\ ReadEnd(at) <= len[at]
  BY <1>1 DEF ReadEnd, Lesser
<1>3. CASE LinesIn(at) # {}
  BY <1>1, <1>3 DEF ChunkEnds, LinesIn
<1>4. CASE LinesIn(at) = {}
  <2>1. ASSUME ReadEnd(at) >= cursor.off + MaxB PROVE FALSE
    <3>1. ~cursor.eof
      BY <1>1, <1>2 DEF PositionInv, PlaceInv, Place
    <3>2. cursor.off = 0 \/ cursor.off \in nl[at]
      BY <1>1, <3>1 DEF LineInv, AtLineEnd
    <3>3. cursor.off \in 0..len[at] /\ cursor.off + MaxLine <= len[at]
      BY <1>1, <1>2, <2>1
    <3>4. PICK j \in nl[at] : cursor.off < j /\ j <= cursor.off + MaxLine
      BY <1>1, <3>2, <3>3 DEF LineInv, LinesEnd
    <3>5. j \in LinesIn(at)
      BY <1>1, <1>2, <2>1, <3>4 DEF LinesIn
    <3>6. QED
      BY <1>4, <3>5
  <2>2. closed /\ ReadEnd(at) >= lim /\ to = ReadEnd(at)
    BY <1>4, <2>1 DEF ChunkEnds
  <2>3. QED
    BY <2>2
<1>5. QED
  BY <1>3, <1>4

\* The files keep their newlines, and a line is ended in time.
LEMMA LinesKept ==
  ASSUME Steady, TypeInv, BytesInv, LinesEnd, [Next]_vars
  PROVE  LinesEnd' /\ \A f \in Files : nl[f] \subseteq nl'[f]
<1>1. CASE Node
  <2>1. \A f \in Files : nl[f] \subseteq nl'[f]
    BY <1>1, NodeWrites
  <2>2. CASE UNCHANGED <<len, nl>>
    BY <2>2 DEF LinesEnd
  <2>3. CASE \E newline \in BOOLEAN : Append(newline)
    <3>1. PICK newline \in BOOLEAN : Append(newline)
      BY <2>3
    <3>2. LinesEnd'
      BY <3>1, LineAppended
    <3>3. QED
      BY <2>1, <3>2
  <2>4. UNCHANGED <<len, nl>> \/ \E newline \in BOOLEAN : Append(newline)
    BY <1>1 DEF Node, CreateLive, Rotate, DeleteOldest, Truncate
  <2>5. QED
    BY <2>1, <2>2, <2>3, <2>4
<1>2. CASE UNCHANGED nodeVars
  BY <1>2 DEF LinesEnd, nodeVars
<1>3. CASE Ship
  BY <1>2, <1>3 DEF Ship, BeginCycle, LoadState, LoadFails, Glob, NoFiles, StartAtOldest,
     StartAtCursor, CursorFileGone, GapAcked, GapLostAck, GapFails, NextFile, CycleDone, FileMoved,
     StatTruncated, StatCaughtUp, StatUnmarked, StatMore, ReadChunk, ReadNothing, PutAcked,
     PutLostAck, PutFails, TruncationAcked, TruncationLostAck
<1>4. CASE Crash \/ Midnight \/ UNCHANGED vars
  BY <1>2, <1>4 DEF Crash, Midnight, vars
<1>5. QED
  BY <1>1, <1>3, <1>4 DEF Next

\* A put begins with a read or an end to mark.
LEMMA PutsBegin ==
  ASSUME [Next]_vars, pc' = "put"
  PROVE  \/ pc = "put" /\ UNCHANGED <<chunk, at>>
         \/ StatUnmarked \/ ReadChunk
<1>1. CASE Ship
  BY <1>1 DEF Ship, BeginCycle, LoadState, LoadFails, Glob, NoFiles, StartAtOldest, StartAtCursor,
     CursorFileGone, GapAcked, GapLostAck, GapFails, NextFile, CycleDone, FileMoved, StatTruncated,
     StatCaughtUp, StatMore, ReadNothing, PutAcked, PutLostAck, PutFails, TruncationAcked,
     TruncationLostAck, EndCycle
<1>2. CASE Node \/ Crash \/ Midnight \/ UNCHANGED vars
  BY <1>2 DEF Node, Crash, Midnight, EndCycle, vars, cycleVars
<1>3. QED
  BY <1>1, <1>2 DEF Next

LEMMA LineStep ==
  ASSUME MaxLine <= MaxB, Steady, Window, TypeInv, PositionInv, DeliveryInv, LineInv, [Next]_vars
  PROVE  LineInv'
<1> USE PositionsTyped DEF DeliveryInv
<1>1. LinesEnd' /\ \A f \in Files : nl[f] \subseteq nl'[f]
  BY LinesKept DEF LineInv
<1>2. ASSUME pc = "put", Store, UNCHANGED nodeVars
      PROVE  /\ AtLineEnd(ChunkCursor, nl')
             /\ chunk.eof \/ chunk.to \in nl'[at]
  BY <1>2, PutsAt DEF AtLineEnd, LineInv, nodeVars
<1>3. \A d \in Days :
        /\ AtLineEnd(newest'[d], nl')
        /\ Set(d)' => newest'[d].eof \/ newest'[d].off \in nl'[newest'[d].file]
  <2> SUFFICES ASSUME NEW d \in Days
               PROVE  /\ AtLineEnd(newest'[d], nl')
                      /\ Set(d)' => newest'[d].eof \/ newest'[d].off \in nl'[newest'[d].file]
    OBVIOUS
  <2>1. /\ newest[d].file = 0 \/ newest[d].file \in Files
        /\ Set(d) => newest[d].file \in Files
        /\ AtLineEnd(newest[d], nl)
        /\ Set(d) => newest[d].eof \/ newest[d].off \in nl[newest[d].file]
    BY DEF DaysInv, LineInv
  <2>2. CASE newest'[d] = newest[d]
    BY <1>1, <2>1, <2>2 DEF AtLineEnd, Set
  <2>3. CASE newest'[d] # newest[d]
    <3>1. pc = "put" /\ Store /\ UNCHANGED nodeVars
      BY <2>3, OnlyPutsStore
    <3>2. newest'[d] = ChunkCursor
      BY <2>3, <3>1, StoreAccounts
    <3>3. QED
      BY <1>2, <3>1, <3>2, PutsAt DEF AtLineEnd
  <2>4. QED
    BY <2>2, <2>3
<1>4. AtLineEnd(cursor', nl')
  <2>1. ~TruncationAcked
    BY DEF TruncationAcked, PositionInv, WorkInv, FileInv
  <2>2. CASE cursor' = cursor
    BY <1>1, <2>2 DEF AtLineEnd, LineInv
  <2>3. CASE cursor' = NoCursor \/ cursor'.off = 0
    BY <2>3 DEF AtLineEnd, NoCursor
  <2>4. CASE \E d \in Days : cursor' = newest[d]
    BY <1>1, <2>4 DEF AtLineEnd, LineInv
  <2>5. CASE PutAcked
    <3>1. /\ pc = "put" /\ Store /\ UNCHANGED nodeVars
          /\ cursor' = [ChunkCursor EXCEPT !.eof = chunk.eof \/ cursor.eof]
      BY <2>5 DEF PutAcked
    <3>2. cursor'.file = at /\ cursor'.off = chunk.to /\ (chunk.eof => cursor'.eof)
      BY <3>1, PutsAt DEF ChunkCursor
    <3>3. QED
      BY <1>2, <3>1, <3>2 DEF AtLineEnd
  <2>6. CASE PutLostAck
    BY <2>2, <2>6 DEF PutLostAck
  <2>7. CASE LoadState
    BY <2>3, <2>4, <2>7, LoadsLast
  <2>8. CASE NextFile
    BY <2>2, <2>3, <2>8, NextIsBeyond
  <2>9. QED
    BY <2>1, <2>2, <2>3, <2>5, <2>6, <2>7, <2>8, CursorMoves
<1>5. pc' = "put" => chunk'.eof \/ chunk'.to \in nl'[at']
  <2> SUFFICES ASSUME pc' = "put" PROVE chunk'.eof \/ chunk'.to \in nl'[at']
    OBVIOUS
  <2>1. CASE pc = "put" /\ UNCHANGED <<chunk, at>>
    BY <1>1, <2>1, PutsAt DEF LineInv
  <2>2. CASE StatUnmarked
    BY <2>2 DEF StatUnmarked
  <2>3. CASE ReadChunk
    <3>1. \A f \in Opened : f = at
      BY <2>3, FileUnderWay DEF ReadChunk
    <3>2. PICK to \in ChunkEnds(at) :
            /\ ReadEnd(at) > cursor.off /\ pc = "read" /\ at' = at /\ UNCHANGED nodeVars
            /\ chunk'.to = to /\ chunk'.eof = (closed /\ to >= lim)
      BY <2>3, <3>1 DEF ReadChunk
    <3>3. (closed /\ to >= lim) \/ to \in nl[at]
      BY <3>2, ChunkEndsLine
    <3>4. QED
      BY <3>2, <3>3 DEF nodeVars
  <2>4. QED
    BY <2>1, <2>2, <2>3, PutsBegin
<1>6. QED
  BY <1>1, <1>3, <1>4, <1>5 DEF LineInv

\* While every inode names one file, no outage is longer than a recovery looks
\* back and no line is longer than a chunk, every acknowledged range ends with
\* a newline or with the end of a rotated file.
THEOREM RangesAreWholeLines ==
  ASSUME Steady, Window, MaxLine <= MaxB PROVE Spec => []WholeLines
<1>1. Init => LineInv
  BY FilesAssumption
  DEF Init, LogInit, LineInv, LinesEnd, AtLineEnd, NoCursor, Set
<1>2. TypeInv /\ PositionInv /\ DeliveryInv /\ LineInv /\ [Next]_vars => LineInv'
  BY LineStep
<1>3. LineInv => WholeLines
  BY DEF LineInv, WholeLines, Set
<1>4. QED
  BY <1>1, <1>2, <1>3, DeliveryHolds, PTL DEF Spec

-----------------------------------------------------------------------------
(* The shipper implements AuditDelivery.                                   *)

Held == {b \in Written : b[1] \in OnNode}

LEMMA DeliversInit == Init => Delivery!Init
BY FilesAssumption DEF Init, LogInit, Delivery!Init, Written, OnNode, LiveFiles, RotatedFiles

\* The API server writes at the end of the log, and what it deletes expires.
LEMMA NodeDelivers ==
  ASSUME Steady, TypeInv, NodeInv, BytesInv, Node
  PROVE  Delivery!Write \/ Delivery!Expire
<1> USE PositionsTyped, FilesAssumption DEF OnNode, LiveFiles, RotatedFiles
<1>1. stored' = stored /\ declared' = declared
  BY DEF Node, sinkVars
<1>2. ASSUME UNCHANGED len,
             \A f \in Files : status'[f] \in {"live", "rotated"} =>
               status[f] \in {"live", "rotated"} \/ len[f] = 0
      PROVE  Delivery!Expire
  <2>1. Written' = Written
    BY <1>2 DEF Written
  <2>2. Held' \subseteq Held
    <3> SUFFICES ASSUME NEW b \in Written, b[1] \in OnNode' PROVE b[1] \in OnNode
      BY <2>1 DEF Held
    <3>1. b[1] \in Files /\ len[b[1]] # 0
      BY DEF Written
    <3>2. QED
      BY <1>2, <3>1
  <2>3. QED
    BY <1>1, <2>1, <2>2 DEF Delivery!Expire, Held
<1>3. CASE CreateLive
  <2>1. PICK f \in Files : status[f] = "unborn" /\ status' = [status EXCEPT ![f] = "live"]
    BY <1>3 DEF CreateLive, NextUnborn
  <2>2. len[f] = 0 /\ len' = len
    BY <1>3, <2>1 DEF BytesInv, CreateLive
  <2>3. QED
    BY <1>2, <2>1, <2>2 DEF TypeInv, TypeOK, LogTypeOK
<1>4. CASE Rotate \/ DeleteOldest
  <2>1. /\ UNCHANGED len
        /\ \A f \in Files : status'[f] = status[f] \/ status[f] \in {"live", "rotated"}
    BY <1>4 DEF Rotate, DeleteOldest, TypeInv, TypeOK, LogTypeOK
  <2>2. QED
    BY <1>2, <2>1
<1>5. ASSUME NEW newline \in BOOLEAN, Append(newline)
      PROVE  Delivery!Write
  <2>1. PICK f \in LiveFiles :
          len[f] < MaxLen /\ len' = [len EXCEPT ![f] = @ + 1] /\ status' = status
    BY <1>5 DEF Append
  <2>2. /\ f \in Files /\ status[f] = "live" /\ len[f] \in Nat /\ len'[f] = len[f] + 1
        /\ \A g \in Files : g # f => len'[g] = len[g]
    BY <2>1 DEF TypeInv, TypeOK, LogTypeOK
  <2> DEFINE b == <<f, len[f] + 1>>
  <2>3. b \in Delivery!Bytes /\ b \in Files \X (1..MaxLen)
    BY <2>1, <2>2 DEF Delivery!Bytes, Files
  <2>4. \A c \in Written : Delivery!Older(c, b)
    <3> SUFFICES ASSUME NEW c \in Written PROVE c[1] < f \/ (c[1] = f /\ c[2] < len[f] + 1)
      BY DEF Delivery!Older
    <3>1. c[1] \in Files /\ c[2] \in 1..MaxLen /\ c[2] <= len[c[1]]
      BY DEF Written
    <3>2. ~(f < c[1])
      BY <2>2, <3>1 DEF NodeInv, Old, BytesInv
    <3>3. QED
      BY <2>2, <3>1, <3>2
  <2>5. Written' = Written \cup {b}
    <3>1. ASSUME NEW c \in Files \X (1..MaxLen)
          PROVE  c[2] <= len'[c[1]] <=> c[2] <= len[c[1]] \/ c = b
      <4>1. c[1] \in Files /\ c[2] \in Nat /\ c = <<c[1], c[2]>>
        OBVIOUS
      <4>2. CASE c[1] = f
        BY <2>2, <4>1, <4>2
      <4>3. CASE c[1] # f
        BY <2>2, <4>1, <4>3
      <4>4. QED
        BY <4>2, <4>3
    <3> HIDE DEF b
    <3>2. QED
      BY <2>3, <3>1 DEF Written
  <2>6. Held' = Held \cup {b}
    <3>1. OnNode' = OnNode /\ b[1] \in OnNode
      BY <2>1, <2>2
    <3> HIDE DEF b
    <3>2. QED
      BY <2>5, <3>1 DEF Held
  <2> HIDE DEF b
  <2>7. QED
    BY <1>1, <2>3, <2>4, <2>5, <2>6 DEF Delivery!Write, Held
<1>6. QED
  BY <1>3, <1>4, <1>5 DEF Node, Steady, Truncate

\* A put ships bytes once all that is older is accounted for.
LEMMA PutDelivers ==
  ASSUME TypeInv, PositionInv, DeliveryInv, pc = "put", Store, UNCHANGED nodeVars
  PROVE  Delivery!Ship
<1> USE PositionsTyped, PutsAt
<1>1. /\ stored' = stored \cup ChunkBytes /\ declared' = declared /\ ChunkBytes \subseteq Written
      /\ Behind(at, chunk.to, Written', stored', declared')
  BY StoreAccounts
<1>2. Written' = Written /\ Held' = Held
  BY DEF Written, Held, OnNode, LiveFiles, RotatedFiles, nodeVars
<1>3. stored \subseteq stored' /\ stored' \subseteq Written
  BY <1>1 DEF DeliveryInv, BytesInv
<1>4. ASSUME NEW b \in stored' \ stored, NEW c \in Written \cap Delivery!History(stored'),
             Delivery!Older(c, b)
      PROVE  c \in stored' \cup declared
  <2>1. b[1] = at /\ b[2] <= chunk.to /\ b[2] \in Int /\ c[1] \in Int /\ c[2] \in Int
    BY <1>1 DEF ChunkBytes
  <2>2. ~After(at, chunk.to, c)
    BY <1>4, <2>1 DEF After, Delivery!Older
  <2>3. \E d \in stored' : d[1] <= c[1]
    BY DEF Delivery!History
  <2>4. QED
    BY <1>1, <1>2, <2>2, <2>3 DEF Behind
<1>5. QED
  BY <1>1, <1>2, <1>3, <1>4 DEF Delivery!Ship, Held

\* What a gap declares is not on the node any more.
LEMMA GapDelivers ==
  ASSUME GapAcked \/ GapLostAck
  PROVE  Delivery!Declare
<1>1. stored' = stored /\ declared' = declared \cup LostAfterCursor /\ UNCHANGED nodeVars
  BY DEF GapAcked, GapLostAck
<1>2. LostAfterCursor \subseteq Written \ Held
  BY DEF LostAfterCursor, Held, OnNode, GoneFiles, LiveFiles, RotatedFiles
<1>3. Written' = Written /\ Held' = Held
  BY <1>1 DEF Written, Held, OnNode, LiveFiles, RotatedFiles, nodeVars
<1>4. QED
  BY <1>1, <1>2, <1>3 DEF Delivery!Declare, Held

LEMMA DeliversStep ==
  ASSUME Steady, TypeInv, PositionInv, DeliveryInv, [Next]_vars
  PROVE  [Delivery!Next]_(Delivery!vars)
<1>1. CASE UNCHANGED <<nodeVars, stored, declared>>
  BY <1>1 DEF Delivery!vars, Written, OnNode, LiveFiles, RotatedFiles, nodeVars
<1>2. CASE Node
  BY <1>2, NodeDelivers DEF Delivery!Next, PositionInv, DeliveryInv
<1>3. CASE PutAcked \/ PutLostAck
  BY <1>3, PutDelivers DEF Delivery!Next, PutAcked, PutLostAck
<1>4. CASE GapAcked \/ GapLostAck
  BY <1>4, GapDelivers DEF Delivery!Next
<1>5. CASE Ship
  <2>1. ~TruncationAcked /\ ~TruncationLostAck
    BY DEF TruncationAcked, TruncationLostAck, PositionInv, WorkInv, FileInv
  <2>2. QED
    BY <1>1, <1>3, <1>4, <1>5, <2>1
    DEF Ship, BeginCycle, LoadState, LoadFails, Glob, NoFiles, StartAtOldest, StartAtCursor,
        CursorFileGone, GapFails, NextFile, CycleDone, FileMoved, StatTruncated, StatCaughtUp,
        StatUnmarked, StatMore, ReadChunk, ReadNothing, PutFails, sinkVars
<1>6. CASE Crash \/ Midnight \/ UNCHANGED vars
  BY <1>1, <1>6 DEF Crash, Midnight, vars, sinkVars
<1>7. QED
  BY <1>2, <1>5, <1>6 DEF Next

\* While every inode names one file and no outage is longer than a recovery
\* looks back, the shipper implements AuditDelivery: bytes reach the sink once
\* all that is older in its history is stored or declared lost, and only what
\* is off the node is declared lost.
THEOREM ShipperDelivers == ASSUME Steady, Window PROVE Spec => Delivers
<1>1. TypeInv /\ PositionInv /\ DeliveryInv /\ [Next]_vars => [Delivery!Next]_(Delivery!vars)
  BY DeliversStep
<1>2. QED
  BY <1>1, DeliversInit, DeliveryHolds, PTL DEF Spec, Delivers, Delivery!Spec
=============================================================================
