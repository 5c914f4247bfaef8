--------------------------- MODULE BackupContent ----------------------------
(***************************************************************************)
(* What the backup verifier concludes from the content of a backup         *)
(* (databases/verify/collect.py): the etcd snapshot, the raft snapshot of  *)
(* OpenBao, and the Backup objects of Longhorn.                            *)
(*                                                                         *)
(* A file is what was written and what happened to it since: bytes were    *)
(* changed in places (bad), the tail was cut off.  Sizes are units, a page *)
(* is four, the SHA-256 trailer one.  FNV-1a and SHA-256 do not collide: a *)
(* page or a file verifies exactly when nothing in it changed.             *)
(***************************************************************************)
EXTENDS Integers, FiniteSets

CONSTANTS MaxPages, MaxVolumes   \* bounds

PageSize == 4
TrailerSize == 1

-----------------------------------------------------------------------------
(* An etcd snapshot: pages 0 and 1 are the metas, each with its high-water  *)
(* mark and its transaction, then data; a snapshot stream ends with the     *)
(* hash of all pages.                                                       *)

\* The places of a file are its pages, from 0 on, and the trailer after them.
Length(f) == f.pages * PageSize + (IF f.hashed THEN TrailerSize ELSE 0) - f.cut

\* Mutant: the high-water mark of the first meta page is the one that counts.
FirstMark(f) == f.mark[0]
\* The metas are written in turn: the one of the later transaction counts.
HighWater(f) == IF f.txid[1] > f.txid[0] THEN f.mark[1] ELSE f.mark[0]

\* check_bolt: both metas verify, the length is that of whole pages or of whole pages
\* and a trailer, all pages up to the mark are there, and the trailer, where there is
\* one, is the hash of the rest.
Body(f) == Length(f) - (Length(f) % PageSize)
CheckBolt(f) ==
    /\ Length(f) >= 2 * PageSize
    /\ f.bad \cap {0, 1} = {}
    /\ Length(f) % PageSize \in {0, TrailerSize}
    /\ Body(f) >= HighWater(f) * PageSize
    /\ Length(f) % PageSize = TrailerSize =>
         f.hashed /\ f.cut = 0 /\ f.bad = {}    \* the last 32 bytes are the hash of what is before them

\* check_etcd: the restored snapshot is one file.
CheckEtcd(files) == Cardinality(files) = 1 /\ \A f \in files : CheckBolt(f)

\* A pass: every page in use is there, and as written when the hash is; a file whose
\* hash was cut off with nothing else is taken for one that never had any.
EtcdPassRestores(f) ==
    CheckEtcd({f}) => /\ \A i, j \in {0, 1} : f.txid[i] > f.txid[j] => f.mark[i] * PageSize <= Length(f)
                      /\ f.bad \cap {0, 1} = {}
                      /\ f.bad = {} \/ ~f.hashed \/ f.cut >= TrailerSize
\* What nothing happened to passes.
EtcdWholePasses(f) == f.bad = {} /\ f.cut = 0 /\ HighWater(f) <= f.pages => CheckEtcd({f})

Files == UNION {[pages : {n}, hashed : BOOLEAN, cut : 0..(PageSize + 1), bad : SUBSET (0..n),
                 mark : [{0, 1} -> 2..n], txid : {[i \in {0, 1} |-> IF i = o THEN 2 ELSE 1] : o \in {0, 1}}] :
                   n \in 2..MaxPages}

-----------------------------------------------------------------------------
(* A raft snapshot: a tar of three parts, one of them the list of hashes.   *)

Parts == {"meta.json", "state.bin", "SHA256SUMS"}
\* Mutant: an empty part is a part.
PresentOnly(s) == Parts \subseteq s.members
Present(s) == Parts \subseteq s.members \ s.empty

\* check_openbao: readable, whole, and every part the list names has the hash it says.
CheckOpenbao(s) == s.there /\ s.reads /\ Present(s) /\ s.listed \cap s.members \cap s.bad = {}

\* The list as raft writes it names the two other parts; a damaged one names nothing
\* that is there, and the parts are then not verified.
OpenbaoPassIsIntact(s) ==
    CheckOpenbao(s) => /\ Parts \subseteq s.members /\ s.empty \cap Parts = {}
                       /\ s.bad \subseteq {"SHA256SUMS"} \/ "SHA256SUMS" \in s.bad
OpenbaoIntactPasses(s) ==
    s.there /\ s.reads /\ s.members = Parts /\ s.bad = {} /\ s.empty = {} => CheckOpenbao(s)

Snapshots == {s \in [there : BOOLEAN, reads : BOOLEAN, members : SUBSET Parts, empty : SUBSET Parts,
                     bad : SUBSET Parts, listed : {{}, {"meta.json", "state.bin"}}] :
                /\ s.empty \subseteq s.members /\ s.bad \subseteq s.members
                /\ s.listed = IF "SHA256SUMS" \in s.bad THEN {} ELSE {"meta.json", "state.bin"}}

-----------------------------------------------------------------------------
(* Longhorn: the last backup each volume names, and the Backup objects.     *)

None == -1
\* age_of: an age that cannot be parsed is none.
AgeOf(b) == IF b.dated THEN b.age ELSE None

\* Mutant: a volume without its last backup is left out.
BadNamed(w) == {v \in w.volumes : w.names[v] \in DOMAIN w.backups /\ ~w.backups[w.names[v]].whole}
\* whole: state Completed, no error, a size.
Bad(w) == {v \in w.volumes : w.names[v] \in DOMAIN w.backups => ~w.backups[w.names[v]].whole}

\* longhorn: nothing to say without the objects or without a volume, a failure when
\* the objects cannot be read; the age is that of the youngest.
Longhorn(w) ==
    IF w.answer = "error" THEN [st |-> "0", age |-> None]
    ELSE IF w.answer = "absent" \/ w.volumes = {} THEN [st |-> "skip", age |-> None]
    ELSE LET ages == {AgeOf(w.backups[w.names[v]]) : v \in {u \in w.volumes : w.names[u] \in DOMAIN w.backups}} \ {None}
         IN [st |-> IF Bad(w) = {} THEN "1" ELSE "0",
             age |-> IF ages = {} THEN None ELSE CHOOSE a \in ages : \A b \in ages : a <= b]

\* A pass: every volume has a last backup, and it is whole.  (A volume whose last
\* backup is old passes, behind the age of the youngest.)
LonghornPassIsWhole(w) ==
    Longhorn(w).st = "1" => /\ w.answer = "read" /\ w.volumes # {}
                            /\ \A v \in w.volumes : w.names[v] \in DOMAIN w.backups /\ w.backups[w.names[v]].whole

Volumes == 1..MaxVolumes
Worlds == [answer : {"read", "absent", "error"}, volumes : SUBSET Volumes,
           names : [Volumes -> Volumes \cup {0}],
           backups : UNION {[bs -> [whole : BOOLEAN, dated : BOOLEAN, age : {1, 9}]] : bs \in SUBSET Volumes}]
=============================================================================
