--------------------------- MODULE StoreReplicate ---------------------------
(***************************************************************************)
(* The CNPG archive of one cluster on its two stores, and the CronJob that *)
(* copies the primary store to the replica one                             *)
(* (databases/cnpg-store-replicate-cronjob.yaml), while PostgreSQL, the    *)
(* barman plugin and its retention write and delete in the primary store;  *)
(* and what the two stages of the daily verification (databases/verify)    *)
(* would say of them at any moment.  A verdict is about one store at one   *)
(* moment, and no code relates the moments of two stores.                  *)
(*                                                                         *)
(* A copy or a removal may fail, the Job may be killed, an object may be   *)
(* lost or damaged, a store wiped: MaxFaults of these in all.  The age     *)
(* limits are passed or not, the timeline is the first.                    *)
(***************************************************************************)
EXTENDS BarmanCheck, Collect

CONSTANTS MaxFaults,
          MinPrune    \* a replica with more objects is not pruned by more than half

StoreAssumption ==
    /\ Ids \subseteq Nat /\ Segments \in (SUBSET Nat) \ {{}} /\ Timelines \in (SUBSET Nat) \ {{}}
    /\ {MaxFaults, MinPrune} \subseteq Nat /\ SampleWals \in Nat \ {0}

VARIABLES server,   \* PostgreSQL: its timeline, the segment it writes, the backup under way
          info,     \* what the backup.info of every base backup says
          store,    \* primary and replica: the content of every object
          aged,     \* replica objects past REPLICA_GRACE_DAYS
          copy,     \* the copy Job
          faults, lost    \* failures left; (ghost) an object was lost or damaged

vars == <<server, info, store, aged, copy, faults, lost>>

Nowhere == [o \in Objects |-> "absent"]
NoInfo == [status |-> "none", tl |-> 0, begin |-> 0, end |-> 0]
NoCopy == [pc |-> "idle", todo |-> {}, old |-> {}, blind |-> FALSE]

Init ==
    /\ server = [tl |-> Min(Timelines), n |-> Min(Segments), backup |-> 0]
    /\ info = [b \in Ids |-> NoInfo]
    /\ store = [s \in {"primary", "replica"} |-> Nowhere]
    /\ aged = {}
    /\ copy = NoCopy
    /\ faults = MaxFaults
    /\ lost = FALSE

Listing(s) == {o \in Objects : store[s][o] # "absent"}
Upload(o) == [store EXCEPT !["primary"][o] = "good"]
Answers == IF faults > 0 THEN BOOLEAN ELSE {TRUE}
Call(answered) == faults' = IF answered THEN faults ELSE faults - 1

-----------------------------------------------------------------------------
(* The primary store.                                                      *)

\* The segment is full, or archive_timeout is over: it is archived, and the next begins.
ArchiveWal ==
    /\ server.n \in Segments
    /\ store' = Upload(Wal(server.tl, server.n))
    /\ server' = [server EXCEPT !.n = @ + 1]
    /\ UNCHANGED <<info, aged, copy, faults, lost>>

StartBackup ==
    /\ server.backup = 0 /\ server.n \in Segments
    /\ \E b \in Ids :
         /\ info[b] = NoInfo /\ \A c \in Ids : c < b => info[c] # NoInfo
         /\ server' = [server EXCEPT !.backup = b]
         /\ info' = [info EXCEPT ![b] = [status |-> "none", tl |-> server.tl,
                                         begin |-> server.n, end |-> server.n]]
    /\ UNCHANGED <<store, aged, copy, faults, lost>>

\* The data, then backup.info: DONE before its end segment is archived, or FAILED.
EndBackup ==
    /\ server.backup # 0 /\ server.n \in Segments
    /\ LET b == server.backup
       IN \/ /\ info' = [info EXCEPT ![b].status = "DONE", ![b].end = server.n]
             /\ store' = [Upload(Data(b)) EXCEPT !["primary"][Info(b)] = "good"]
          \/ /\ info' = [info EXCEPT ![b].status = "FAILED"]
             /\ store' = Upload(Info(b))
    /\ server' = [server EXCEPT !.backup = 0]
    /\ UNCHANGED <<aged, copy, faults, lost>>

\* Retention: the older of two completed backups, with the segments before the newer.
Retain ==
    \E b, c \in Ids :
        /\ b < c /\ info[c].status = "DONE" /\ store["primary"][Info(b)] # "absent"
        /\ store' = [store EXCEPT !["primary"] = [o \in Objects |->
                       IF \/ o \in {Data(b), Info(b)}
                          \/ \E t \in Timelines, n \in Segments : o = Wal(t, n) /\ n < info[c].begin
                       THEN "absent" ELSE @[o]]]
        /\ UNCHANGED <<server, info, aged, copy, faults, lost>>

\* An object of either store is lost or damaged, or the whole store.
Lose ==
    /\ faults > 0 /\ faults' = faults - 1 /\ lost' = TRUE
    /\ \E s \in {"primary", "replica"} :
         \/ \E o \in Listing(s), c \in {"absent", "empty", "corrupt"} : store' = [store EXCEPT ![s][o] = c]
         \/ Listing(s) # {} /\ store' = [store EXCEPT ![s] = Nowhere]
    /\ UNCHANGED <<server, info, aged, copy>>

\* REPLICA_GRACE_DAYS go by, far longer than a run takes.
Age ==
    /\ copy.pc = "idle" /\ aged # Listing("replica")
    /\ aged' = Listing("replica")
    /\ UNCHANGED <<server, info, store, copy, faults, lost>>

-----------------------------------------------------------------------------
(* The copy Job.                                                           *)

IsInfo(o) == o[1] = "info"
\* What the Job prunes at its end: past the grace period, not on the primary, and neither
\* all of an empty primary nor more than half of the replica.
Prunable == LET held == Listing("replica")
                old == (held \cap aged) \ Listing("primary")
            IN IF Listing("primary") = {} \/ (Cardinality(held) > MinPrune /\ 2 * Cardinality(old) > Cardinality(held))
               THEN {} ELSE old

\* list pa, list ra: what the replica lacks, or holds with another size.
Differs(o) == /\ store["primary"][o] # "absent"
              /\ \/ store["replica"][o] = "absent"
                 \/ (store["primary"][o] = "empty") # (store["replica"][o] = "empty")
List ==
    /\ copy.pc = "idle"
    /\ copy' = [pc |-> "copy", todo |-> {o \in Objects : Differs(o)},
                old |-> Prunable, blind |-> FALSE]
    /\ UNCHANGED <<server, info, store, aged, faults, lost>>

\* Mutant: the order of the listing, in which backup.info comes first.
NextListed(todo) == CHOOSE o \in todo : IsInfo(o) \/ \A p \in todo : ~IsInfo(p)
\* The order of the copies: backup.info last.
NextOf(todo) == CHOOSE o \in todo : ~IsInfo(o) \/ \A p \in todo : IsInfo(p)

\* backup.info waits for the segment that ends its backup; one whose end_wal cannot
\* be read does not wait.
Waits(o, read) == /\ IsInfo(o) /\ read
                  /\ store["primary"][o] = "good" /\ info[o[2]].status = "DONE"
                  /\ store["replica"][Wal(info[o[2]].tl, info[o[2]].end)] = "absent"

\* One turn of the loop: the object is copied as it is now, or the copy fails (as it
\* does when the object has left the primary) and the loop goes on.
CopyNext ==
    /\ copy.pc = "copy" /\ copy.todo # {}
    /\ LET o == NextOf(copy.todo)
       IN \E read, copied \in Answers :
            /\ (read \/ copied) /\ (~read => IsInfo(o))
            /\ Call(read /\ copied)
            /\ LET put == ~Waits(o, read) /\ copied /\ store["primary"][o] # "absent"
               IN /\ store' = IF put THEN [store EXCEPT !["replica"][o] = store["primary"][o]] ELSE store
                  /\ aged' = IF put THEN aged \ {o} ELSE aged
            /\ copy' = [copy EXCEPT !.todo = @ \ {o}, !.blind = @ \/ ~(read /\ copied)]
    /\ UNCHANGED <<server, info, lost>>

Prune ==
    /\ copy.pc = "copy" /\ copy.todo = {}
    /\ \E done \in Answers :
         /\ Call(done)
         /\ \E gone \in IF done THEN {copy.old} ELSE {copy.old \ {o} : o \in copy.old} :
              store' = [store EXCEPT !["replica"] = [o \in Objects |-> IF o \in gone THEN "absent" ELSE @[o]]]
    /\ copy' = NoCopy
    /\ UNCHANGED <<server, info, aged, lost>>

\* The deadline, or a node that is lost.
KillCopy ==
    /\ copy.pc # "idle" /\ faults > 0 /\ Call(FALSE)
    /\ copy' = NoCopy
    /\ UNCHANGED <<server, info, store, aged, lost>>

Next == \/ ArchiveWal \/ StartBackup \/ EndBackup \/ Retain \/ Lose \/ Age
        \/ List \/ CopyNext \/ Prune \/ KillCopy
Spec == Init /\ [][Next]_vars

-----------------------------------------------------------------------------
Archive(s) == [obj |-> store[s], info |-> info, young |-> FALSE]
Whole(s, b) == /\ store[s][Data(b)] # "absent"
               /\ store[s][Wal(info[b].tl, info[b].end)] # "absent"

\* A base backup never looks complete on the replica before its data and its end
\* segment are there (the header of the CronJob, lines 5-6).
ReplicaBackupIsWhole ==
    \A b \in Ids : info[b].status = "DONE" /\ store["replica"][Info(b)] # "absent" => Whole("replica", b)

\* It is so of every backup.info that arrives, unless a call of that very run failed
\* or an object had been lost.
AnnouncedWhole ==
    [][\A b \in Ids :
         store["replica"][Info(b)] = "absent" /\ store'["replica"][Info(b)] # "absent"
            => info[b].status # "DONE" \/ Whole("replica", b) \/ copy.blind \/ faults' < faults
               \/ lost]_vars

-----------------------------------------------------------------------------
(* The verification.                                                       *)

\* replica_gap: a key the primary has held for longer than the grace period (any it
\* holds may be one) that the replica lacks, or holds with another size.
Lagging == \E o \in Objects : Differs(o)

\* main of barman_check.py: what the two stores may give, with an archive that is
\* young or not.  A store that cannot be read is a failed row.
Status(s, young) == CheckCluster([Archive(s) EXCEPT !.young = young])
Statuses ==
    {[s \in Stores |-> Status(s, young)] : young \in BOOLEAN}
    \cup {[s \in Stores |-> IF s = "primary" THEN Status(s, FALSE) ELSE r] :
            r \in IF Lagging THEN {Status("replica", TRUE), "0"} ELSE {Status("replica", TRUE)}}

\* The other cluster passes on both stores: whatever else it gives can only make the
\* dataset fail.
CnpgRows(this) == {[ds |-> "cnpg", of |-> c, s |-> s, age |-> Unknown,
                    st |-> IF c = "this" THEN this[s] ELSE "1"] : c \in {"this", "other"}, s \in Stores}
NothingIntact == [d \in {"openbao", "etcd"} |-> [s \in Stores |-> FALSE]]
Published(this) == Ok(Judged(CnpgRows(this), NothingIntact), "cnpg")

\* The dataset cnpg is published as ok only when the archive restores from either
\* store, whatever was lost or half copied - but for a corrupt segment out of the
\* sample, and for an archive neither store has a completed backup of, which is taken
\* for a new one.
GreenMeansRestorable ==
    (\E this \in Statuses : Published(this) = "1") =>
        \/ \A s \in Stores : Restorable(Archive(s)) \/ Unseen(Archive(s))
        \/ \A s \in Stores : Done(Archive(s)) = {}
=============================================================================
