---------------------------- MODULE CaseFilesProofs ----------------------------
(***************************************************************************)
(* Proofs about CaseFiles, for any tenants, cases, uploads, purges and     *)
(* downloads and any number of failures: a document is kept until its case *)
(* is due, and no file is left behind by a request that got an answer.     *)
(***************************************************************************)
EXTENDS CaseFiles, FiniteSetTheorems, WellFoundedInduction, TLAPS

(* Before its commit an upload has no row; when it commits, the file is     *)
(* complete, and whatever undoes it, a refusal or a failed commit, leaves   *)
(* no file.  A created document loses its file before its row, and both     *)
(* only after its case has been closed for a day; of the rows of the others *)
(* only an undo removes the file earlier.                                   *)
UploadOK(f) ==
    /\ upload[f] \in {"new", "refused", "save", "failed"} => file[f] = "none"
    /\ upload[f] \in {"new", "refused", "save", "replace", "commit"}
        => f \notin rows
    /\ upload[f] = "commit" => file[f] = "complete"
    /\ upload[f] = "created" =>
          \/ f \in rows /\ file[f] = "complete"
          \/ age[CaseOf[f]] >= 1 /\ (f \in rows \/ file[f] = "none")
    /\ f \in rows /\ upload[f] # "failed"
        => file[f] = "complete" \/ age[CaseOf[f]] >= 1

(* Uploads that may have a row: all but the first are on their way to an    *)
(* error or have been answered with one.                                    *)
Committed == {"created", "undo", "failed", "broken", "crashed"}

(* A purge has chosen cases that were closed for a day, and dooms documents *)
(* of theirs whose row it has seen.                                         *)
RunOK(run) ==
    /\ run.at = "policy" => run.todo # {}
    /\ run.at \in {"select", "files"} => run.days >= 1
    /\ run.at # "files" => run.chosen = {} /\ run.doomed = {}
    /\ \A c \in run.chosen : age[c] >= 1
    /\ \A f \in run.doomed :
          CaseOf[f] \in run.chosen /\ upload[f] \in Committed
PurgeOK(p) == RunOK(purge[p])

(* A download is of a document that has or had a row *)
ReaderOK(r) ==
    /\ reader[r].at # "idle" => upload[reader[r].file] \in Committed
    /\ upload[reader[r].file] = "created" /\ reader[r].at \in {"404", "410", "500"}
        => age[CaseOf[reader[r].file]] >= 1

Inv ==
    /\ TypeOK
    /\ \A f \in Files : UploadOK(f)
    /\ \A p \in Purgers : PurgeOK(p)
    /\ \A r \in Readers : ReaderOK(r)

USE TenantsAssumption, OwnersAssumption, FilesAssumption, WorkersAssumption,
    BoundsAssumption

(* A set of numbers has a least one: the smallest of the intervals that end *)
(* in it, which are finite sets ordered by inclusion.                       *)
LEMMA Least ==
    ASSUME NEW T \in SUBSET Nat, T # {}
    PROVE  \E t \in T : \A u \in T : t <= u
<1> DEFINE Up(t) == 1 .. t
           Ups == {Up(t) : t \in T}
<1>1. Ups \subseteq FiniteSubsetsOf(Nat) /\ Ups # {}
    <2>1. ASSUME NEW t \in T
          PROVE  Up(t) \in SUBSET Nat /\ IsFiniteSet(Up(t))
        BY FS_Interval
    <2> QED
        BY <2>1 DEF FiniteSubsetsOf
<1>2. IsWellFoundedOn(StrictSubsetOrdering(Nat), FiniteSubsetsOf(Nat))
    BY FS_StrictSubsetOrderingWellFounded
<1>3. PICK a \in Ups : \A b \in Ups : <<b, a>> \notin StrictSubsetOrdering(Nat)
    <2> HIDE DEF Ups
    <2> QED
        BY <1>1, <1>2, WFMin
<1>4. PICK t \in T : a = Up(t)
    OBVIOUS
<1>5. ASSUME NEW u \in T PROVE t <= u
    <2> SUFFICES ASSUME u < t PROVE FALSE
        OBVIOUS
    <2>1. Up(u) \subseteq Up(t) /\ Up(u) \in SUBSET Nat /\ Up(t) \in SUBSET Nat
        OBVIOUS
    <2>2. t \in Up(t) /\ t \notin Up(u)
        OBVIOUS
    <2>3. <<Up(u), Up(t)>> \in StrictSubsetOrdering(Nat)
        BY <2>1, <2>2 DEF StrictSubsetOrdering
    <2>4. Up(u) \in Ups
        OBVIOUS
    <2> QED
        BY <1>3, <1>4, <2>3, <2>4
<1> QED
    BY <1>5

(* A run that has tenants left is at one of them *)
LEMMA CurrentIsTodo ==
    ASSUME NEW p \in Purgers, purge[p].todo \subseteq Nat, purge[p].todo # {}
    PROVE  Current(p) \in purge[p].todo
BY Least DEF Current

LEMMA InitInv == Init => Inv
BY DEF Init, Inv, TypeOK, UploadOK, PurgeOK, RunOK, ReaderOK, Open, NoPurge,
       NotReading, InProgress, Outcomes, Reading

(* Policies, holds and time: cases only get older *)
LEMMA AdminInv ==
    ASSUME Inv,
           UNCHANGED <<anonymized, purgeAudits, rows, file, upload, purge,
                       reader, faults>>,
           policy' \in [Tenants -> 0 .. MaxDays], held' \subseteq Cases,
           age' \in [Cases -> Open .. MaxDays], \A c \in Cases : age[c] <= age'[c]
    PROVE  Inv'
<1> USE DEF Inv, TypeOK, Open
<1>1. TypeOK'
    OBVIOUS
<1>2. \A c \in Cases : age[c] >= 1 => age'[c] >= 1
    OBVIOUS
<1>3. ASSUME NEW f \in Files PROVE UploadOK(f)'
    BY <1>2 DEF UploadOK
<1>4. ASSUME NEW p \in Purgers PROVE PurgeOK(p)'
    BY <1>2 DEF PurgeOK, RunOK
<1>5. ASSUME NEW r \in Readers PROVE ReaderOK(r)'
    BY <1>2 DEF ReaderOK
<1> QED
    BY <1>1, <1>3, <1>4, <1>5

(* A step of an upload: it may change the row and the file of its own       *)
LEMMA OwnStep ==
    ASSUME Inv, NEW f \in Files, NEW from \in InProgress \cup {"new"},
           NEW to \in InProgress \cup Outcomes,
           UploadGoes(f, from, to),
           from = "undo" => to \in {"failed", "broken", "crashed"},
           UNCHANGED <<database, purge, reader>>, faults' \in 0 .. MaxFaults,
           rows' \in {rows, rows \cup {f}},
           file' \in [Files -> {"none", "temporary", "complete"}],
           \A g \in Files \ {f} : file'[g] = file[g],
           UploadOK(f)'
    PROVE  Inv'
<1> USE DEF Inv, TypeOK, UploadGoes, database
<1>1. TypeOK'
    BY DEF InProgress, Outcomes
<1>2. ASSUME NEW g \in Files
      PROVE  /\ g # f => upload'[g] = upload[g]
             /\ upload[g] \in Committed => upload'[g] \in Committed
             /\ upload[g] \in Committed =>
                  (upload[g] = "created" <=> upload'[g] = "created")
    BY DEF InProgress, Committed
<1>3. ASSUME NEW g \in Files PROVE UploadOK(g)'
    <2>1. CASE g # f
        BY <1>2, <2>1 DEF UploadOK
    <2> QED
        BY <2>1
<1>4. ASSUME NEW p \in Purgers PROVE PurgeOK(p)'
    BY <1>2 DEF PurgeOK, RunOK
<1>5. ASSUME NEW r \in Readers PROVE ReaderOK(r)'
    <2>1. reader[r].file \in Files
        OBVIOUS
    <2> QED
        BY <1>2, <2>1 DEF ReaderOK
<1> QED
    BY <1>1, <1>3, <1>4, <1>5

LEMMA UploadInv ==
    ASSUME Inv, NEW f \in Files,
           \/ Upload(f) \/ SaveFails(f) \/ CommitRaises(f) \/ UndoFails(f)
           \/ UploadCrashes(f)
    PROVE  Inv'
<1> USE DEF Inv, TypeOK, UploadOK, UploadGoes, PutFile, Fault, InProgress,
            Outcomes, Committed, database
<1>1. CASE BeginUpload(f)
    <2>1. UploadOK(f)'
        BY <1>1 DEF BeginUpload
    <2>2. PICK from \in InProgress \cup {"new"}, to \in InProgress \cup Outcomes :
             /\ UploadGoes(f, from, to)
             /\ from = "undo" => to \in {"failed", "broken", "crashed"}
        BY <1>1 DEF BeginUpload
    <2>3. /\ rows' \in {rows, rows \cup {f}} /\ file' = file
          /\ faults' \in 0 .. MaxFaults
          /\ UNCHANGED <<database, purge, reader>>
        BY <1>1 DEF BeginUpload
    <2>4. file' \in [Files -> {"none", "temporary", "complete"}]
        BY <2>3
    <2> HIDE DEF Inv, TypeOK, UploadOK, UploadGoes, InProgress, Outcomes, database
    <2> QED
        BY <2>1, <2>2, <2>3, <2>4, OwnStep
<1>2. CASE WriteTemporary(f)
    <2>1. UploadOK(f)'
        BY <1>2 DEF WriteTemporary
    <2>2. UploadGoes(f, "save", "replace") /\ faults' \in 0 .. MaxFaults
        BY <1>2 DEF WriteTemporary
    <2>3. /\ rows' \in {rows, rows \cup {f}}
          /\ file' \in [Files -> {"none", "temporary", "complete"}]
          /\ \A g \in Files \ {f} : file'[g] = file[g]
          /\ UNCHANGED <<database, purge, reader>>
        BY <1>2 DEF WriteTemporary
    <2> HIDE DEF Inv, TypeOK, UploadOK, UploadGoes, database
    <2> QED
        BY <2>1, <2>2, <2>3, OwnStep
<1>3. CASE Replace(f)
    <2>1. UploadOK(f)'
        BY <1>3 DEF Replace
    <2>2. UploadGoes(f, "replace", "commit") /\ faults' \in 0 .. MaxFaults
        BY <1>3 DEF Replace
    <2>3. /\ rows' \in {rows, rows \cup {f}}
          /\ file' \in [Files -> {"none", "temporary", "complete"}]
          /\ \A g \in Files \ {f} : file'[g] = file[g]
          /\ UNCHANGED <<database, purge, reader>>
        BY <1>3 DEF Replace
    <2> HIDE DEF Inv, TypeOK, UploadOK, UploadGoes, database
    <2> QED
        BY <2>1, <2>2, <2>3, OwnStep
<1>4. CASE CommitUpload(f)
    <2>1. UploadOK(f)'
        BY <1>4 DEF CommitUpload
    <2>2. UploadGoes(f, "commit", "created") /\ faults' \in 0 .. MaxFaults
        BY <1>4 DEF CommitUpload
    <2>3. /\ rows' \in {rows, rows \cup {f}}
          /\ file' \in [Files -> {"none", "temporary", "complete"}]
          /\ \A g \in Files \ {f} : file'[g] = file[g]
          /\ UNCHANGED <<database, purge, reader>>
        BY <1>4 DEF CommitUpload
    <2> HIDE DEF Inv, TypeOK, UploadOK, UploadGoes, database
    <2> QED
        BY <2>1, <2>2, <2>3, OwnStep
<1>5. CASE UndoUpload(f)
    <2>1. UploadOK(f)'
        BY <1>5 DEF UndoUpload
    <2>2. UploadGoes(f, "undo", "failed") /\ faults' \in 0 .. MaxFaults
        BY <1>5 DEF UndoUpload
    <2>3. /\ rows' \in {rows, rows \cup {f}}
          /\ file' \in [Files -> {"none", "temporary", "complete"}]
          /\ \A g \in Files \ {f} : file'[g] = file[g]
          /\ UNCHANGED <<database, purge, reader>>
        BY <1>5 DEF UndoUpload
    <2> HIDE DEF Inv, TypeOK, UploadOK, UploadGoes, database
    <2> QED
        BY <2>1, <2>2, <2>3, OwnStep
<1>6. CASE SaveFails(f)
    <2>1. UploadOK(f)'
        BY <1>6 DEF SaveFails
    <2>2. PICK from \in InProgress \cup {"new"}, to \in InProgress \cup Outcomes :
             /\ UploadGoes(f, from, to)
             /\ from = "undo" => to \in {"failed", "broken", "crashed"}
        BY <1>6 DEF SaveFails
    <2>3. /\ rows' \in {rows, rows \cup {f}} /\ file' = file
          /\ faults' \in 0 .. MaxFaults
          /\ UNCHANGED <<database, purge, reader>>
        BY <1>6 DEF SaveFails
    <2>4. file' \in [Files -> {"none", "temporary", "complete"}]
        BY <2>3
    <2> HIDE DEF Inv, TypeOK, UploadOK, UploadGoes, InProgress, Outcomes, database
    <2> QED
        BY <2>1, <2>2, <2>3, <2>4, OwnStep
<1>7. CASE CommitRaises(f)
    <2>1. UploadOK(f)'
        BY <1>7 DEF CommitRaises
    <2>2. UploadGoes(f, "commit", "undo") /\ faults' \in 0 .. MaxFaults
        BY <1>7 DEF CommitRaises
    <2>3. /\ rows' \in {rows, rows \cup {f}}
          /\ file' \in [Files -> {"none", "temporary", "complete"}]
          /\ \A g \in Files \ {f} : file'[g] = file[g]
          /\ UNCHANGED <<database, purge, reader>>
        BY <1>7 DEF CommitRaises
    <2> HIDE DEF Inv, TypeOK, UploadOK, UploadGoes, database
    <2> QED
        BY <2>1, <2>2, <2>3, OwnStep
<1>8. CASE UploadCrashes(f)
    <2>1. UploadOK(f)'
        BY <1>8 DEF UploadCrashes
    <2>2. PICK from \in InProgress \cup {"new"}, to \in InProgress \cup Outcomes :
             /\ UploadGoes(f, from, to)
             /\ from = "undo" => to \in {"failed", "broken", "crashed"}
        BY <1>8 DEF UploadCrashes
    <2>3. /\ rows' \in {rows, rows \cup {f}} /\ file' = file
          /\ faults' \in 0 .. MaxFaults
          /\ UNCHANGED <<database, purge, reader>>
        BY <1>8 DEF UploadCrashes
    <2>4. file' \in [Files -> {"none", "temporary", "complete"}]
        BY <2>3
    <2> HIDE DEF Inv, TypeOK, UploadOK, UploadGoes, InProgress, Outcomes, database
    <2> QED
        BY <2>1, <2>2, <2>3, <2>4, OwnStep
<1>9. CASE UndoFails(f)
    <2>1. UploadOK(f)'
        BY <1>9 DEF UndoFails
    <2>2. UploadGoes(f, "undo", "broken") /\ faults' \in 0 .. MaxFaults
        BY <1>9 DEF UndoFails
    <2>3. /\ rows' \in {rows, rows \cup {f}}
          /\ file' \in [Files -> {"none", "temporary", "complete"}]
          /\ \A g \in Files \ {f} : file'[g] = file[g]
          /\ UNCHANGED <<database, purge, reader>>
        BY <1>9 DEF UndoFails
    <2> HIDE DEF Inv, TypeOK, UploadOK, UploadGoes, database
    <2> QED
        BY <2>1, <2>2, <2>3, OwnStep
<1> QED
    BY <1>1, <1>2, <1>3, <1>4, <1>5, <1>6, <1>7, <1>8, <1>9 DEF Upload

PurgeType == [at : {"idle", "policy", "select", "files"},
              todo : SUBSET Tenants, days : 0 .. MaxDays,
              chosen : SUBSET Cases, seen : SUBSET Cases, doomed : SUBSET Files]

(* A purge that only reads: its own state is all that changes *)
LEMMA ReadingPurge ==
    ASSUME Inv, NEW p \in Purgers, NEW run \in PurgeType,
           PurgeGoes(p, run), RunOK(run),
           UNCHANGED <<database, rows, file, upload, reader>>,
           faults' \in 0 .. MaxFaults
    PROVE  Inv'
<1> USE DEF Inv, TypeOK, database
<1>1. purge' \in [Purgers -> PurgeType]
    BY DEF PurgeGoes, PurgeType
<1>2. TypeOK'
    BY <1>1 DEF PurgeType
<1>3. ASSUME NEW q \in Purgers PROVE PurgeOK(q)'
    <2>1. purge'[q] = IF q = p THEN run ELSE purge[q]
        BY DEF PurgeGoes
    <2>2. RunOK(purge'[q])
        BY <2>1 DEF PurgeOK
    <2> QED
        BY <2>2 DEF PurgeOK, RunOK
<1>4. ASSUME NEW f \in Files PROVE UploadOK(f)'
    BY DEF UploadOK
<1>5. ASSUME NEW r \in Readers PROVE ReaderOK(r)'
    BY DEF ReaderOK
<1> QED
    BY <1>2, <1>3, <1>4, <1>5

(* A run at the start, at a tenant or at its end, is in order *)
LEMMA NewRun ==
    ASSUME NEW tenants \in SUBSET Tenants, tenants # {},
           NEW run \in {NoPurge, [NoPurge EXCEPT !.at = "policy", !.todo = tenants]}
    PROVE  run \in PurgeType /\ RunOK(run)
<1>1. NoPurge \in PurgeType /\ NoPurge.at = "idle"
      /\ NoPurge.chosen = {} /\ NoPurge.doomed = {}
    BY DEF NoPurge, PurgeType
<1>2. CASE run = NoPurge
    BY <1>1, <1>2 DEF RunOK
<1>3. CASE run = [NoPurge EXCEPT !.at = "policy", !.todo = tenants]
    <2>1. /\ run \in PurgeType /\ run.at = "policy" /\ run.todo = tenants
          /\ run.chosen = {} /\ run.doomed = {}
        BY <1>1, <1>3 DEF PurgeType
    <2> QED
        BY <2>1 DEF RunOK
<1> QED
    BY <1>2, <1>3

LEMMA NextTenantOK ==
    ASSUME TypeOK, NEW p \in Purgers
    PROVE  NextTenant(p) \in PurgeType /\ RunOK(NextTenant(p))
<1> DEFINE rest == purge[p].todo \ {Current(p)}
<1>1. rest \subseteq Tenants
    BY DEF TypeOK
<1>2. CASE rest = {}
    BY <1>2 DEF NextTenant, NoPurge, PurgeType, RunOK
<1>3. CASE rest # {}
    BY <1>1, <1>3, NewRun DEF NextTenant
<1> QED
    BY <1>2, <1>3

LEMMA StartInv ==
    ASSUME Inv, NEW p \in Purgers,
           StartWorker(p) \/ (\E t \in Tenants : StartRequest(p, t)) \/ PurgeFails(p)
    PROVE  Inv'
<1>1. \E run \in PurgeType : PurgeGoes(p, run) /\ RunOK(run)
    <2>1. CASE StartWorker(p)
        <3>1. Served \in SUBSET Tenants /\ Served # {}
            BY <2>1 DEF Served, StartWorker
        <3> QED
            BY <2>1, <3>1, NewRun DEF StartWorker
    <2>2. CASE \E t \in Tenants : StartRequest(p, t)
        <3>1. PICK t \in Tenants : StartRequest(p, t)
            BY <2>2
        <3>2. {t} \in SUBSET Tenants /\ {t} # {}
            OBVIOUS
        <3> QED
            BY <3>1, <3>2, NewRun DEF StartRequest
    <2>3. CASE PurgeFails(p)
        BY <2>3 DEF PurgeFails, NoPurge, PurgeType, RunOK
    <2> QED
        BY <2>1, <2>2, <2>3
<1>2. /\ UNCHANGED <<database, rows, file, upload, reader>>
      /\ faults' \in 0 .. MaxFaults
    <2>1. faults \in 0 .. MaxFaults
        BY DEF Inv, TypeOK
    <2>2. CASE PurgeFails(p)
        BY <2>1, <2>2 DEF PurgeFails, Fault
    <2>3. CASE StartWorker(p) \/ \E t \in Tenants : StartRequest(p, t)
        BY <2>1, <2>3 DEF StartWorker, StartRequest
    <2> QED
        BY <2>2, <2>3
<1> QED
    BY <1>1, <1>2, ReadingPurge

LEMMA ReadPolicyInv ==
    ASSUME Inv, NEW p \in Purgers, ReadPolicy(p)
    PROVE  Inv'
<1>1. Current(p) \in Tenants
    <2>1. purge[p].todo # {} /\ purge[p].todo \subseteq Tenants
        BY DEF ReadPolicy, PurgeOK, RunOK, Inv, TypeOK
    <2> QED
        BY <2>1, CurrentIsTodo
<1>2. /\ UNCHANGED <<database, rows, file, upload, reader>>
      /\ faults' \in 0 .. MaxFaults
    BY DEF ReadPolicy, Inv, TypeOK
<1>3. CASE policy[Current(p)] = 0
    <2>1. PurgeGoes(p, NextTenant(p))
        BY <1>3 DEF ReadPolicy
    <2> QED
        BY <1>2, <2>1, NextTenantOK, ReadingPurge DEF Inv
<1>4. CASE policy[Current(p)] # 0
    <2> DEFINE run == [purge[p] EXCEPT !.at = "select",
                                       !.days = policy[Current(p)]]
    <2>1. PurgeGoes(p, run)
        BY <1>4 DEF ReadPolicy
    <2>2. policy[Current(p)] \in 1 .. MaxDays
        <3>1. policy \in [Tenants -> 0 .. MaxDays]
            BY DEF Inv, TypeOK
        <3>2. policy[Current(p)] \in 0 .. MaxDays
            BY <1>1, <3>1
        <3> HIDE DEF run
        <3> QED
            BY <1>4, <3>2
    <2>3. purge[p] \in PurgeType /\ purge[p].at = "policy"
        BY DEF Inv, TypeOK, PurgeType, ReadPolicy
    <2>4. /\ run \in PurgeType /\ run.at = "select" /\ run.days >= 1
          /\ run.chosen = purge[p].chosen /\ run.doomed = purge[p].doomed
        <3> DEFINE days == policy[Current(p)]
        <3>1. days \in 0 .. MaxDays /\ days >= 1
            BY <2>2
        <3> HIDE DEF days
        <3>2. run = [purge[p] EXCEPT !.at = "select", !.days = days]
            BY DEF days
        <3> HIDE DEF run
        <3> QED
            BY <2>3, <3>1, <3>2 DEF PurgeType
    <2> HIDE DEF run
    <2>5. RunOK(run)
        BY <2>3, <2>4 DEF Inv, PurgeOK, RunOK
    <2> QED
        BY <1>2, <2>1, <2>4, <2>5, ReadingPurge
<1> QED
    BY <1>3, <1>4

LEMMA SelectDueInv ==
    ASSUME Inv, NEW p \in Purgers, SelectDue(p)
    PROVE  Inv'
<1>1. /\ UNCHANGED <<database, rows, file, upload, reader>>
      /\ faults' \in 0 .. MaxFaults
    BY DEF SelectDue, Inv, TypeOK
<1>2. CASE Due(p) = {}
    <2>1. PurgeGoes(p, NextTenant(p))
        BY <1>2 DEF SelectDue
    <2> QED
        BY <1>1, <2>1, NextTenantOK, ReadingPurge DEF Inv
<1>3. CASE Due(p) # {}
    <2> DEFINE run == [purge[p] EXCEPT !.at = "files", !.chosen = Due(p)]
    <2>1. PurgeGoes(p, run)
        BY <1>3 DEF SelectDue
    <2>2. purge[p] \in PurgeType /\ purge[p].at = "select"
        BY DEF Inv, TypeOK, PurgeType, SelectDue
    <2>3. purge[p].days >= 1 /\ purge[p].doomed = {}
        BY <2>2 DEF Inv, PurgeOK, RunOK
    <2>4. \A c \in Due(p) : c \in Cases /\ age[c] >= 1
        BY <2>2, <2>3 DEF Due, Open, Inv, TypeOK, PurgeType
    <2>5. /\ run \in PurgeType /\ run.at = "files" /\ run.days = purge[p].days
          /\ run.chosen = Due(p) /\ run.doomed = {}
        BY <2>2, <2>3, <2>4 DEF PurgeType
    <2> HIDE DEF run
    <2>6. RunOK(run)
        BY <2>3, <2>4, <2>5 DEF RunOK
    <2> QED
        BY <1>1, <2>1, <2>5, <2>6, ReadingPurge
<1> QED
    BY <1>2, <1>3

LEMMA SelectAttachmentsInv ==
    ASSUME Inv, NEW p \in Purgers, NEW c \in Cases, SelectAttachments(p, c)
    PROVE  Inv'
<1> DEFINE run == [purge[p] EXCEPT !.seen = @ \cup {c}, !.doomed = @ \cup RowsOf(c)]
<1>1. /\ UNCHANGED <<database, rows, file, upload, reader>>
      /\ faults' \in 0 .. MaxFaults /\ PurgeGoes(p, run)
    BY DEF SelectAttachments, Inv, TypeOK
<1>2. purge[p] \in PurgeType /\ purge[p].at = "files" /\ c \in purge[p].chosen
    BY DEF SelectAttachments, Inv, TypeOK, PurgeType
<1>3. \A f \in RowsOf(c) : f \in Files /\ CaseOf[f] = c /\ f \in rows
    BY DEF RowsOf, FilesOf
<1>4. \A f \in RowsOf(c) : upload[f] \in Committed
    BY <1>3 DEF Inv, TypeOK, UploadOK, Committed, InProgress, Outcomes
<1>5. /\ run \in PurgeType /\ run.at = "files" /\ run.days = purge[p].days
      /\ run.chosen = purge[p].chosen /\ run.doomed = purge[p].doomed \cup RowsOf(c)
    BY <1>2, <1>3 DEF PurgeType
<1> HIDE DEF run
<1>6. RunOK(run)
    BY <1>2, <1>3, <1>4, <1>5 DEF Inv, PurgeOK, RunOK
<1> QED
    BY <1>1, <1>5, <1>6, ReadingPurge

LEMMA UnlinkInv ==
    ASSUME Inv, NEW p \in Purgers, NEW f \in Files, Unlink(p, f)
    PROVE  Inv'
<1> USE DEF Inv, TypeOK, Unlink, PutFile, database
<1>1. TypeOK'
    OBVIOUS
<1>2. upload[f] \in Committed /\ age[CaseOf[f]] >= 1
    BY DEF PurgeOK, RunOK
<1>3. ASSUME NEW g \in Files PROVE UploadOK(g)'
    BY <1>2 DEF UploadOK, Committed
<1>4. ASSUME NEW q \in Purgers PROVE PurgeOK(q)'
    BY DEF PurgeOK, RunOK
<1>5. ASSUME NEW r \in Readers PROVE ReaderOK(r)'
    BY DEF ReaderOK
<1> QED
    BY <1>1, <1>3, <1>4, <1>5

(* The commit removes rows whose files are gone *)
LEMMA CommitPurgeInv ==
    ASSUME Inv, NEW p \in Purgers, CommitPurge(p)
    PROVE  Inv'
<1> USE DEF CommitPurge, PurgeCommitted
<1>1. NextTenant(p) \in PurgeType /\ RunOK(NextTenant(p))
    BY NextTenantOK DEF Inv
<1>2. purge' \in [Purgers -> PurgeType]
    BY <1>1 DEF Inv, TypeOK, PurgeGoes, PurgeType
<1>3. TypeOK'
    BY <1>2 DEF Inv, TypeOK, PurgeType
<1>4. ASSUME NEW f \in Files, f \in purge[p].doomed
      PROVE  upload[f] \in Committed /\ age[CaseOf[f]] >= 1 /\ file[f] = "none"
    BY <1>4 DEF Inv, PurgeOK, RunOK, Unlinked
<1>5. ASSUME NEW f \in Files PROVE UploadOK(f)'
    BY <1>4 DEF Inv, UploadOK, Committed
<1>6. ASSUME NEW q \in Purgers PROVE PurgeOK(q)'
    <2>1. purge'[q] = IF q = p THEN NextTenant(p) ELSE purge[q]
        BY DEF PurgeGoes, Inv, TypeOK
    <2>2. RunOK(purge'[q])
        BY <1>1, <2>1 DEF PurgeOK, Inv
    <2> QED
        BY <2>2 DEF PurgeOK, RunOK
<1>7. ASSUME NEW r \in Readers PROVE ReaderOK(r)'
    BY DEF Inv, ReaderOK
<1> QED
    BY <1>3, <1>5, <1>6, <1>7 DEF Inv

LEMMA PurgeInv ==
    ASSUME Inv, NEW p \in Purgers,
           Purge(p) \/ PurgeFails(p) \/ (\E t \in Tenants : StartRequest(p, t))
    PROVE  Inv'
<1>1. CASE \E c \in Cases : SelectAttachments(p, c)
    BY <1>1, SelectAttachmentsInv
<1>2. CASE \E f \in Files : Unlink(p, f)
    BY <1>2, UnlinkInv
<1> QED
    BY <1>1, <1>2, StartInv, ReadPolicyInv, SelectDueInv, CommitPurgeInv DEF Purge

(* A download reads what is promised of its document *)
LEMMA DownloadInv ==
    ASSUME Inv, NEW r \in Readers, Download(r)
    PROVE  Inv'
<1>1. /\ UNCHANGED <<database, rows, file, upload, purge, faults>>
      /\ \A q \in Readers \ {r} : reader'[q] = reader[q]
    BY DEF Download, BeginDownload, ReadRow, OpenFile, SendFile, Answers, Inv, TypeOK
<1>2. TypeOK' /\ ReaderOK(r)'
    <2> USE DEF Inv, TypeOK, ReaderOK, Answers, database
    <2>1. ASSUME NEW f \in Files, BeginDownload(r, f)
          PROVE  TypeOK' /\ ReaderOK(r)'
        <3>1. upload[f] \in Committed
            BY <2>1 DEF BeginDownload, UploadOK, Committed, InProgress, Outcomes
        <3>2. /\ reader' = [reader EXCEPT ![r] = [at |-> "row", file |-> f]]
              /\ UNCHANGED <<database, rows, file, upload, purge, faults>>
            BY <2>1 DEF BeginDownload
        <3> QED
            BY <3>1, <3>2 DEF Reading
    <2>2. reader[r].at # "idle" =>
             /\ reader[r].file \in Files
             /\ UploadOK(reader[r].file)
             /\ upload[reader[r].file] \in Committed
        OBVIOUS
    <2>3. CASE ReadRow(r)
        BY <2>2, <2>3 DEF ReadRow, UploadOK, Reading
    <2>4. CASE OpenFile(r)
        BY <2>2, <2>4 DEF OpenFile, UploadOK, Reading
    <2>5. CASE SendFile(r)
        BY <2>2, <2>5 DEF SendFile, UploadOK, Reading
    <2> QED
        BY <2>1, <2>3, <2>4, <2>5 DEF Download
<1>3. ASSUME NEW f \in Files PROVE UploadOK(f)'
    BY <1>1 DEF Inv, UploadOK, database
<1>4. ASSUME NEW p \in Purgers PROVE PurgeOK(p)'
    BY <1>1 DEF Inv, PurgeOK, RunOK, database
<1>5. ASSUME NEW q \in Readers PROVE ReaderOK(q)'
    BY <1>1, <1>2 DEF Inv, ReaderOK, database
<1> QED
    BY <1>2, <1>3, <1>4, <1>5 DEF Inv

LEMMA StepInv == Inv /\ [Next]_vars => Inv'
<1> SUFFICES ASSUME Inv, [Next]_vars PROVE Inv'
    OBVIOUS
<1>1. ASSUME NEW t \in Tenants, NEW days \in 1 .. MaxDays, SetPolicy(t, days)
      PROVE  Inv'
    BY <1>1, AdminInv DEF SetPolicy, Inv, TypeOK, Open
<1>2. ASSUME NEW c \in Cases, SetHold(c) \/ ReleaseHold(c) PROVE Inv'
    BY <1>2, AdminInv DEF SetHold, ReleaseHold, Inv, TypeOK, Open
<1>3. ASSUME NEW c \in Cases, Close(c) PROVE Inv'
    BY <1>3, AdminInv DEF Close, Inv, TypeOK, Open
<1>4. CASE Day
    BY <1>4, AdminInv DEF Day, Inv, TypeOK, Open
<1>5. CASE UNCHANGED vars
    BY <1>5, AdminInv DEF vars, database, Inv, TypeOK, Open
<1> QED
    BY <1>1, <1>2, <1>3, <1>4, <1>5, UploadInv, PurgeInv, DownloadInv DEF Next

THEOREM Invariance == Spec => []Inv
BY InitInv, StepInv, PTL DEF Spec

(* The variables stay in their types. *)
THEOREM TypeCorrect == Spec => []TypeOK
BY Invariance, PTL DEF Inv

(* A created document has its row and its file until its case is closed for *)
(* a day, and no download is told otherwise until then; only a commit that  *)
(* raised and took effect leaves a row without its file.                    *)
THEOREM DocumentsAreKept == Spec => []KeptUntilDue
<1>1. Inv => KeptUntilDue
    BY DEF Inv, TypeOK, UploadOK, ReaderOK, KeptUntilDue, Open
<1> QED
    BY <1>1, Invariance, PTL

(* A request that got an answer leaves no file without a row, unless        *)
(* writing or removing it failed.                                           *)
THEOREM NoOrphans == Spec => []NoFileWithoutRow
<1>1. Inv => NoFileWithoutRow
    BY DEF Inv, UploadOK, NoFileWithoutRow
<1> QED
    BY <1>1, Invariance, PTL
=============================================================================
