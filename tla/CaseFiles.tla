------------------------------ MODULE CaseFiles ------------------------------
(***************************************************************************)
(* Attachments of candidate cases and the retention purge.                 *)
(*                                                                         *)
(* An attachment is a row in the database and a file in a directory.       *)
(* Uploads write the file and then commit the row; a purge removes the     *)
(* files and then commits the removal of the rows together with the        *)
(* anonymized case.  Uploads, purges, downloads, legal holds and crashes   *)
(* interleave.  Setting a policy or a hold is one action: its reads decide *)
(* only between insert and update, and of two that collide one fails and   *)
(* changes nothing.                                                        *)
(***************************************************************************)
EXTENDS Integers, FiniteSets

CONSTANTS
    Tenants,     \* numbered in the order of their id
    Cases,
    TenantOf,    \* the tenant of each case
    Files,       \* uploads, one storage key each
    CaseOf,      \* the case of each upload
    Purgers,     \* purges under way: requests and the scheduled worker
    Workers,     \* those that are the scheduled worker
    Readers,     \* download requests
    BatchSize,   \* RETENTION_WORKER_BATCH_SIZE
    MaxDays,     \* bound: days that are told apart
    MaxFaults    \* bound: crashes and failures in one behaviour

ASSUME TenantsAssumption == Tenants \subseteq Nat
ASSUME OwnersAssumption ==
    TenantOf \in [Cases -> Tenants] /\ CaseOf \in [Files -> Cases]
ASSUME FilesAssumption == Files # {}
ASSUME WorkersAssumption == Workers \subseteq Purgers
ASSUME BoundsAssumption ==
    BatchSize \in Nat \ {0} /\ MaxDays \in Nat \ {0} /\ MaxFaults \in Nat

VARIABLES
    age,          \* days since terminal_at, Open before
    anonymized,   \* cases with anonymized_at
    purgeAudits,  \* candidate_case.retention_purged events of a case
    policy,       \* retention_days of a tenant, 0 when it has none
    held,         \* cases with a candidate_legal_holds row
    rows,         \* committed candidate_attachments rows
    file,         \* what the directory holds under each storage key
    upload,       \* what each upload request does next, or its outcome
    purge,        \* the local state of each purge
    reader,       \* the local state of each download
    faults        \* crashes and failures so far

database == <<age, anonymized, purgeAudits, policy, held>>
vars == <<database, rows, file, upload, purge, reader, faults>>

-----------------------------------------------------------------------------
Open == -1
FilesOf(c) == {f \in Files : CaseOf[f] = c}
RowsOf(c) == rows \cap FilesOf(c)

(* What a request may be told of an upload: 201, an error, or nothing *)
InProgress == {"save", "replace", "commit", "undo"}
Outcomes == {"created", "refused", "failed", "broken", "crashed"}

NoPurge == [at |-> "idle", todo |-> {}, days |-> 0, chosen |-> {},
            seen |-> {}, doomed |-> {}]
NotReading == [at |-> "idle", file |-> CHOOSE f \in Files : TRUE]

Init ==
    /\ age = [c \in Cases |-> Open]
    /\ anonymized = {}
    /\ purgeAudits = [c \in Cases |-> 0]
    /\ policy = [t \in Tenants |-> 0]
    /\ held = {}
    /\ rows = {}
    /\ file = [f \in Files |-> "none"]
    /\ upload = [f \in Files |-> "new"]
    /\ purge = [p \in Purgers |-> NoPurge]
    /\ reader = [r \in Readers |-> NotReading]
    /\ faults = 0

Fault == faults < MaxFaults /\ faults' = faults + 1

(* RetentionService.set_policy and set_legal_hold.  The schema asks for at  *)
(* least one day; a hold may be set in any stage.                           *)
SetPolicy(t, days) ==
    /\ policy' = [policy EXCEPT ![t] = days]
    /\ UNCHANGED <<age, anonymized, purgeAudits, held, rows, file, upload,
                   purge, reader, faults>>

SetHold(c) ==
    /\ held' = held \cup {c}
    /\ UNCHANGED <<age, anonymized, purgeAudits, policy, rows, file, upload,
                   purge, reader, faults>>

ReleaseHold(c) ==
    /\ held' = held \ {c}
    /\ UNCHANGED <<age, anonymized, purgeAudits, policy, rows, file, upload,
                   purge, reader, faults>>

(* A transition to rejected or withdrawn, which are final, sets terminal_at *)
Close(c) ==
    /\ age[c] = Open
    /\ age' = [age EXCEPT ![c] = 0]
    /\ UNCHANGED <<anonymized, purgeAudits, policy, held, rows, file, upload,
                   purge, reader, faults>>

Day ==
    /\ \E c \in Cases : age[c] \in 0 .. (MaxDays - 1)
    /\ age' = [c \in Cases |-> IF age[c] \in 0 .. (MaxDays - 1)
                               THEN age[c] + 1 ELSE age[c]]
    /\ UNCHANGED <<anonymized, purgeAudits, policy, held, rows, file, upload,
                   purge, reader, faults>>

-----------------------------------------------------------------------------
(* AttachmentService.upload *)

UploadGoes(f, from, to) ==
    upload[f] = from /\ upload' = [upload EXCEPT ![f] = to]

PutFile(f, what) == file' = [file EXCEPT ![f] = what]

(* The case exists: neither its stage nor anonymized_at is asked for.  The  *)
(* document is refused if its type, its size or the malware scan is wrong.  *)
BeginUpload(f) ==
    /\ \/ UploadGoes(f, "new", "save") \/ UploadGoes(f, "new", "refused")
    /\ UNCHANGED <<database, rows, file, purge, reader, faults>>

(* LocalAttachmentStorage.save: a temporary file, renamed when complete *)
WriteTemporary(f) ==
    /\ UploadGoes(f, "save", "replace")
    /\ PutFile(f, "temporary")
    /\ UNCHANGED <<database, rows, purge, reader, faults>>

Replace(f) ==
    /\ UploadGoes(f, "replace", "commit")
    /\ PutFile(f, "complete")
    /\ UNCHANGED <<database, rows, purge, reader, faults>>

(* The save is outside the try: what a failing one has written stays *)
SaveFails(f) ==
    /\ Fault
    /\ UploadGoes(f, "save", "broken") \/ UploadGoes(f, "replace", "broken")
    /\ UNCHANGED <<database, rows, file, purge, reader>>

CommitUpload(f) ==
    /\ UploadGoes(f, "commit", "created")
    /\ rows' = rows \cup {f}
    /\ UNCHANGED <<database, file, purge, reader, faults>>

(* A commit that raises may have taken effect: the connection was lost *)
CommitRaises(f) ==
    /\ Fault
    /\ UploadGoes(f, "commit", "undo")
    /\ rows' \in {rows, rows \cup {f}}
    /\ UNCHANGED <<database, file, purge, reader>>

(* Mistake: the undo is put off *)
UndoLater(f) ==
    /\ UploadGoes(f, "undo", "retry")
    /\ UNCHANGED <<database, rows, file, purge, reader, faults>>

(* Mistake: the file is not deleted after a failure *)
UndoRollbackOnly(f) ==
    /\ UploadGoes(f, "undo", "failed")
    /\ UNCHANGED <<database, rows, file, purge, reader, faults>>

UndoUpload(f) ==
    /\ UploadGoes(f, "undo", "failed")
    /\ PutFile(f, "none")
    /\ UNCHANGED <<database, rows, purge, reader, faults>>

(* The rollback or the delete raises in its turn, and the file stays *)
UndoFails(f) ==
    /\ Fault
    /\ UploadGoes(f, "undo", "broken")
    /\ UNCHANGED <<database, rows, file, purge, reader>>

(* The process dies; its transaction is undone or has just committed *)
UploadCrashes(f) ==
    /\ Fault
    /\ \E from \in InProgress : UploadGoes(f, from, "crashed")
    /\ rows' \in {rows, IF upload[f] = "commit" THEN rows \cup {f} ELSE rows}
    /\ UNCHANGED <<database, file, purge, reader>>

Upload(f) ==
    \/ BeginUpload(f) \/ WriteTemporary(f) \/ Replace(f) \/ CommitUpload(f)
    \/ UndoUpload(f)

-----------------------------------------------------------------------------
(* RetentionService.purge_due and the retention worker *)

(* The tenants with a policy that the worker reaches: it has no cursor *)
Served ==
    {t \in Tenants : /\ policy[t] > 0
                     /\ Cardinality({u \in Tenants : policy[u] > 0 /\ u < t})
                            < BatchSize}

PurgeGoes(p, changed) == purge' = [purge EXCEPT ![p] = changed]

StartWorker(p) ==
    /\ p \in Workers
    /\ purge[p].at = "idle"
    /\ Served # {}
    /\ PurgeGoes(p, [NoPurge EXCEPT !.at = "policy", !.todo = Served])
    /\ UNCHANGED <<database, rows, file, upload, reader, faults>>

StartRequest(p, t) ==
    /\ p \notin Workers
    /\ purge[p].at = "idle"
    /\ PurgeGoes(p, [NoPurge EXCEPT !.at = "policy", !.todo = {t}])
    /\ UNCHANGED <<database, rows, file, upload, reader, faults>>

(* The tenant a run is at: the loop goes over them in order *)
Current(p) ==
    CHOOSE t \in purge[p].todo : \A u \in purge[p].todo : t <= u

(* The next tenant, or the end of the run *)
NextTenant(p) ==
    LET rest == purge[p].todo \ {Current(p)}
    IN  IF rest = {} THEN NoPurge
        ELSE [NoPurge EXCEPT !.at = "policy", !.todo = rest]

ReadPolicy(p) ==
    /\ purge[p].at = "policy"
    /\ PurgeGoes(p, IF policy[Current(p)] = 0 THEN NextTenant(p)
                    ELSE [purge[p] EXCEPT !.at = "select",
                                          !.days = policy[Current(p)]])
    /\ UNCHANGED <<database, rows, file, upload, reader, faults>>

(* Mistake: terminal_at is not looked at *)
DueWhenever(p) ==
    {c \in Cases : /\ TenantOf[c] = Current(p)
                   /\ c \notin anonymized /\ c \notin held}

(* The WHERE of the select, with the period that was read *)
Due(p) ==
    {c \in Cases : /\ TenantOf[c] = Current(p)
                   /\ age[c] # Open /\ age[c] >= purge[p].days
                   /\ c \notin anonymized /\ c \notin held}

SelectDue(p) ==
    /\ purge[p].at = "select"
    /\ PurgeGoes(p, IF Due(p) = {} THEN NextTenant(p)
                    ELSE [purge[p] EXCEPT !.at = "files", !.chosen = Due(p)])
    /\ UNCHANGED <<database, rows, file, upload, reader, faults>>

(* The attachments of the next case; their files go one by one.  A file     *)
(* that is missing already counts as deleted.                               *)
Unlinked(p) == \A f \in purge[p].doomed : file[f] = "none"

(* Mistake: a file that is missing already is an error, and ends the run *)
SelectAttachmentsStrictly(p, c) ==
    /\ purge[p].at = "files" /\ Unlinked(p)
    /\ c \in purge[p].chosen \ purge[p].seen
    /\ PurgeGoes(p, IF \E f \in RowsOf(c) : file[f] = "none" THEN NoPurge
                    ELSE [purge[p] EXCEPT !.seen = @ \cup {c},
                                          !.doomed = @ \cup RowsOf(c)])
    /\ UNCHANGED <<database, rows, file, upload, reader, faults>>

SelectAttachments(p, c) ==
    /\ purge[p].at = "files" /\ Unlinked(p)
    /\ c \in purge[p].chosen \ purge[p].seen
    /\ PurgeGoes(p, [purge[p] EXCEPT !.seen = @ \cup {c},
                                     !.doomed = @ \cup RowsOf(c)])
    /\ UNCHANGED <<database, rows, file, upload, reader, faults>>

Unlink(p, f) ==
    /\ purge[p].at = "files"
    /\ f \in purge[p].doomed /\ file[f] # "none"
    /\ PutFile(f, "none")
    /\ UNCHANGED <<database, rows, upload, purge, reader, faults>>

(* All of a tenant in one commit.  Rows and cases are written by their      *)
(* primary keys: nothing is asked again.  (Audits beyond two count as two.) *)
PurgeCommitted(p) ==
    /\ rows' = rows \ purge[p].doomed
    /\ anonymized' = anonymized \cup purge[p].chosen
    /\ purgeAudits' = [c \in Cases |-> IF c \in purge[p].chosen
                                         /\ purgeAudits[c] < 2
                                       THEN purgeAudits[c] + 1
                                       ELSE purgeAudits[c]]

CommitPurge(p) ==
    /\ purge[p].at = "files" /\ Unlinked(p)
    /\ purge[p].seen = purge[p].chosen
    /\ PurgeCommitted(p)
    /\ PurgeGoes(p, NextTenant(p))
    /\ UNCHANGED <<age, policy, held, file, upload, reader, faults>>

(* A crash, an unlink or a statement that fails: the run ends, and so do    *)
(* the tenants that remain.  Files that are gone stay gone.                 *)
PurgeFails(p) ==
    /\ Fault
    /\ purge[p].at # "idle"
    /\ PurgeGoes(p, NoPurge)
    /\ UNCHANGED <<database, rows, file, upload, reader>>

Purge(p) ==
    \/ StartWorker(p)
    \/ ReadPolicy(p) \/ SelectDue(p)
    \/ \E c \in Cases : SelectAttachments(p, c)
    \/ \E f \in Files : Unlink(p, f)
    \/ CommitPurge(p)

-----------------------------------------------------------------------------
(* AttachmentService.download *)

Answers(r, answer) == reader' = [reader EXCEPT ![r].at = answer]
CanRead(r) == reader[r].at \notin {"row", "open", "send"}

(* The client knows the id of the attachment from its 201, or from the list *)
(* of the case, which names every row, also one whose upload was answered   *)
(* with an error.  (An id listed earlier is a download that began then.)    *)
BeginDownload(r, f) ==
    /\ CanRead(r)
    /\ upload[f] = "created" \/ f \in rows
    /\ reader' = [reader EXCEPT ![r] = [at |-> "row", file |-> f]]
    /\ UNCHANGED <<database, rows, file, upload, purge, faults>>

ReadRow(r) ==
    /\ reader[r].at = "row"
    /\ Answers(r, IF reader[r].file \in rows THEN "open" ELSE "404")
    /\ UNCHANGED <<database, rows, file, upload, purge, faults>>

(* storage.open only tests that the file is there; then the audit commits *)
OpenFile(r) ==
    /\ reader[r].at = "open"
    /\ Answers(r, IF file[reader[r].file] = "complete" THEN "send" ELSE "410")
    /\ UNCHANGED <<database, rows, file, upload, purge, faults>>

(* FileResponse opens the file when the answer is already under way *)
SendFile(r) ==
    /\ reader[r].at = "send"
    /\ Answers(r, IF file[reader[r].file] = "complete" THEN "200" ELSE "500")
    /\ UNCHANGED <<database, rows, file, upload, purge, faults>>

Download(r) ==
    \/ \E f \in Files : BeginDownload(r, f)
    \/ ReadRow(r) \/ OpenFile(r) \/ SendFile(r)

-----------------------------------------------------------------------------
Next ==
    \/ \E t \in Tenants, days \in 1 .. MaxDays : SetPolicy(t, days)
    \/ \E c \in Cases : SetHold(c) \/ ReleaseHold(c) \/ Close(c)
    \/ Day
    \/ \E f \in Files : Upload(f) \/ SaveFails(f) \/ CommitRaises(f)
                            \/ UndoFails(f) \/ UploadCrashes(f)
    \/ \E p \in Purgers, t \in Tenants : StartRequest(p, t)
    \/ \E p \in Purgers : Purge(p) \/ PurgeFails(p)
    \/ \E r \in Readers : Download(r)

Spec == Init /\ [][Next]_vars

(* The scheduler runs the worker again and again; faults are bounded *)
FairSpec == Spec /\ \A p \in Purgers : WF_vars(Purge(p))
-----------------------------------------------------------------------------
(* Properties *)

Reading == {"row", "open", "send"}

TypeOK ==
    /\ age \in [Cases -> Open .. MaxDays]
    /\ anonymized \subseteq Cases
    /\ purgeAudits \in [Cases -> 0 .. 2]
    /\ policy \in [Tenants -> 0 .. MaxDays]
    /\ held \subseteq Cases
    /\ rows \subseteq Files
    /\ file \in [Files -> {"none", "temporary", "complete"}]
    /\ upload \in [Files -> {"new"} \cup InProgress \cup Outcomes]
    /\ purge \in [Purgers -> [at : {"idle", "policy", "select", "files"},
                              todo : SUBSET Tenants, days : 0 .. MaxDays,
                              chosen : SUBSET Cases, seen : SUBSET Cases,
                              doomed : SUBSET Files]]
    /\ reader \in [Readers -> [at : Reading \cup {"idle", "200", "404", "410",
                                                  "500"},
                               file : Files]]
    /\ faults \in 0 .. MaxFaults

(* A document whose upload was answered with 201 has its row and its whole  *)
(* file for as long as its case is open or has not been closed for a day,   *)
(* whatever uploads, purges and failures come in between, and nobody is     *)
(* told until then that it is missing.  Of all rows, only one whose upload  *)
(* was answered with an error, a commit that raised and took effect, may    *)
(* be without its file in that time.                                        *)
KeptUntilDue ==
    /\ \A f \in Files : upload[f] = "created" /\ age[CaseOf[f]] < 1
            => f \in rows /\ file[f] = "complete"
    /\ \A r \in Readers :
          upload[reader[r].file] = "created" /\ reader[r].at \in {"404", "410", "500"}
            => age[CaseOf[reader[r].file]] >= 1
    /\ \A f \in rows : file[f] # "complete" /\ age[CaseOf[f]] < 1
            => upload[f] = "failed"

(* No file is left without a row by a request that got an answer, unless    *)
(* writing or removing it failed: the undo of an upload and the purge of    *)
(* its case, in any order, together remove it.                              *)
NoFileWithoutRow ==
    \A f \in Files : upload[f] \in {"created", "refused", "failed"} /\ f \notin rows
        => file[f] = "none"

(* A case that stays due, without a hold, under a policy the worker reaches *)
(* is anonymized and its purge recorded, although runs crash and leave a    *)
(* case half purged, and purges overlap.                                    *)
IsDue(c) == /\ TenantOf[c] \in Served
            /\ age[c] # Open /\ age[c] >= policy[TenantOf[c]]
            /\ c \notin held

DueIsPurged ==
    \A c \in Cases : <>[]IsDue(c) => <>(c \in anonymized /\ purgeAudits[c] > 0)

-----------------------------------------------------------------------------
(* Claims of the documentation that the code does not keep *)

(* README.md: a candidate can be placed on legal hold; the purge takes      *)
(* "only due terminal candidates without legal hold"                        *)
(* (test_candidate_retention.py).  A hold set after the select is not seen. *)
HoldIsHonoured ==
    [][\A c \in held : c \in anonymized' => c \in anonymized]_vars

(* README.md: a purge removes private attachment metadata and bytes.  An    *)
(* upload that commits after the select, or that begins later, leaves both, *)
(* and no later purge selects the case again.                               *)
AnonymizedHasNoFiles ==
    \A c \in anonymized, f \in Files :
        CaseOf[f] = c => f \notin rows /\ file[f] = "none"
=============================================================================
