----------------------------- MODULE Migration -----------------------------
(***************************************************************************)
(* The migration to schema 2.0.1, which moves the documents of one         *)
(* database per tenant into one database for all, and the processes that   *)
(* run it when they start: "migrate", "server --automigrate" and           *)
(* "server".  A process may stop at any step and be started again, several *)
(* run at once, and whoever finds every version recorded serves.           *)
(*                                                                         *)
(* The tenants' databases are left as they are.  SimpleMigrator and the    *)
(* driver are external.                                                    *)
(***************************************************************************)
EXTENDS Naturals, SequencesExt

CONSTANTS
  Procs,         \* processes of the service
  Main,          \* the database for all, and the tenant of its own documents
  Tenants,       \* the tenants' databases
  Collections,   \* devices, sessions, recordings, control
  Devices,       \* the collection of devices
  Docs,          \* documents, named by their _id
  Legacy,        \* each database's collections before the migration, by _id
  BatchSize,     \* findBatchSize
  CursorFaults,  \* whether a cursor may fail between two documents
  MaxStarts,     \* bound on starts of processes
  MaxChanges     \* bound on updates and deletions by the service

Dbs == Tenants \union {Main}

ASSUME DatabasesAssumption ==
  /\ IsFiniteSet(Tenants)
  /\ Main \notin Tenants
  /\ {"untagged", "absent"} \intersect Dbs = {}
  /\ Devices \in Collections
  /\ Legacy \in [Dbs -> [Collections -> Seq(Docs)]]

\* An _id is used once, whatever the tenant and the collection.
ASSUME IdsAssumption ==
  \A d, e \in Dbs, c, k \in Collections :
    ToSet(Legacy[d][c]) \intersect ToSet(Legacy[e][k]) # {} => d = e /\ c = k

ASSUME BoundsAssumption ==
  /\ BatchSize \in Nat \ {0}
  /\ CursorFaults \in BOOLEAN
  /\ MaxStarts \in Nat
  /\ MaxChanges \in Nat

VARIABLES
  main,     \* the database for all: collection, _id, document
  schema,   \* the newest migration recorded in each database
  at,       \* where each process is
  job,      \* each process: its command and the databases left to it
  copy,     \* each process: the state of migration_2_0_1.Up
  starts,   \* how often a process was started
  changes,  \* how often the service has changed a document
  deleted,  \* history: documents the service has deleted
  cut,      \* history: documents that were not read as the cursor failed
  racing    \* history: processes in the middle of migrating a database whose
            \* version another process has recorded since they began

processVars == <<main, schema, at, job, copy, starts, changes, deleted, cut>>
vars == <<processVars, racing>>

Untagged == "untagged"   \* a document without tenant_id
Absent == [tenant |-> "absent", rev |-> 0]

\* Recorded versions: none, 1.0.0 and 2.0.1.
Versions == 0 .. 2
Target == 2

Modes == {"migrate", "automigrate", "server"}

At == {"off", "listing", "choosing", "applying", "indexing", "collections",
       "reading", "full", "last", "serving"}

NoJob == [mode |-> "migrate", rounds |-> 0, dbs |-> {}, db |-> Main]
NoCopy == [colls |-> {}, coll |-> "none", pos |-> 0, writes |-> <<>>]

Document == [tenant : Dbs \union {Untagged}, rev : 0 .. MaxChanges]
Job == [mode : Modes, rounds : Nat, dbs : SUBSET Dbs, db : Dbs]
Copy == [colls : SUBSET Collections, coll : Collections \union {"none"},
         pos : Nat, writes : Seq(Docs)]

Owned(d, c) == ToSet(Legacy[d][c])

\* A batch is written as soon as it is full.
BatchesFit ==
  \A p \in Procs :
    /\ Len(copy[p].writes) <= BatchSize
    /\ at[p] = "full" => Len(copy[p].writes) = BatchSize
    /\ at[p] = "reading" => Len(copy[p].writes) < BatchSize
    /\ at[p] \in {"reading", "full", "last"} =>
         /\ copy[p].coll \in Collections
         /\ copy[p].pos \in 0 .. Len(Legacy[job[p].db][copy[p].coll])

StateOK ==
  /\ main \in [Collections -> [Docs -> Document \union {Absent}]]
  /\ schema \in [Dbs -> Versions]
  /\ at \in [Procs -> At]
  /\ job \in [Procs -> Job]
  /\ copy \in [Procs -> Copy]
  /\ BatchesFit
  /\ starts \in 0 .. MaxStarts
  /\ changes \in 0 .. MaxChanges
  /\ deleted \subseteq Docs
  /\ cut \subseteq Docs

TypeOK == StateOK /\ racing \subseteq Procs

Init ==
  /\ main = [c \in Collections |-> [x \in Docs |->
               IF x \in Owned(Main, c) THEN [tenant |-> Untagged, rev |-> 0]
                                       ELSE Absent]]
  /\ \E v \in 0 .. 1 : schema = [d \in Dbs |-> v]
  /\ at = [p \in Procs |-> "off"]
  /\ job = [p \in Procs |-> NoJob]
  /\ copy = [p \in Procs |-> NoCopy]
  /\ starts = 0
  /\ changes = 0
  /\ deleted = {}
  /\ cut = {}
  /\ racing = {}

-----------------------------------------------------------------------------
(* A process and the databases it goes through                             *)

\* doMigrations runs Migrate once for every tenant's database, or once.
Rounds == IF Tenants = {} THEN 1 ELSE Cardinality(Tenants)

Start(p, mode) ==
  /\ at[p] = "off"
  /\ starts < MaxStarts
  /\ starts' = starts + 1
  /\ at' = [at EXCEPT ![p] = "listing"]
  /\ job' = [job EXCEPT ![p] =
               [mode |-> mode, rounds |-> Rounds, dbs |-> {}, db |-> Main]]
  /\ UNCHANGED <<main, schema, copy, changes, deleted, cut>>

\* A crash, or an error, which ends the process wherever it is met.
Stop(p) ==
  /\ at[p] # "off"
  /\ at' = [at EXCEPT ![p] = "off"]
  /\ job' = [job EXCEPT ![p] = NoJob]
  /\ copy' = [copy EXCEPT ![p] = NoCopy]
  /\ UNCHANGED <<main, schema, starts, changes, deleted, cut>>

\* Every run of Migrate goes through all databases, the main one first.
ListDatabases(p) ==
  /\ at[p] = "listing"
  /\ at' = [at EXCEPT ![p] = "applying"]
  /\ job' = [job EXCEPT ![p].dbs = Tenants, ![p].db = Main,
                        ![p].rounds = @ - 1]
  /\ UNCHANGED <<main, schema, copy, starts, changes, deleted, cut>>

NextDatabase(p) ==
  /\ at[p] = "choosing"
  /\ \E d \in job[p].dbs :
       job' = [job EXCEPT ![p].dbs = @ \ {d}, ![p].db = d]
  /\ at' = [at EXCEPT ![p] = "applying"]
  /\ UNCHANGED <<main, schema, copy, starts, changes, deleted, cut>>

\* All rounds done: "migrate" exits, the others serve.
DatabasesDone(p) ==
  /\ at[p] = "choosing"
  /\ job[p].dbs = {}
  /\ at' = [at EXCEPT ![p] = IF job[p].rounds > 0 THEN "listing"
                             ELSE IF job[p].mode = "migrate" THEN "off"
                             ELSE "serving"]
  /\ job' = [job EXCEPT ![p].db = Main]
  /\ UNCHANGED <<main, schema, copy, starts, changes, deleted, cut>>

-----------------------------------------------------------------------------
(* SimpleMigrator.Apply                                                    *)

\* Mutation: a process migrates whatever version is recorded.
NeedsAlways(p) == TRUE

\* The version recorded last is looked at before the migrations are run.
NeedsMigration(p) == schema[job[p].db] < Target

Passes(p) == ~NeedsMigration(p)

ApplyNothing(p) ==
  /\ at[p] = "applying"
  /\ Passes(p)
  /\ at' = [at EXCEPT ![p] = "choosing"]
  /\ UNCHANGED <<main, schema, job, copy, starts, changes, deleted, cut>>

\* The recorded version decides which migrations are run; a server without
\* --automigrate runs none and ends with an error.
Apply(p) ==
  /\ at[p] = "applying"
  /\ NeedsMigration(p)
  /\ job[p].mode # "server"
  /\ at' = [at EXCEPT ![p] = IF schema[job[p].db] = 0 THEN "indexing"
                                                      ELSE "collections"]
  /\ copy' = [copy EXCEPT ![p] = [NoCopy EXCEPT !.colls = Collections]]
  /\ UNCHANGED <<main, schema, job, starts, changes, deleted, cut>>

\* A version is a document of its own: the newest counts.
Record(d, v) ==
  schema' = [schema EXCEPT ![d] = IF @ < v THEN v ELSE @]

\* migration_1_0_0 creates an index and leaves the documents alone.
MigrateIndexes(p) ==
  /\ at[p] = "indexing"
  /\ Record(job[p].db, 1)
  /\ at' = [at EXCEPT ![p] = "collections"]
  /\ UNCHANGED <<main, job, copy, starts, changes, deleted, cut>>

RecordVersion(p) ==
  /\ at[p] = "collections"
  /\ copy[p].colls = {}
  /\ Record(job[p].db, 2)
  /\ at' = [at EXCEPT ![p] = "choosing"]
  /\ copy' = [copy EXCEPT ![p] = NoCopy]
  /\ UNCHANGED <<main, job, starts, changes, deleted, cut>>

-----------------------------------------------------------------------------
(* migration_2_0_1.Up: the collections in the order of a Go map            *)

\* tenant_id is set where there is none.
Tags(doc) == doc # Absent /\ doc.tenant = Untagged

\* The main database: indexes are created and the documents tagged in place.
TagCollection(p, c) ==
  /\ at[p] = "collections"
  /\ c \in copy[p].colls
  /\ job[p].db = Main
  /\ main' = [main EXCEPT ![c] = [x \in Docs |->
                IF Tags(main[c][x]) THEN [main[c][x] EXCEPT !.tenant = Main]
                                    ELSE main[c][x]]]
  /\ copy' = [copy EXCEPT ![p].colls = @ \ {c}]
  /\ UNCHANGED <<schema, at, job, starts, changes, deleted, cut>>

\* Mutation: the batch is not emptied for the next collection.
WritesKept(p) == copy[p].writes

\* What is left of the collection before has been written, not removed.
WritesReset(p) == <<>>

\* A tenant's database: a cursor over the collection, sorted by _id.
Find(p, c) ==
  /\ at[p] = "collections"
  /\ c \in copy[p].colls
  /\ job[p].db # Main
  /\ at' = [at EXCEPT ![p] = "reading"]
  /\ copy' = [copy EXCEPT ![p] = [colls |-> copy[p].colls \ {c}, coll |-> c,
                                  pos |-> 0, writes |-> WritesReset(p)]]
  /\ UNCHANGED <<main, schema, job, starts, changes, deleted, cut>>

Source(p) == Legacy[job[p].db][copy[p].coll]

\* Mutation: the batch is tested before the document is added to it.
FullTooLate(writes) == Len(writes) > BatchSize

Full(writes) == Len(writes) = BatchSize

ReadDocument(p) ==
  /\ at[p] = "reading"
  /\ copy[p].pos < Len(Source(p))
  /\ LET writes == Append(copy[p].writes, Source(p)[copy[p].pos + 1])
     IN /\ copy' = [copy EXCEPT ![p].pos = @ + 1, ![p].writes = writes]
        /\ at' = [at EXCEPT ![p] = IF Full(writes) THEN "full" ELSE "reading"]
  /\ UNCHANGED <<main, schema, job, starts, changes, deleted, cut>>

\* Mutation: only full batches are written.
NoLeftover(p) == FALSE

Leftover(p) == copy[p].writes # <<>>

AfterReading(p) ==
  at' = [at EXCEPT ![p] = IF Leftover(p) THEN "last" ELSE "collections"]

ReadsEnd(p) ==
  /\ at[p] = "reading"
  /\ copy[p].pos = Len(Source(p))
  /\ AfterReading(p)
  /\ UNCHANGED <<main, schema, job, copy, starts, changes, deleted, cut>>

\* cur.Next is false for an error as well, and nobody asks for cur.Err: the
\* rest of the collection is left out.
CursorFails(p) ==
  /\ CursorFaults
  /\ at[p] = "reading"
  /\ copy[p].pos < Len(Source(p))
  /\ cut' = cut \union
              {Source(p)[i] : i \in copy[p].pos + 1 .. Len(Source(p))}
  /\ AfterReading(p)
  /\ UNCHANGED <<main, schema, job, copy, starts, changes, deleted>>

\* Replacements by _id in the main database, with the tenant's id, inserted
\* where there is no such document.
Replace(p, docs) ==
  /\ main' = [main EXCEPT ![copy[p].coll] = [x \in Docs |->
                IF x \in docs THEN [tenant |-> job[p].db, rev |-> 0]
                              ELSE main[copy[p].coll][x]]]
  /\ cut' = cut \ docs

\* A full batch is emptied, the last one left as it is.
BulkWrite(p) ==
  /\ at[p] \in {"full", "last"}
  /\ Replace(p, ToSet(copy[p].writes))
  /\ IF at[p] = "full"
       THEN /\ at' = [at EXCEPT ![p] = "reading"]
            /\ copy' = [copy EXCEPT ![p].writes = <<>>]
       ELSE /\ at' = [at EXCEPT ![p] = "collections"]
            /\ UNCHANGED copy
  /\ UNCHANGED <<schema, job, starts, changes, deleted>>

\* The write fails, or the process ends, after some of the replacements.
BulkWriteFails(p) ==
  /\ at[p] \in {"full", "last"}
  /\ \E n \in 1 .. Len(copy[p].writes) :
       Replace(p, ToSet(SubSeq(copy[p].writes, 1, n)))
  /\ at' = [at EXCEPT ![p] = "off"]
  /\ job' = [job EXCEPT ![p] = NoJob]
  /\ copy' = [copy EXCEPT ![p] = NoCopy]
  /\ UNCHANGED <<schema, starts, changes, deleted>>

-----------------------------------------------------------------------------
(* The service, which knows documents by _id and tenant_id                 *)

Changes(p) ==
  /\ at[p] = "serving"
  /\ changes < MaxChanges
  /\ changes' = changes + 1
  /\ UNCHANGED <<schema, at, job, copy, starts, cut>>

Known(c, x) == main[c][x] # Absent /\ main[c][x].tenant # Untagged

Update(p, c, x) ==
  /\ Changes(p)
  /\ Known(c, x)
  /\ main' = [main EXCEPT ![c][x].rev = @ + 1]
  /\ UNCHANGED deleted

\* A device that is not known is inserted when it connects.
Insert(p, d, x) ==
  /\ Changes(p)
  /\ x \in Owned(d, Devices)
  /\ main[Devices][x] = Absent
  /\ main' = [main EXCEPT ![Devices][x] = [tenant |-> d, rev |-> 1]]
  /\ UNCHANGED deleted

Delete(p, c, x) ==
  /\ Changes(p)
  /\ Known(c, x)
  /\ main' = [main EXCEPT ![c][x] = Absent]
  /\ deleted' = deleted \union {x}

-----------------------------------------------------------------------------
ProcessNext(p) ==
  \/ \E mode \in Modes : Start(p, mode)
  \/ Stop(p)
  \/ ListDatabases(p)
  \/ NextDatabase(p)
  \/ DatabasesDone(p)
  \/ ApplyNothing(p)
  \/ Apply(p)
  \/ MigrateIndexes(p)
  \/ RecordVersion(p)
  \/ \E c \in Collections : TagCollection(p, c) \/ Find(p, c)
  \/ ReadDocument(p)
  \/ ReadsEnd(p)
  \/ CursorFails(p)
  \/ BulkWrite(p)
  \/ BulkWriteFails(p)
  \/ \E c \in Collections, x \in Docs : Update(p, c, x) \/ Delete(p, c, x)
  \/ \E d \in Dbs, x \in Docs : Insert(p, d, x)

\* History: a process that has found its database not migrated races from the
\* moment another records its version, until it is through or stops.
Migrating(p) ==
  at[p] \in {"indexing", "collections", "reading", "full", "last"}
Overtaken(p) ==
  /\ Migrating(p)
  /\ schema[job[p].db] < Target
  /\ schema'[job[p].db] = Target

NoteRaces ==
  racing' = {p \in Procs : Migrating(p)' /\ (p \in racing \/ Overtaken(p))}

Next == (\E p \in Procs : ProcessNext(p)) /\ NoteRaces

Spec == Init /\ [][Next]_vars

-----------------------------------------------------------------------------
(* Properties                                                              *)

\* A process only serves when every document of every database is in its
\* collection with its tenant's id, whatever crashed, was repeated or ran at
\* the same time, but for what was deleted since and for what an unnoticed
\* failure of a cursor left out.
NothingLost ==
  \A p \in Procs, d \in Dbs, c \in Collections :
    at[p] = "serving" =>
      \A x \in Owned(d, c) \ (deleted \union cut) : main[c][x].tenant = d

\* No document is ever found in another collection or shown to another tenant:
\* neither the batch, shared by the collections, nor a second run of a migration
\* mixes them up.
OwnPlace ==
  \A d \in Dbs, c \in Collections, k \in Collections :
    \A x \in Owned(d, c) : main[k][x] # Absent =>
      /\ k = c
      /\ main[k][x].tenant \in IF d = Main THEN {Main, Untagged} ELSE {d}

\* What the service wrote or deleted is only replaced by the old document in a
\* race: by the bulk write of a process that was in the middle of migrating the
\* document's database when another recorded it.  One that was started, or
\* started again after a crash, once the version was recorded never does it.
NoLateOverwrite ==
  [][\A c \in Collections, x \in Docs :
       /\ main[c][x].rev > 0 \/ (x \in deleted /\ main[c][x] = Absent)
       /\ main'[c][x] # main[c][x]
       /\ main'[c][x].tenant # "absent"
       /\ main'[c][x].rev = 0
       => \E p \in racing :
            /\ at[p] \in {"full", "last"} /\ at'[p] # at[p]
            /\ x \in Owned(job[p].db, c)]_vars
=============================================================================
