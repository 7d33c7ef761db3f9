--------------------------- MODULE MigrationProofs ---------------------------
(***************************************************************************)
(* The safety of Migration for any databases, documents and size of the    *)
(* batches, and for any number of processes that start, crash and migrate  *)
(* at the same time: a document once in place stays in place, and whoever  *)
(* records a version has gone through every collection.                    *)
(***************************************************************************)
EXTENDS Migration, FiniteSetTheorems, TLAPS

\* The document x of database d is where it belongs, or is excused.
Kept(d, c, x) == x \in deleted \union cut \/ main[c][x].tenant = d

AllKept(d, c) == \A x \in Owned(d, c) : Kept(d, c, x)

Copying(p) == at[p] \in {"reading", "full", "last"}

\* A round of Migrate is left for who lists the databases.
RoundsLeft == \A p \in Procs : at[p] = "listing" => job[p].rounds > 0

\* A revision is a change of the service.
RevsAreChanges ==
  \A c \in Collections, x \in Docs : main[c][x].rev <= changes

\* The service changes documents when every version is recorded.
ChangesLast ==
  /\ deleted # {} => changes > 0
  /\ changes > 0 => \A d \in Dbs : schema[d] = Target

\* The main database's documents are there unless they were deleted.
MainThere ==
  \A c \in Collections : \A x \in Owned(Main, c) :
    main[c][x] = Absent => x \in deleted

\* The databases whose version is recorded are in place.
RecordedKept ==
  \A d \in Dbs : schema[d] = Target => \A c \in Collections : AllKept(d, c)

\* A batch holds documents of the collection that is being copied.
BatchOwn(p) ==
  Copying(p) =>
    /\ job[p].db # Main
    /\ ToSet(copy[p].writes) \subseteq Owned(job[p].db, copy[p].coll)

\* What was read of the collection is in the batch or in place.
ReadKept(p) ==
  Copying(p) =>
    \A i \in 1 .. Len(Source(p)) : at[p] = "last" \/ i <= copy[p].pos =>
      \/ Source(p)[i] \in ToSet(copy[p].writes)
      \/ Kept(job[p].db, copy[p].coll, Source(p)[i])

\* The collections a process is through with are in place.
CollectionsKept(p) ==
  at[p] \in {"indexing", "collections"} \/ Copying(p) =>
    \A c \in Collections \ copy[p].colls :
      (Copying(p) /\ c = copy[p].coll) \/ AllKept(job[p].db, c)

\* The version of the databases a process is through with is recorded.
Visited(p) ==
  /\ at[p] \in {"choosing", "serving"} =>
       \A d \in Dbs \ job[p].dbs : schema[d] = Target
  /\ at[p] \in {"applying", "indexing", "collections"} \/ Copying(p) =>
       \A d \in Dbs \ job[p].dbs : d = job[p].db \/ schema[d] = Target
  /\ at[p] = "serving" => job[p].dbs = {}

\* The variables have their types, for which these two are needed.
TypeInv ==
  /\ StateOK
  /\ RoundsLeft
  /\ RevsAreChanges

\* What a process knows of the documents.
ProcessInv(p) ==
  /\ BatchOwn(p)
  /\ ReadKept(p)
  /\ CollectionsKept(p)
  /\ Visited(p)

\* Where the processes, the versions and the documents agree.
IInv ==
  /\ ChangesLast
  /\ OwnPlace
  /\ MainThere
  /\ RecordedKept
  /\ \A p \in Procs : ProcessInv(p)

-----------------------------------------------------------------------------
\* There is a round of Migrate at least.
LEMMA RoundsType == Rounds \in Nat /\ Rounds > 0
  BY DatabasesAssumption, FS_CardinalityType, FS_EmptySet DEF Rounds

\* The documents of a collection are a sequence of documents.
LEMMA OwnedType ==
  ASSUME NEW d \in Dbs, NEW c \in Collections
  PROVE  /\ Legacy[d][c] \in Seq(Docs)
         /\ Owned(d, c) \subseteq Docs
         /\ \A i \in 1 .. Len(Legacy[d][c]) : Legacy[d][c][i] \in Owned(d, c)
         /\ \A x \in Owned(d, c) : \E i \in 1 .. Len(Legacy[d][c]) :
              x = Legacy[d][c][i]
  BY DatabasesAssumption DEF Owned, ToSet

\* A process that does nothing.
LEMMA NoTypes ==
  /\ NoJob \in Job
  /\ NoCopy \in Copy /\ NoCopy.writes = <<>> /\ Len(NoCopy.writes) = 0
  BY DEF NoJob, Job, Modes, Dbs, NoCopy, Copy

\* What is left to a process, field by field.
LEMMA CopyType ==
  ASSUME NEW k \in Copy
  PROVE  /\ k.colls \subseteq Collections /\ k.pos \in Nat
         /\ k.writes \in Seq(Docs) /\ Len(k.writes) \in Nat
         /\ k = [colls |-> k.colls, coll |-> k.coll, pos |-> k.pos,
                 writes |-> k.writes]
  BY DEF Copy

\* The batch with a document more, and emptied.
LEMMA BatchGrows ==
  ASSUME NEW k \in Copy, NEW docs \in Seq(Docs)
  PROVE  [k EXCEPT !.pos = @ + 1, !.writes = docs] =
           [colls |-> k.colls, coll |-> k.coll, pos |-> k.pos + 1,
            writes |-> docs]
  <1>1. ASSUME NEW l, l = [k EXCEPT !.pos = @ + 1, !.writes = docs]
        PROVE  l = [colls |-> k.colls, coll |-> k.coll, pos |-> k.pos + 1,
                    writes |-> docs]
    BY <1>1 DEF Copy
  <1>2. QED
    BY <1>1

\* A batch that was written is emptied.
LEMMA BatchEmptied ==
  ASSUME NEW k \in Copy, NEW l, l = [k EXCEPT !.writes = <<>>]
  PROVE  /\ l \in Copy /\ l.colls = k.colls /\ l.coll = k.coll
         /\ l.pos = k.pos /\ l.writes = <<>>
  <1>1. <<>> \in Seq(Docs)
    OBVIOUS
  <1>2. QED
    BY <1>1 DEF Copy

\* A recorded version is one of the versions.
LEMMA RecordType ==
  ASSUME schema \in [Dbs -> Versions], NEW d, NEW v \in Versions, Record(d, v)
  PROVE  schema' \in [Dbs -> Versions]
  BY DEF Record

\* A document with a revision more.
LEMMA Revised ==
  ASSUME NEW doc \in Document, doc.rev < MaxChanges,
         NEW new, new = [doc EXCEPT !.rev = @ + 1]
  PROVE  new \in Document /\ new.rev = doc.rev + 1 /\ doc.rev \in Nat
  BY BoundsAssumption DEF Document

\* A change of a document by the service, one revision later at most.
LEMMA ServiceTypes ==
  ASSUME TypeInv, changes' = changes + 1, changes' <= MaxChanges,
         UNCHANGED <<schema, at, job, copy, starts, cut>>,
         deleted' \subseteq Docs,
         NEW c \in Collections, NEW x \in Docs,
         NEW doc \in Document \union {Absent},
         main' = [main EXCEPT ![c][x] = doc], doc.rev <= changes'
  PROVE  TypeInv'
  <1>1. changes \in Nat /\ changes' \in 0 .. MaxChanges
    BY BoundsAssumption DEF TypeInv, StateOK
  <1>2. BatchesFit'
    BY DEF TypeInv, StateOK, BatchesFit
  <1>3. StateOK'
    BY <1>1, <1>2 DEF TypeInv, StateOK
  <1>4. RoundsLeft'
    BY DEF TypeInv, RoundsLeft
  <1>5. RevsAreChanges'
    <2> SUFFICES ASSUME NEW e \in Collections, NEW y \in Docs
                 PROVE  main'[e][y].rev <= changes'
      BY DEF RevsAreChanges
    <2>1. CASE e = c /\ y = x
      BY <2>1 DEF TypeInv, StateOK
    <2>2. CASE ~(e = c /\ y = x)
      <3>1. main'[e][y] = main[e][y] /\ main[e][y].rev <= changes
        BY <2>2 DEF TypeInv, StateOK, RevsAreChanges
      <3>2. main[e][y].rev \in Nat
        BY BoundsAssumption DEF TypeInv, StateOK, Document, Absent
      <3>3. QED
        BY <1>1, <3>1, <3>2
    <2>3. QED
      BY <2>1, <2>2
  <1>6. QED
    BY <1>3, <1>4, <1>5 DEF TypeInv

\* The types are kept.
THEOREM TypesInductive == Spec => []TypeInv
  <1> USE BoundsAssumption DEF TypeInv
  <1>1. ASSUME Init PROVE TypeInv
    <2>1. StateOK
      BY <1>1, NoTypes, DatabasesAssumption
         DEF Init, StateOK, BatchesFit, At, Versions, Dbs, Document
    <2>2. RoundsLeft /\ RevsAreChanges
      BY <1>1 DEF Init, RoundsLeft, RevsAreChanges, Absent
    <2>3. QED
      BY <2>1, <2>2
  <1>2. ASSUME TypeInv, NEW p \in Procs, NEW mode \in Modes, Start(p, mode)
       PROVE  TypeInv'
    <2>1. PICK j \in Job : j.rounds > 0 /\ job' = [job EXCEPT ![p] = j]
      <3>1. [mode |-> mode, rounds |-> Rounds, dbs |-> {}, db |-> Main] \in Job
        BY RoundsType DEF Job, Dbs
      <3>2. QED
        BY <1>2, <3>1, RoundsType DEF Start
    <2>2. BatchesFit'
      BY <1>2, <2>1 DEF Start, StateOK, BatchesFit
    <2>3. at' \in [Procs -> At]
      BY <1>2, <2>1 DEF Start, StateOK, At
    <2>4. StateOK'
      <3>1. UNCHANGED <<main, schema, copy, changes, deleted, cut>>
        BY <1>2 DEF Start
      <3>2. starts' \in 0 .. MaxStarts
        BY <1>2 DEF Start, StateOK
      <3>3. job' \in [Procs -> Job] /\ copy' \in [Procs -> Copy]
        BY <1>2, <2>1, <3>1 DEF Start, StateOK
      <3>4. QED
        BY <1>2, <2>2, <2>3, <3>1, <3>2, <3>3 DEF StateOK
    <2>5. RoundsLeft' /\ RevsAreChanges'
      BY <1>2, <2>1 DEF Start, StateOK, RoundsLeft, RevsAreChanges
    <2>6. QED
      BY <2>4, <2>5
  <1>3. ASSUME TypeInv, NEW p \in Procs, Stop(p) PROVE TypeInv'
    <2>1. BatchesFit'
      BY <1>3, NoTypes DEF Stop, StateOK, BatchesFit
    <2>2. at' \in [Procs -> At]
      BY <1>3, NoTypes DEF Stop, StateOK, At
    <2>3. StateOK'
      BY <1>3, NoTypes, <2>1, <2>2 DEF Stop, StateOK
    <2>4. RoundsLeft' /\ RevsAreChanges'
      BY <1>3, NoTypes DEF Stop, StateOK, RoundsLeft, RevsAreChanges
    <2>5. QED
      BY <2>3, <2>4
  <1>4. ASSUME TypeInv, NEW p \in Procs, ListDatabases(p) PROVE TypeInv'
    <2>1. PICK j \in Job : job' = [job EXCEPT ![p] = j]
      <3>1. job[p].rounds - 1 \in Nat
        BY <1>4 DEF ListDatabases, StateOK, Job, RoundsLeft
      <3>2. [job[p] EXCEPT !.dbs = Tenants, !.db = Main, !.rounds = @ - 1] \in Job
        BY <1>4, <3>1 DEF StateOK, Job, Dbs
      <3>3. QED
        BY <1>4, <3>2 DEF ListDatabases, StateOK
    <2>2. BatchesFit'
      BY <1>4, <2>1 DEF ListDatabases, StateOK, BatchesFit
    <2>3. at' \in [Procs -> At]
      BY <1>4, <2>1 DEF ListDatabases, StateOK, At
    <2>4. StateOK'
      BY <1>4, <2>1, <2>2, <2>3, ZenonT(30) DEF ListDatabases, StateOK
    <2>5. RoundsLeft' /\ RevsAreChanges'
      BY <1>4, <2>1 DEF ListDatabases, StateOK, RoundsLeft, RevsAreChanges
    <2>6. QED
      BY <2>4, <2>5
  <1>5. ASSUME TypeInv, NEW p \in Procs, NextDatabase(p) PROVE TypeInv'
    <2>1. PICK d \in job[p].dbs :
            job' = [job EXCEPT ![p].dbs = @ \ {d}, ![p].db = d]
      BY <1>5 DEF NextDatabase
    <2>2. PICK j \in Job : job' = [job EXCEPT ![p] = j]
      <3>1. [job[p] EXCEPT !.dbs = @ \ {d}, !.db = d] \in Job
        BY <1>5, <2>1 DEF StateOK, Job
      <3>2. QED
        BY <1>5, <2>1, <3>1 DEF StateOK
    <2>3. BatchesFit'
      BY <1>5, <2>2 DEF NextDatabase, StateOK, BatchesFit
    <2>4. at' \in [Procs -> At]
      BY <1>5, <2>2 DEF NextDatabase, StateOK, At
    <2>5. StateOK'
      BY <1>5, <2>2, <2>3, <2>4 DEF NextDatabase, StateOK
    <2>6. RoundsLeft' /\ RevsAreChanges'
      BY <1>5, <2>2 DEF NextDatabase, StateOK, RoundsLeft, RevsAreChanges
    <2>7. QED
      BY <2>5, <2>6
  <1>6. ASSUME TypeInv, NEW p \in Procs, DatabasesDone(p) PROVE TypeInv'
    <2>1. PICK j \in Job :
            j.rounds = job[p].rounds /\ job' = [job EXCEPT ![p] = j]
      <3>1. [job[p] EXCEPT !.db = Main] \in Job
        BY <1>6 DEF StateOK, Job, Dbs
      <3>2. [job[p] EXCEPT !.db = Main].rounds = job[p].rounds
        BY <1>6 DEF StateOK, Job
      <3>3. QED
        BY <1>6, <3>1, <3>2 DEF DatabasesDone, StateOK
    <2>2. BatchesFit'
      BY <1>6, <2>1 DEF DatabasesDone, StateOK, BatchesFit
    <2>3. at' \in [Procs -> At]
      BY <1>6, <2>1 DEF DatabasesDone, StateOK, At
    <2>4. StateOK'
      BY <1>6, <2>1, <2>2, <2>3 DEF DatabasesDone, StateOK
    <2>5. RoundsLeft' /\ RevsAreChanges'
      BY <1>6, <2>1 DEF DatabasesDone, StateOK, RoundsLeft, RevsAreChanges
    <2>6. QED
      BY <2>4, <2>5
  <1>7. ASSUME TypeInv, NEW p \in Procs, ApplyNothing(p) PROVE TypeInv'
    <2>1. BatchesFit'
      BY <1>7 DEF ApplyNothing, StateOK, BatchesFit
    <2>2. at' \in [Procs -> At]
      BY <1>7 DEF ApplyNothing, StateOK, At
    <2>3. StateOK'
      BY <1>7, <2>1, <2>2 DEF ApplyNothing, StateOK
    <2>4. RoundsLeft' /\ RevsAreChanges'
      BY <1>7 DEF ApplyNothing, StateOK, RoundsLeft, RevsAreChanges
    <2>5. QED
      BY <2>3, <2>4
  <1>8. ASSUME TypeInv, NEW p \in Procs, Apply(p) PROVE TypeInv'
    <2>1. PICK k \in Copy :
            Len(k.writes) = 0 /\ copy' = [copy EXCEPT ![p] = k]
      <3>1. [NoCopy EXCEPT !.colls = Collections] =
              [colls |-> Collections, coll |-> "none", pos |-> 0, writes |-> <<>>]
        BY DEF NoCopy
      <3>2. [colls |-> Collections, coll |-> "none", pos |-> 0, writes |-> <<>>]
              \in Copy
        BY DEF Copy
      <3>3. QED
        BY <1>8, <3>1, <3>2 DEF Apply
    <2>2. BatchesFit'
      <3>1. ASSUME NEW q \in Procs, q # p
            PROVE  at'[q] = at[q] /\ job'[q] = job[q] /\ copy'[q] = copy[q]
        BY <1>8, <2>1, <3>1 DEF Apply, StateOK
      <3>2. at'[p] \in {"indexing", "collections"} /\ Len(copy'[p].writes) = 0
        BY <1>8, <2>1 DEF Apply, StateOK
      <3>3. QED
        BY <1>8, <3>1, <3>2 DEF StateOK, BatchesFit
    <2>3. at' \in [Procs -> At]
      BY <1>8, <2>1 DEF Apply, StateOK, At
    <2>4. StateOK'
      <3>1. UNCHANGED <<main, schema, job, starts, changes, deleted, cut>>
        BY <1>8 DEF Apply
      <3>2. main' \in [Collections -> [Docs -> Document \union {Absent}]]
        BY <1>8, <2>1, <3>1 DEF StateOK
      <3>3. copy' \in [Procs -> Copy]
        BY <1>8, <2>1, <3>1 DEF StateOK
      <3>4. QED
        BY <1>8, <2>2, <2>3, <3>1, <3>2, <3>3 DEF StateOK
    <2>5. RoundsLeft' /\ RevsAreChanges'
      BY <1>8, <2>1 DEF Apply, StateOK, RoundsLeft, RevsAreChanges
    <2>6. QED
      BY <2>4, <2>5
  <1>9. ASSUME TypeInv, NEW p \in Procs, MigrateIndexes(p) PROVE TypeInv'
    <2>1. BatchesFit'
      BY <1>9 DEF MigrateIndexes, StateOK, BatchesFit, Record
    <2>2. at' \in [Procs -> At]
      BY <1>9 DEF MigrateIndexes, StateOK, At, Record
    <2>3. StateOK'
      <3>1. UNCHANGED <<main, job, copy, starts, changes, deleted, cut>>
        BY <1>9 DEF MigrateIndexes
      <3>2. schema' \in [Dbs -> Versions]
        BY <1>9, RecordType DEF MigrateIndexes, StateOK, Versions
      <3>3. job' \in [Procs -> Job] /\ copy' \in [Procs -> Copy]
        BY <1>9, <3>1 DEF MigrateIndexes, StateOK
      <3>4. QED
        BY <1>9, <2>1, <2>2, <3>1, <3>2, <3>3 DEF StateOK
    <2>4. RoundsLeft' /\ RevsAreChanges'
      BY <1>9 DEF MigrateIndexes, StateOK, RoundsLeft, RevsAreChanges, Record
    <2>5. QED
      BY <2>3, <2>4
  <1>10. ASSUME TypeInv, NEW p \in Procs, RecordVersion(p) PROVE TypeInv'
    <2>1. BatchesFit'
      BY <1>10, NoTypes DEF RecordVersion, StateOK, BatchesFit, Record
    <2>2. at' \in [Procs -> At]
      BY <1>10, NoTypes DEF RecordVersion, StateOK, At, Record
    <2>3. StateOK'
      <3>1. UNCHANGED <<main, job, starts, changes, deleted, cut>>
        BY <1>10 DEF RecordVersion
      <3>2. schema' \in [Dbs -> Versions]
        BY <1>10, RecordType DEF RecordVersion, StateOK, Versions
      <3>3. job' \in [Procs -> Job] /\ copy' \in [Procs -> Copy]
        BY <1>10, NoTypes, <3>1 DEF RecordVersion, StateOK
      <3>4. QED
        BY <1>10, <2>1, <2>2, <3>1, <3>2, <3>3 DEF StateOK
    <2>4. RoundsLeft' /\ RevsAreChanges'
      BY <1>10, NoTypes
         DEF RecordVersion, StateOK, RoundsLeft, RevsAreChanges, Record
    <2>5. QED
      BY <2>3, <2>4
  <1>11. ASSUME TypeInv, NEW p \in Procs, NEW c \in Collections,
                TagCollection(p, c)
        PROVE  TypeInv'
    <2>1. PICK k \in Copy : /\ k.writes = copy[p].writes
                           /\ copy' = [copy EXCEPT ![p] = k]
      <3>1. [copy[p] EXCEPT !.colls = @ \ {c}] \in Copy
        BY <1>11 DEF StateOK, Copy
      <3>2. QED
        BY <1>11, <3>1 DEF TagCollection, StateOK, Copy
    <2>2. ASSUME NEW x \in Docs
          PROVE  /\ main'[c][x] \in Document \union {Absent}
                 /\ main'[c][x].rev <= changes
      <3>1. CASE Tags(main[c][x])
        <4>1. main[c][x] \in Document
          BY <1>11, <3>1 DEF Tags, StateOK
        <4>2. /\ [main[c][x] EXCEPT !.tenant = Main] \in Document
              /\ [main[c][x] EXCEPT !.tenant = Main].rev = main[c][x].rev
          BY <4>1 DEF Document, Dbs
        <4>3. QED
          BY <1>11, <3>1, <4>2 DEF TagCollection, StateOK, RevsAreChanges
      <3>2. CASE ~Tags(main[c][x])
        BY <1>11, <3>2 DEF TagCollection, StateOK, RevsAreChanges
      <3>3. QED
        BY <3>1, <3>2
    <2>3. PICK docs \in [Docs -> Document \union {Absent}] :
            main' = [main EXCEPT ![c] = docs]
      BY <1>11, <2>2 DEF TagCollection, StateOK
    <2>4. BatchesFit'
      BY <1>11, <2>1, <2>2, <2>3 DEF TagCollection, StateOK, BatchesFit
    <2>5. at' \in [Procs -> At]
      BY <1>11, <2>1, <2>2, <2>3 DEF TagCollection, StateOK, At
    <2>6. StateOK'
      <3>1. UNCHANGED <<schema, at, job, starts, changes, deleted, cut>>
        BY <1>11 DEF TagCollection
      <3>2. main' \in [Collections -> [Docs -> Document \union {Absent}]]
        BY <1>11, <2>1, <2>2, <2>3, <3>1 DEF StateOK
      <3>3. copy' \in [Procs -> Copy]
        BY <1>11, <2>1, <2>2, <2>3, <3>1 DEF StateOK
      <3>4. QED
        BY <1>11, <2>4, <2>5, <3>1, <3>2, <3>3 DEF StateOK
    <2>7. RoundsLeft' /\ RevsAreChanges'
      BY <1>11, <2>1, <2>2, <2>3
         DEF TagCollection, StateOK, RoundsLeft, RevsAreChanges
    <2>8. QED
      BY <2>6, <2>7
  <1>12. ASSUME TypeInv, NEW p \in Procs, NEW c \in Collections, Find(p, c)
        PROVE  TypeInv'
    <2>1. PICK k \in Copy : /\ k.coll = c /\ k.pos = 0 /\ Len(k.writes) = 0
                           /\ copy' = [copy EXCEPT ![p] = k]
      <3>1. copy[p].colls \ {c} \subseteq Collections
        BY <1>12 DEF StateOK, Copy
      <3>2. [colls |-> copy[p].colls \ {c}, coll |-> c, pos |-> 0,
             writes |-> <<>>] \in Copy
        BY <3>1 DEF Copy
      <3>3. QED
        BY <1>12, <3>2 DEF Find, WritesReset
    <2>2. Len(Legacy[job[p].db][c]) \in Nat
      BY <1>12, OwnedType DEF StateOK, Job
    <2>3. BatchesFit'
      BY <1>12, <2>1, <2>2 DEF Find, StateOK, BatchesFit
    <2>4. at' \in [Procs -> At]
      BY <1>12, <2>1, <2>2 DEF Find, StateOK, At
    <2>5. StateOK'
      <3>1. UNCHANGED <<main, schema, job, starts, changes, deleted, cut>>
        BY <1>12 DEF Find
      <3>2. main' \in [Collections -> [Docs -> Document \union {Absent}]]
        BY <1>12, <2>1, <2>2, <3>1 DEF StateOK
      <3>3. copy' \in [Procs -> Copy]
        BY <1>12, <2>1, <2>2, <3>1 DEF StateOK
      <3>4. QED
        BY <1>12, <2>3, <2>4, <3>1, <3>2, <3>3 DEF StateOK
    <2>6. RoundsLeft' /\ RevsAreChanges'
      BY <1>12, <2>1, <2>2 DEF Find, StateOK, RoundsLeft, RevsAreChanges
    <2>7. QED
      BY <2>5, <2>6
  <1>13. ASSUME TypeInv, NEW p \in Procs, ReadDocument(p) PROVE TypeInv'
    <2>1. /\ Source(p) \in Seq(Docs)
          /\ copy[p].pos \in Nat /\ copy[p].pos < Len(Source(p))
          /\ copy[p].writes \in Seq(Docs) /\ Len(copy[p].writes) < BatchSize
      <3>1. copy[p].coll \in Collections /\ job[p].db \in Dbs /\ copy[p] \in Copy
        BY <1>13 DEF ReadDocument, StateOK, BatchesFit, Job
      <3>2. QED
        BY <1>13, <3>1, OwnedType, CopyType
           DEF ReadDocument, StateOK, BatchesFit, Source
    <2>2. PICK k \in Copy :
            /\ k.coll = copy[p].coll /\ k.pos = copy[p].pos + 1
            /\ Len(k.writes) = Len(copy[p].writes) + 1
            /\ copy' = [copy EXCEPT ![p] = k]
            /\ at' = [at EXCEPT ![p] = IF Full(k.writes) THEN "full"
                                                         ELSE "reading"]
      <3> DEFINE docs == Append(copy[p].writes, Source(p)[copy[p].pos + 1])
                 k == [copy[p] EXCEPT !.pos = @ + 1, !.writes = docs]
      <3>1. docs \in Seq(Docs) /\ Len(docs) = Len(copy[p].writes) + 1
        BY <2>1
      <3>2. copy' = [copy EXCEPT ![p] = k]
        BY <1>13 DEF ReadDocument, StateOK
      <3>3. at' = [at EXCEPT ![p] = IF Full(docs) THEN "full" ELSE "reading"]
        BY <1>13 DEF ReadDocument
      <3> HIDE DEF docs
      <3>4. /\ k \in Copy /\ k.coll = copy[p].coll
            /\ k.pos = copy[p].pos + 1 /\ k.writes = docs
        <4>1. copy[p] \in Copy
          BY <1>13 DEF StateOK
        <4>2. k = [colls |-> copy[p].colls, coll |-> copy[p].coll,
                   pos |-> copy[p].pos + 1, writes |-> docs]
          BY <3>1, <4>1, BatchGrows
        <4>3. QED
          BY <3>1, <4>1, <4>2 DEF Copy
      <3> HIDE DEF k
      <3>5. QED
        BY <3>1, <3>2, <3>3, <3>4
    <2>3. BatchesFit'
      <3>1. ASSUME NEW q \in Procs, q # p
            PROVE  at'[q] = at[q] /\ job'[q] = job[q] /\ copy'[q] = copy[q]
        BY <1>13, <2>2, <3>1 DEF ReadDocument, StateOK
      <3>2. /\ at'[p] = IF Full(copy'[p].writes) THEN "full" ELSE "reading"
            /\ Len(copy'[p].writes) = Len(copy[p].writes) + 1
            /\ Len(copy[p].writes) \in Nat
            /\ copy'[p].coll = copy[p].coll /\ job'[p] = job[p]
            /\ copy'[p].pos = copy[p].pos + 1
        BY <1>13, <2>1, <2>2 DEF ReadDocument, StateOK
      <3>3. copy[p].coll \in Collections
        BY <1>13 DEF ReadDocument, StateOK, BatchesFit
      <3>4. copy'[p].pos \in 0 .. Len(Legacy[job'[p].db][copy'[p].coll])
        <4>1. Legacy[job'[p].db][copy'[p].coll] = Source(p)
          BY <3>2 DEF Source
        <4>2. copy[p].pos + 1 \in 0 .. Len(Source(p))
          BY <2>1
        <4>3. QED
          BY <3>2, <4>1, <4>2
      <3>5. /\ Len(copy'[p].writes) <= BatchSize
            /\ at'[p] = "full" => Len(copy'[p].writes) = BatchSize
            /\ at'[p] # "full" =>
                 at'[p] = "reading" /\ Len(copy'[p].writes) < BatchSize
        BY <2>1, <3>2 DEF Full
      <3>6. QED
        BY <1>13, <3>1, <3>2, <3>3, <3>4, <3>5 DEF StateOK, BatchesFit
    <2>4. at' \in [Procs -> At]
      BY <1>13, <2>1, <2>2 DEF ReadDocument, StateOK, At
    <2>5. StateOK'
      BY <1>13, <2>1, <2>2, <2>3, <2>4, ZenonT(30) DEF ReadDocument, StateOK
    <2>6. RoundsLeft' /\ RevsAreChanges'
      BY <1>13, <2>1, <2>2 DEF ReadDocument, StateOK, RoundsLeft, RevsAreChanges
    <2>7. QED
      BY <2>5, <2>6
  <1>14. ASSUME TypeInv, NEW p \in Procs, ReadsEnd(p) PROVE TypeInv'
    <2>1. BatchesFit'
      BY <1>14 DEF ReadsEnd, StateOK, BatchesFit, AfterReading
    <2>2. at' \in [Procs -> At]
      BY <1>14 DEF ReadsEnd, StateOK, At, AfterReading
    <2>3. StateOK'
      BY <1>14, <2>1, <2>2 DEF ReadsEnd, StateOK, AfterReading
    <2>4. RoundsLeft' /\ RevsAreChanges'
      BY <1>14 DEF ReadsEnd, StateOK, RoundsLeft, RevsAreChanges, AfterReading
    <2>5. QED
      BY <2>3, <2>4
  <1>15. ASSUME TypeInv, NEW p \in Procs, CursorFails(p) PROVE TypeInv'
    <2>1. cut' \subseteq Docs
      <3>1. copy[p].coll \in Collections /\ job[p].db \in Dbs /\ copy[p].pos \in Nat
        BY <1>15, CopyType DEF CursorFails, StateOK, BatchesFit, Job
      <3>2. \A i \in copy[p].pos + 1 .. Len(Source(p)) : Source(p)[i] \in Docs
        BY <3>1, OwnedType DEF Source
      <3>3. QED
        BY <1>15, <3>2 DEF CursorFails, StateOK
    <2>2. BatchesFit'
      BY <1>15, <2>1 DEF CursorFails, StateOK, BatchesFit, AfterReading
    <2>3. at' \in [Procs -> At]
      BY <1>15, <2>1 DEF CursorFails, StateOK, At, AfterReading
    <2>4. StateOK'
      BY <1>15, <2>1, <2>2, <2>3 DEF CursorFails, StateOK, AfterReading
    <2>5. RoundsLeft' /\ RevsAreChanges'
      BY <1>15, <2>1
         DEF CursorFails, StateOK, RoundsLeft, RevsAreChanges, AfterReading
    <2>6. QED
      BY <2>4, <2>5
  <1>16. ASSUME TypeInv, NEW p \in Procs, BulkWrite(p) PROVE TypeInv'
    <2>1. /\ main' \in [Collections -> [Docs -> Document \union {Absent}]]
          /\ cut' \subseteq Docs
      <3>1. job[p].db \in Dbs
        BY <1>16 DEF StateOK, Job
      <3>2. [tenant |-> job[p].db, rev |-> 0] \in Document
        BY <3>1 DEF Document
      <3>3. QED
        BY <1>16, <3>2 DEF BulkWrite, Replace, StateOK
    <2>2. RevsAreChanges'
      BY <1>16 DEF BulkWrite, Replace, StateOK, RevsAreChanges
    <2>3. PICK k \in Copy :
            /\ k.coll = copy[p].coll /\ k.pos = copy[p].pos
            /\ at[p] = "full" => Len(k.writes) = 0
            /\ Len(k.writes) <= BatchSize
            /\ copy' = [copy EXCEPT ![p] = k]
      <3>1. CASE at[p] = "full"
        <4> DEFINE k == [copy[p] EXCEPT !.writes = <<>>]
        <4>1. copy' = [copy EXCEPT ![p] = k]
          BY <1>16, <3>1 DEF BulkWrite, StateOK
        <4>2. /\ k \in Copy /\ k.coll = copy[p].coll
              /\ k.pos = copy[p].pos /\ k.writes = <<>>
          BY <1>16, BatchEmptied DEF StateOK
        <4> HIDE DEF k
        <4>3. Len(k.writes) = 0 /\ Len(k.writes) <= BatchSize
          BY <4>2
        <4>4. QED
          BY <4>1, <4>2, <4>3
      <3>2. CASE at[p] # "full"
        <4>1. copy[p] \in Copy /\ copy' = [copy EXCEPT ![p] = copy[p]]
          BY <1>16, <3>2 DEF BulkWrite, StateOK
        <4>2. Len(copy[p].writes) <= BatchSize
          BY <1>16 DEF StateOK, BatchesFit
        <4>3. QED
          BY <3>2, <4>1, <4>2
      <3>3. QED
        BY <3>1, <3>2
    <2>4. at' = [at EXCEPT ![p] = IF at[p] = "full" THEN "reading"
                                                   ELSE "collections"]
      BY <1>16 DEF BulkWrite
    <2>5. UNCHANGED <<schema, job, starts, changes, deleted>>
      BY <1>16 DEF BulkWrite
    <2>6. BatchesFit'
      BY <1>16, <2>3, <2>4, <2>5 DEF StateOK, BatchesFit
    <2>7. StateOK'
      BY <1>16, <2>1, <2>3, <2>4, <2>5, <2>6 DEF StateOK, At
    <2>8. RoundsLeft'
      BY <1>16, <2>4, <2>5 DEF StateOK, RoundsLeft
    <2>9. QED
      BY <2>2, <2>7, <2>8
  <1>17. ASSUME TypeInv, NEW p \in Procs, BulkWriteFails(p) PROVE TypeInv'
    <2>1. /\ main' \in [Collections -> [Docs -> Document \union {Absent}]]
          /\ cut' \subseteq Docs
      <3>1. job[p].db \in Dbs
        BY <1>17 DEF StateOK, Job
      <3>2. [tenant |-> job[p].db, rev |-> 0] \in Document
        BY <3>1 DEF Document
      <3>3. PICK n \in 1 .. Len(copy[p].writes) :
              Replace(p, ToSet(SubSeq(copy[p].writes, 1, n)))
        BY <1>17 DEF BulkWriteFails
      <3>4. QED
        BY <1>17, <3>2, <3>3 DEF Replace, StateOK
    <2>2. RevsAreChanges'
      BY <1>17 DEF BulkWriteFails, Replace, StateOK, RevsAreChanges
    <2>3. BatchesFit'
      BY <1>17, NoTypes DEF BulkWriteFails, StateOK, BatchesFit
    <2>4. StateOK'
      BY <1>17, <2>1, <2>3, NoTypes DEF BulkWriteFails, StateOK, At
    <2>5. RoundsLeft'
      BY <1>17 DEF BulkWriteFails, StateOK, RoundsLeft
    <2>6. QED
      BY <2>2, <2>4, <2>5
  <1>18. ASSUME TypeInv, NEW p \in Procs, NEW c \in Collections, NEW x \in Docs,
                Update(p, c, x)
        PROVE  TypeInv'
    <2>1. changes \in Nat /\ changes' = changes + 1 /\ changes' <= MaxChanges
      BY <1>18 DEF Update, Changes, StateOK
    <2>2. UNCHANGED <<schema, at, job, copy, starts, cut>>
      BY <1>18 DEF Update, Changes
    <2>3. PICK doc \in Document : /\ main' = [main EXCEPT ![c][x] = doc]
                                 /\ doc.rev <= changes'
      <3> DEFINE doc == [main[c][x] EXCEPT !.rev = @ + 1]
      <3>1. main[c][x] \in Document /\ main[c][x].rev <= changes
        BY <1>18 DEF Update, Known, StateOK, RevsAreChanges
      <3>2. main' = [main EXCEPT ![c][x] = doc]
        BY <1>18 DEF Update, StateOK
      <3>3. main[c][x].rev \in Nat
        BY <3>1 DEF Document
      <3>4. doc \in Document /\ doc.rev = main[c][x].rev + 1
        BY <2>1, <3>1, <3>3, Revised
      <3> HIDE DEF doc
      <3>5. doc.rev <= changes'
        BY <2>1, <3>1, <3>3, <3>4
      <3>6. QED
        BY <3>2, <3>4, <3>5
    <2>4. deleted' \subseteq Docs
      BY <1>18 DEF Update, StateOK
    <2>5. QED
      BY <1>18, <2>1, <2>2, <2>3, <2>4, ServiceTypes
  <1>19. ASSUME TypeInv, NEW p \in Procs, NEW d \in Dbs, NEW x \in Docs,
                Insert(p, d, x)
        PROVE  TypeInv'
    <2>1. changes \in Nat /\ changes' = changes + 1 /\ changes' <= MaxChanges
      BY <1>19 DEF Insert, Changes, StateOK
    <2>2. UNCHANGED <<schema, at, job, copy, starts, cut>>
      BY <1>19 DEF Insert, Changes
    <2>3. PICK doc \in Document : /\ main' = [main EXCEPT ![Devices][x] = doc]
                                 /\ doc.rev <= changes'
      <3>1. [tenant |-> d, rev |-> 1] \in Document
        BY <2>1 DEF Document
      <3>2. main' = [main EXCEPT ![Devices][x] = [tenant |-> d, rev |-> 1]]
        BY <1>19 DEF Insert
      <3>3. [tenant |-> d, rev |-> 1].rev <= changes'
        BY <2>1
      <3>4. QED
        BY <3>1, <3>2, <3>3
    <2>4. deleted' \subseteq Docs
      BY <1>19 DEF Insert, StateOK
    <2>5. QED
      BY <1>19, <2>1, <2>2, <2>3, <2>4, ServiceTypes, DatabasesAssumption
  <1>20. ASSUME TypeInv, NEW p \in Procs, NEW c \in Collections, NEW x \in Docs,
                Delete(p, c, x)
        PROVE  TypeInv'
    <2>1. changes \in Nat /\ changes' = changes + 1 /\ changes' <= MaxChanges
      BY <1>20 DEF Delete, Changes, StateOK
    <2>2. UNCHANGED <<schema, at, job, copy, starts, cut>>
      BY <1>20 DEF Delete, Changes
    <2>3. main' = [main EXCEPT ![c][x] = Absent] /\ Absent.rev <= changes'
      BY <1>20, <2>1 DEF Delete, Absent
    <2>4. deleted' \subseteq Docs
      BY <1>20 DEF Delete, StateOK
    <2>5. QED
      BY <1>20, <2>1, <2>2, <2>3, <2>4, ServiceTypes
  <1>21. ASSUME TypeInv, UNCHANGED vars PROVE TypeInv'
    BY <1>21 DEF vars, processVars, StateOK, BatchesFit, RoundsLeft, RevsAreChanges
  <1> HIDE DEF TypeInv
  <1>22. TypeInv /\ [Next]_vars => TypeInv'
    BY <1>2, <1>3, <1>4, <1>5, <1>6, <1>7, <1>8, <1>9, <1>10, <1>11, <1>12,
       <1>13, <1>14, <1>15, <1>16, <1>17, <1>18, <1>19, <1>20, <1>21
       DEF Next, ProcessNext
  <1>23. QED
    BY <1>1, <1>22, PTL DEF Spec

-----------------------------------------------------------------------------
\* An _id is found in one place.
LEMMA IdsUnique ==
  ASSUME NEW d \in Dbs, NEW e \in Dbs, NEW c \in Collections,
         NEW k \in Collections, NEW x \in Owned(d, c), x \in Owned(e, k)
  PROVE  d = e /\ c = k
  BY IdsAssumption DEF Owned

\* Which collection a process copies, and what.
LEMMA CopyingType ==
  ASSUME TypeInv, NEW p \in Procs, ProcessInv(p), Copying(p)
  PROVE  /\ job[p].db \in Dbs /\ job[p].db # Main
         /\ copy[p].coll \in Collections
         /\ ToSet(copy[p].writes) \subseteq Owned(job[p].db, copy[p].coll)
  BY DEF TypeInv, StateOK, BatchesFit, Job, ProcessInv, BatchOwn, Copying

\* A bulk write, failed or not, replaces documents of that collection.
LEMMA BulkWrites ==
  ASSUME TypeInv, NEW p \in Procs, ProcessInv(p),
         BulkWrite(p) \/ BulkWriteFails(p)
  PROVE  /\ \E docs \in SUBSET Owned(job[p].db, copy[p].coll) : Replace(p, docs)
         /\ Copying(p) /\ deleted' = deleted
  <1>1. Copying(p) /\ deleted' = deleted
    BY DEF BulkWrite, BulkWriteFails, Copying
  <1>2. ToSet(copy[p].writes) \subseteq Owned(job[p].db, copy[p].coll)
    BY <1>1, CopyingType
  <1>3. CASE BulkWrite(p)
    BY <1>1, <1>2, <1>3 DEF BulkWrite
  <1>4. CASE BulkWriteFails(p)
    <2>1. PICK n \in 1 .. Len(copy[p].writes) :
            Replace(p, ToSet(SubSeq(copy[p].writes, 1, n)))
      BY <1>4 DEF BulkWriteFails
    <2>2. copy[p].writes \in Seq(Docs)
      BY DEF TypeInv, StateOK, Copy
    <2>3. ToSet(SubSeq(copy[p].writes, 1, n)) \subseteq ToSet(copy[p].writes)
      BY <2>2 DEF ToSet
    <2>4. QED
      BY <1>1, <1>2, <2>1, <2>3
  <1>5. QED
    BY <1>3, <1>4

\* The steps that touch documents.
LEMMA DocumentSteps ==
  ASSUME NEW p \in Procs, ProcessNext(p)
  PROVE  \/ UNCHANGED <<main, deleted, cut>>
         \/ \E c \in Collections : TagCollection(p, c)
         \/ CursorFails(p)
         \/ BulkWrite(p) \/ BulkWriteFails(p)
         \/ \E c \in Collections, x \in Docs : Update(p, c, x) \/ Delete(p, c, x)
         \/ \E d \in Dbs, x \in Docs : Insert(p, d, x)
  BY DEF ProcessNext, Start, Stop, ListDatabases, NextDatabase, DatabasesDone,
         ApplyNothing, Apply, MigrateIndexes, RecordVersion, Find, ReadDocument,
         ReadsEnd

\* What is in place, or excused, stays so.
LEMMA KeptStable ==
  ASSUME TypeInv, NEW p \in Procs, ProcessInv(p), ProcessNext(p),
         NEW d \in Dbs, NEW c \in Collections, NEW x \in Owned(d, c),
         Kept(d, c, x)
  PROVE  Kept(d, c, x)'
  <1> USE DEF Kept
  <1>0. /\ x \in Docs /\ d # "untagged" /\ d # "absent"
        /\ main \in [Collections -> [Docs -> Document \union {Absent}]]
    BY OwnedType, DatabasesAssumption DEF TypeInv, StateOK
  <1>1. CASE UNCHANGED <<main, deleted, cut>>
    BY <1>1
  <1>2. ASSUME NEW k \in Collections, TagCollection(p, k) PROVE Kept(d, c, x)'
    <2>1. main[c][x].tenant = d => main'[c][x] = main[c][x]
      BY <1>0, <1>2 DEF TagCollection, Tags, Untagged
    <2>2. deleted' = deleted /\ cut' = cut
      BY <1>2 DEF TagCollection
    <2>3. QED
      BY <2>1, <2>2
  <1>3. CASE CursorFails(p)
    BY <1>3 DEF CursorFails
  <1>4. CASE BulkWrite(p) \/ BulkWriteFails(p)
    <2>1. PICK docs \in SUBSET Owned(job[p].db, copy[p].coll) : Replace(p, docs)
      BY <1>4, BulkWrites
    <2>2. deleted' = deleted /\ job[p].db \in Dbs /\ copy[p].coll \in Collections
      BY <1>4, BulkWrites, CopyingType
    <2>3. CASE x \in docs
      <3>1. d = job[p].db /\ c = copy[p].coll
        BY <2>2, <2>3, IdsUnique
      <3>2. main'[c][x] = [tenant |-> d, rev |-> 0]
        BY <1>0, <2>1, <2>3, <3>1 DEF Replace
      <3>3. QED
        BY <3>2
    <2>4. CASE x \notin docs
      BY <1>0, <2>1, <2>2, <2>4 DEF Replace
    <2>5. QED
      BY <2>3, <2>4
  <1>5. ASSUME NEW k \in Collections, NEW y \in Docs, Update(p, k, y)
        PROVE  Kept(d, c, x)'
    <2>1. main'[c][x].tenant = main[c][x].tenant
      BY <1>0, <1>5 DEF Update, Known, Document
    <2>2. QED
      BY <1>5, <2>1 DEF Update, Changes
  <1>6. ASSUME NEW k \in Collections, NEW y \in Docs, Delete(p, k, y)
        PROVE  Kept(d, c, x)'
    BY <1>0, <1>6 DEF Delete, Changes
  <1>7. ASSUME NEW e \in Dbs, NEW y \in Docs, Insert(p, e, y)
        PROVE  Kept(d, c, x)'
    <2>1. main[c][x].tenant = d => main'[c][x] = main[c][x]
      BY <1>0, <1>7 DEF Insert, Absent
    <2>2. QED
      BY <1>7, <2>1 DEF Insert, Changes
  <1>8. QED
    BY <1>1, <1>2, <1>3, <1>4, <1>5, <1>6, <1>7, DocumentSteps

\* Documents stay in their place, those of the main database until deleted.
LEMMA PlacesStable ==
  ASSUME TypeInv, OwnPlace, MainThere,
         NEW p \in Procs, ProcessInv(p), ProcessNext(p)
  PROVE  OwnPlace' /\ MainThere'
  <1> DEFINE Own(d) == IF d = Main THEN {Main, Untagged} ELSE {d}
  <1>9. /\ OwnPlace = \A d \in Dbs, c \in Collections, k \in Collections :
           \A x \in Owned(d, c) : main[k][x] # Absent =>
             k = c /\ main[k][x].tenant \in Own(d)
        /\ OwnPlace' = \A d \in Dbs, c \in Collections, k \in Collections :
           \A x \in Owned(d, c) : main'[k][x] # Absent =>
             k = c /\ main'[k][x].tenant \in Own(d)
    BY DEF OwnPlace
  <1> USE DEF MainThere
  <1>0. /\ main \in [Collections -> [Docs -> Document \union {Absent}]]
        /\ \A d \in Dbs, c \in Collections : Owned(d, c) \subseteq Docs
        /\ Main \in Dbs /\ Main # "absent" /\ Devices \in Collections
    BY OwnedType, DatabasesAssumption DEF TypeInv, StateOK, Dbs
  <1>1. CASE UNCHANGED <<main, deleted, cut>>
    BY <1>1, <1>9
  \* Only documents without a tenant are tagged, all of the main database.
  <1>2. ASSUME NEW k \in Collections, TagCollection(p, k)
        PROVE  OwnPlace' /\ MainThere'
    <2>1. ASSUME NEW c \in Collections, NEW x \in Docs
          PROVE  \/ main'[c][x] = main[c][x]
                 \/ /\ main[c][x] # Absent /\ main[c][x].tenant = Untagged
                    /\ main'[c][x] # Absent /\ main'[c][x].tenant = Main
      <3>1. CASE c = k /\ Tags(main[c][x])
        <4>1. main[c][x] \in Document
          BY <1>0, <3>1 DEF Tags
        <4>2. main'[c][x] = [main[c][x] EXCEPT !.tenant = Main]
          BY <1>0, <1>2, <3>1 DEF TagCollection
        <4>3. main'[c][x].tenant = Main
          BY <4>1, <4>2 DEF Document
        <4>4. QED
          BY <1>0, <3>1, <4>3 DEF Tags, Absent
      <3>2. CASE ~(c = k /\ Tags(main[c][x]))
        BY <1>0, <1>2, <3>2 DEF TagCollection
      <3>3. QED
        BY <3>1, <3>2
    <2>2. deleted' = deleted
      BY <1>2 DEF TagCollection
    <2>3. Untagged \notin Dbs
      BY DatabasesAssumption DEF Untagged
    <2>4. \A d \in Dbs : Untagged \in Own(d) => Main \in Own(d)
      BY <2>3
    <2> HIDE DEF Own
    <2>5. OwnPlace'
      <3>1. ASSUME NEW d \in Dbs, NEW c \in Collections, NEW l \in Collections,
                   NEW x \in Owned(d, c), main'[l][x] # Absent
            PROVE  l = c /\ main'[l][x].tenant \in Own(d)
        <4>1. x \in Docs
          BY <1>0
        <4>2. main[l][x] # Absent
          BY <2>1, <3>1, <4>1
        <4>3. l = c /\ main[l][x].tenant \in Own(d)
          BY <1>9, <4>2
        <4>4. QED
          BY <2>1, <2>4, <4>1, <4>3
      <3>2. QED
        BY <1>9, <3>1
    <2>6. MainThere'
      BY <1>0, <2>1, <2>2
    <2>7. QED
      BY <2>5, <2>6
  <1>3. CASE CursorFails(p)
    BY <1>3, <1>9 DEF CursorFails
  <1>4. CASE BulkWrite(p) \/ BulkWriteFails(p)
    <2>1. PICK docs \in SUBSET Owned(job[p].db, copy[p].coll) : Replace(p, docs)
      BY <1>4, BulkWrites
    <2>2. /\ deleted' = deleted /\ job[p].db \in Dbs /\ job[p].db # Main
          /\ copy[p].coll \in Collections
      BY <1>4, BulkWrites, CopyingType
    <2>3. ASSUME NEW c \in Collections, NEW x \in Docs
          PROVE  main'[c][x] = IF c = copy[p].coll /\ x \in docs
                                 THEN [tenant |-> job[p].db, rev |-> 0]
                                 ELSE main[c][x]
      BY <1>0, <2>1, <2>2 DEF Replace
    <2>4. OwnPlace'
      <3>1. ASSUME NEW d \in Dbs, NEW c \in Collections, NEW k \in Collections,
                   NEW x \in Owned(d, c), main'[k][x] # Absent
            PROVE  k = c /\ main'[k][x].tenant \in Own(d)
        <4>1. CASE k = copy[p].coll /\ x \in docs
          <5>1. d = job[p].db /\ k = c
            BY <2>2, <4>1, IdsUnique
          <5>2. main'[k][x].tenant = d
            BY <1>0, <2>3, <4>1, <5>1
          <5>3. QED
            BY <2>2, <5>1, <5>2
        <4>2. CASE ~(k = copy[p].coll /\ x \in docs)
          <5> HIDE DEF Own
          <5>1. main'[k][x] = main[k][x]
            BY <1>0, <2>3, <4>2
          <5>2. QED
            BY <1>9, <3>1, <5>1
        <4>3. QED
          BY <4>1, <4>2
      <3>2. QED
        BY <1>9, <3>1
    <2>5. MainThere'
      <3>1. ASSUME NEW c \in Collections, NEW x \in Owned(Main, c)
            PROVE  main'[c][x] = main[c][x]
        <4>1. ~(c = copy[p].coll /\ x \in docs)
          BY <1>0, <2>2, IdsUnique
        <4>2. QED
          BY <1>0, <2>3, <4>1
      <3>2. QED
        BY <2>2, <3>1
    <2>6. QED
      BY <2>4, <2>5
  <1>5. ASSUME NEW k \in Collections, NEW y \in Docs, Update(p, k, y)
        PROVE  OwnPlace' /\ MainThere'
    <2>1. ASSUME NEW c \in Collections, NEW x \in Docs
          PROVE  /\ main'[c][x].tenant = main[c][x].tenant
                 /\ main[c][x] = Absent <=> main'[c][x] = Absent
      <3>1. CASE c = k /\ x = y
        <4>1. main[c][x] \in Document /\ main[c][x] # Absent
          BY <1>0, <1>5, <3>1 DEF Update, Known
        <4>2. main'[c][x] = [main[c][x] EXCEPT !.rev = @ + 1]
          BY <1>0, <1>5, <3>1 DEF Update
        <4>3. main'[c][x].tenant = main[c][x].tenant
          BY <4>1, <4>2 DEF Document
        <4>4. main[c][x].tenant # "absent"
          BY <4>1, DatabasesAssumption DEF Document, Untagged
        <4>5. QED
          BY <4>1, <4>3, <4>4 DEF Absent
      <3>2. CASE ~(c = k /\ x = y)
        BY <1>0, <1>5, <3>2 DEF Update
      <3>3. QED
        BY <3>1, <3>2
    <2>2. deleted' = deleted
      BY <1>5 DEF Update
    <2> HIDE DEF Own
    <2>3. OwnPlace'
      <3>1. ASSUME NEW d \in Dbs, NEW c \in Collections, NEW l \in Collections,
                   NEW x \in Owned(d, c), main'[l][x] # Absent
            PROVE  l = c /\ main'[l][x].tenant \in Own(d)
        <4>1. x \in Docs
          BY <1>0
        <4>2. main[l][x] # Absent /\ main'[l][x].tenant = main[l][x].tenant
          BY <2>1, <3>1, <4>1
        <4>3. QED
          BY <1>9, <4>2
      <3>2. QED
        BY <1>9, <3>1
    <2>4. QED
      BY <1>0, <2>1, <2>2, <2>3
  <1>6. ASSUME NEW k \in Collections, NEW y \in Docs, Delete(p, k, y)
        PROVE  OwnPlace' /\ MainThere'
    <2>1. ASSUME NEW c \in Collections, NEW x \in Docs
          PROVE  \/ main'[c][x] = main[c][x]
                 \/ main'[c][x] = Absent /\ x \in deleted'
      BY <1>0, <1>6 DEF Delete
    <2>2. deleted \subseteq deleted'
      BY <1>6 DEF Delete
    <2> HIDE DEF Own
    <2>3. OwnPlace'
      BY <1>0, <1>9, <2>1
    <2>4. QED
      BY <1>0, <2>1, <2>2, <2>3
  <1>7. ASSUME NEW e \in Dbs, NEW y \in Docs, Insert(p, e, y)
        PROVE  OwnPlace' /\ MainThere'
    <2>1. ASSUME NEW c \in Collections, NEW x \in Docs
          PROVE  main'[c][x] = IF c = Devices /\ x = y
                                 THEN [tenant |-> e, rev |-> 1]
                                 ELSE main[c][x]
      BY <1>0, <1>7 DEF Insert
    <2>2. y \in Owned(e, Devices) /\ deleted' = deleted
      BY <1>7 DEF Insert
    <2>3. OwnPlace'
      <3>1. ASSUME NEW d \in Dbs, NEW c \in Collections, NEW k \in Collections,
                   NEW x \in Owned(d, c), main'[k][x] # Absent
            PROVE  k = c /\ main'[k][x].tenant \in Own(d)
        <4>1. CASE k = Devices /\ x = y
          <5>1. d = e /\ k = c
            BY <1>0, <2>2, <4>1, IdsUnique
          <5>2. main'[k][x].tenant = d
            BY <1>0, <2>1, <4>1, <5>1
          <5>3. QED
            BY <5>1, <5>2
        <4>2. CASE ~(k = Devices /\ x = y)
          <5> HIDE DEF Own
          <5>1. main'[k][x] = main[k][x]
            BY <1>0, <2>1, <4>2
          <5>2. QED
            BY <1>9, <3>1, <5>1
        <4>3. QED
          BY <4>1, <4>2
      <3>2. QED
        BY <1>9, <3>1
    <2>4. MainThere'
      <3>1. [tenant |-> e, rev |-> 1] # Absent
        BY DEF Absent
      <3>2. QED
        BY <1>0, <2>1, <2>2, <3>1
    <2>5. QED
      BY <2>3, <2>4
  <1>8. QED
    BY <1>1, <1>2, <1>3, <1>4, <1>5, <1>6, <1>7, DocumentSteps

-----------------------------------------------------------------------------
\* A recorded version stays recorded.
LEMMA RecordedStable ==
  ASSUME TypeInv, NEW p \in Procs, ProcessNext(p),
         NEW d \in Dbs, schema[d] = Target
  PROVE  schema'[d] = Target
  <1>1. schema \in [Dbs -> Versions]
    BY DEF TypeInv, StateOK
  <1>2. ASSUME NEW e, NEW v \in 1 .. 2, Record(e, v)
        PROVE  schema'[d] = Target
    BY <1>1, <1>2 DEF Record, Target
  <1>3. \/ UNCHANGED schema
        \/ \E v \in 1 .. 2 : Record(job[p].db, v)
    BY SMTT(20) DEF ProcessNext, Start, Stop, ListDatabases, NextDatabase, DatabasesDone,
           ApplyNothing, Apply, MigrateIndexes, RecordVersion, TagCollection,
           Find, ReadDocument, ReadsEnd, CursorFails, BulkWrite, BulkWriteFails,
           Update, Insert, Delete, Changes
  <1>4. QED
    BY <1>2, <1>3

\* A process's step leaves the others where they are.
LEMMA OthersStay ==
  ASSUME TypeInv, NEW p \in Procs, ProcessNext(p), NEW q \in Procs, q # p
  PROVE  at'[q] = at[q] /\ job'[q] = job[q] /\ copy'[q] = copy[q]
  <1>1. /\ at \in [Procs -> At] /\ job \in [Procs -> Job]
        /\ copy \in [Procs -> Copy]
    BY DEF TypeInv, StateOK
  <1>2. QED
    BY <1>1 DEF ProcessNext, Start, Stop, ListDatabases, NextDatabase,
         DatabasesDone, ApplyNothing, Apply, MigrateIndexes, RecordVersion,
         TagCollection, Find, ReadDocument, ReadsEnd, CursorFails, AfterReading,
         BulkWrite, BulkWriteFails, Update, Insert, Delete, Changes

\* What a process knows of the documents stays true while others work.
LEMMA ProcessStable ==
  ASSUME TypeInv, NEW p \in Procs, ProcessInv(p), ProcessNext(p),
         NEW q \in Procs, ProcessInv(q),
         at'[q] = at[q], job'[q] = job[q], copy'[q] = copy[q]
  PROVE  ProcessInv(q)'
  <1>1. BatchOwn(q)'
    BY DEF ProcessInv, BatchOwn, Copying
  <1>2. ReadKept(q)'
    <2> SUFFICES ASSUME Copying(q), NEW i \in 1 .. Len(Source(q)),
                        at[q] = "last" \/ i <= copy[q].pos,
                        Source(q)[i] \notin ToSet(copy[q].writes)
                 PROVE  Kept(job[q].db, copy[q].coll, Source(q)[i])'
      BY DEF ReadKept, Copying, Source, Kept
    <2>1. Kept(job[q].db, copy[q].coll, Source(q)[i])
      BY DEF ProcessInv, ReadKept
    <2>2. /\ job[q].db \in Dbs /\ copy[q].coll \in Collections
          /\ Source(q)[i] \in Owned(job[q].db, copy[q].coll)
      BY CopyingType, OwnedType DEF Source
    <2>3. PICK d \in Dbs, c \in Collections, x \in Docs :
            /\ x \in Owned(d, c)
            /\ d = job[q].db /\ c = copy[q].coll /\ x = Source(q)[i]
      BY <2>2, OwnedType
    <2>4. Kept(d, c, x)'
      BY <2>1, <2>3, KeptStable
    <2>5. Source(q)' = Source(q)
      BY DEF Source
    <2>6. QED
      BY <2>3, <2>4, <2>5 DEF Kept
  <1>3. CollectionsKept(q)'
    <2> SUFFICES ASSUME at[q] \in {"indexing", "collections"} \/ Copying(q),
                        NEW c \in Collections \ copy[q].colls,
                        ~(Copying(q) /\ c = copy[q].coll)
                 PROVE  AllKept(job[q].db, c)'
      BY DEF CollectionsKept, Copying, AllKept, Kept
    <2>1. AllKept(job[q].db, c)
      BY DEF ProcessInv, CollectionsKept
    <2>2. job[q].db \in Dbs
      BY DEF TypeInv, StateOK, Job
    <2>3. QED
      BY <2>1, <2>2, KeptStable DEF AllKept, Kept
  <1>4. Visited(q)'
    BY RecordedStable DEF ProcessInv, Visited, Copying
  <1>5. QED
    BY <1>1, <1>2, <1>3, <1>4 DEF ProcessInv

-----------------------------------------------------------------------------
\* Where a process is and what is left to it.
LEMMA JobType ==
  ASSUME TypeInv, NEW p \in Procs
  PROVE  /\ job[p] \in Job /\ job[p].db \in Dbs /\ job[p].dbs \subseteq Dbs
         /\ copy[p] \in Copy /\ copy[p].colls \subseteq Collections
         /\ at \in [Procs -> At] /\ job \in [Procs -> Job]
         /\ copy \in [Procs -> Copy] /\ schema \in [Dbs -> Versions]
  BY DEF TypeInv, StateOK, Job, Copy

\* A collection in place stays in place.
LEMMA AllKeptStable ==
  ASSUME TypeInv, NEW p \in Procs, ProcessInv(p), ProcessNext(p),
         NEW d \in Dbs, NEW c \in Collections, AllKept(d, c)
  PROVE  AllKept(d, c)'
  BY KeptStable DEF AllKept, Kept

\* A process is at one step of the migration of one database, after those it
\* is through with.
LEMMA VisitedSteps ==
  ASSUME TypeInv, NEW p \in Procs, ProcessInv(p), ProcessNext(p)
  PROVE  Visited(p)'
  <1> USE JobType DEF Copying
  <1>1. Visited(p)
    BY DEF ProcessInv
  <1>2. ASSUME NEW d \in Dbs, schema[d] = Target PROVE schema'[d] = Target
    BY <1>2, RecordedStable
  <1>3. ASSUME NEW mode \in Modes, Start(p, mode) PROVE Visited(p)'
    BY <1>3 DEF Start, Visited
  <1>4. CASE Stop(p) \/ BulkWriteFails(p)
    BY <1>4 DEF Stop, BulkWriteFails, Visited
  <1>5. CASE ListDatabases(p)
    <2>1. /\ at'[p] = "applying" /\ job'[p].dbs = Tenants /\ job'[p].db = Main
      BY <1>5 DEF ListDatabases, Job
    <2>2. QED
      BY <2>1 DEF Visited, Dbs
  <1>6. CASE NextDatabase(p)
    <2>1. PICK d \in job[p].dbs :
            job' = [job EXCEPT ![p].dbs = @ \ {d}, ![p].db = d]
      BY <1>6 DEF NextDatabase
    <2>2. /\ at[p] = "choosing" /\ at'[p] = "applying" /\ schema' = schema
          /\ job'[p].dbs = job[p].dbs \ {d} /\ job'[p].db = d
      BY <1>6, <2>1 DEF NextDatabase, Job
    <2>3. QED
      BY <1>1, <2>2 DEF Visited
  <1>7. CASE DatabasesDone(p)
    <2>1. /\ at[p] = "choosing" /\ job[p].dbs = {} /\ schema' = schema
          /\ at'[p] \in {"listing", "off", "serving"}
          /\ job'[p].dbs = job[p].dbs
      BY <1>7 DEF DatabasesDone, Job
    <2>2. QED
      BY <1>1, <2>1 DEF Visited
  <1>8. CASE ApplyNothing(p)
    <2>1. schema[job[p].db] = Target
      BY <1>8 DEF ApplyNothing, Passes, NeedsMigration, Versions, Target
    <2>2. at[p] = "applying" /\ at'[p] = "choosing" /\ UNCHANGED <<job, schema>>
      BY <1>8 DEF ApplyNothing
    <2>3. QED
      BY <1>1, <2>1, <2>2 DEF Visited
  <1>9. CASE RecordVersion(p)
    <2>1. schema'[job[p].db] = Target
      BY <1>9 DEF RecordVersion, Record, Versions, Target
    <2>2. at[p] = "collections" /\ at'[p] = "choosing" /\ UNCHANGED job
      BY <1>9 DEF RecordVersion
    <2>3. QED
      BY <1>1, <1>2, <2>1, <2>2 DEF Visited
  <1>10. CASE /\ at[p] \in {"applying", "indexing", "collections", "reading",
                            "full", "last"}
              /\ at'[p] \in {"indexing", "collections", "reading", "full",
                             "last"}
              /\ UNCHANGED job
    BY <1>1, <1>2, <1>10 DEF Visited
  <1>11. CASE at[p] = "serving" /\ UNCHANGED <<at, job, schema>>
    BY <1>1, <1>11 DEF Visited
  <1>12. QED
    BY <1>3, <1>4, <1>5, <1>6, <1>7, <1>8, <1>9, <1>10, <1>11
       DEF ProcessNext, Apply, MigrateIndexes, TagCollection, Find,
           ReadDocument, ReadsEnd, CursorFails, AfterReading, BulkWrite,
           Update, Insert, Delete, Changes

\* A process that is not copying knows of the collections it is through with.
LEMMA NotCopying ==
  ASSUME TypeInv, NEW p \in Procs, ~Copying(p)', Visited(p)',
         \/ at'[p] \notin {"indexing", "collections"}
         \/ \A c \in Collections \ copy'[p].colls : AllKept(job[p].db, c)',
         at'[p] \in {"indexing", "collections"} => job'[p].db = job[p].db
  PROVE  ProcessInv(p)'
  <1>1. BatchOwn(p)' /\ ReadKept(p)'
    BY DEF BatchOwn, ReadKept
  <1>2. CollectionsKept(p)'
    BY DEF CollectionsKept, AllKept, Kept, Copying
  <1>3. QED
    BY <1>1, <1>2 DEF ProcessInv

\* A process that goes on with its collection.
LEMMA StillCopying ==
  ASSUME TypeInv, NEW p \in Procs, ProcessInv(p), ProcessNext(p),
         Copying(p), Copying(p)', Visited(p)', BatchOwn(p)', ReadKept(p)',
         job' = job, copy'[p].colls = copy[p].colls,
         copy'[p].coll = copy[p].coll
  PROVE  ProcessInv(p)'
  <1>1. CollectionsKept(p)'
    <2> SUFFICES ASSUME NEW c \in Collections \ copy[p].colls,
                        c # copy[p].coll
                 PROVE  AllKept(job[p].db, c)'
      BY DEF CollectionsKept, AllKept, Kept
    <2>1. AllKept(job[p].db, c)
      BY DEF ProcessInv, CollectionsKept
    <2>2. QED
      BY <2>1, JobType, AllKeptStable DEF AllKept, Kept
  <1>2. QED
    BY <1>1 DEF ProcessInv

\* A collection that was read to its end and has no batch left is in place.
LEMMA ReadIsKept ==
  ASSUME NEW d \in Dbs, NEW c \in Collections,
         \A i \in 1 .. Len(Legacy[d][c]) : Kept(d, c, Legacy[d][c][i])'
  PROVE  AllKept(d, c)'
  BY OwnedType DEF AllKept, Kept

\* A batch with a document more.
LEMMA BatchSet ==
  ASSUME NEW docs \in Seq(Docs), NEW x \in Docs
  PROVE  ToSet(Append(docs, x)) = ToSet(docs) \union {x}
  <1>1. /\ Len(Append(docs, x)) = Len(docs) + 1 /\ Len(docs) \in Nat
        /\ \A i \in 1 .. Len(docs) : Append(docs, x)[i] = docs[i]
        /\ Append(docs, x)[Len(docs) + 1] = x
    OBVIOUS
  <1>2. QED
    BY <1>1 DEF ToSet

\* A process takes another collection when the one it read is in place.
LEMMA ThroughWith ==
  ASSUME TypeInv, NEW p \in Procs, ProcessInv(p), ProcessNext(p),
         Copying(p), at'[p] = "collections", Visited(p)', job' = job,
         copy'[p].colls = copy[p].colls, copy'[p].coll = copy[p].coll,
         AllKept(job[p].db, copy[p].coll)'
  PROVE  ProcessInv(p)'
  <1>1. ASSUME NEW c \in Collections \ copy[p].colls
        PROVE  AllKept(job[p].db, c)'
    <2>1. CASE c = copy[p].coll
      BY <2>1 DEF AllKept, Kept
    <2>2. CASE c # copy[p].coll
      <3>1. AllKept(job[p].db, c)
        BY <2>2 DEF ProcessInv, CollectionsKept
      <3>2. QED
        BY <3>1, JobType, AllKeptStable DEF AllKept, Kept
    <2>3. QED
      BY <2>1, <2>2
  <1>2. QED
    BY <1>1, NotCopying DEF Copying

\* What a process knows stays true as it moves on.
LEMMA OwnStep ==
  ASSUME TypeInv, OwnPlace, MainThere,
         NEW p \in Procs, ProcessInv(p), ProcessNext(p)
  PROVE  ProcessInv(p)'
  <1>0. Visited(p)'
    BY VisitedSteps
  <1> USE JobType
  <1>1. CASE at'[p] \notin {"indexing", "collections", "reading", "full", "last"}
    BY <1>0, <1>1, NotCopying DEF Copying
  <1>2. CASE Apply(p)
    <2>1. /\ at'[p] \in {"indexing", "collections"} /\ job' = job
          /\ copy'[p].colls = Collections
      BY <1>2 DEF Apply, NoCopy
    <2>2. QED
      BY <1>0, <2>1, NotCopying DEF Copying
  <1>3. CASE MigrateIndexes(p)
    <2>1. /\ at[p] = "indexing" /\ at'[p] = "collections"
          /\ UNCHANGED <<job, copy, main, deleted, cut>>
      BY <1>3 DEF MigrateIndexes
    <2>2. \A c \in Collections \ copy[p].colls : AllKept(job[p].db, c)'
      BY <2>1 DEF ProcessInv, CollectionsKept, Copying, AllKept, Kept
    <2>3. QED
      BY <1>0, <2>1, <2>2, NotCopying DEF Copying
  <1>4. ASSUME NEW k \in Collections, TagCollection(p, k)
        PROVE  ProcessInv(p)'
    <2>1. /\ at[p] = "collections" /\ at'[p] = "collections" /\ job' = job
          /\ copy'[p].colls = copy[p].colls \ {k} /\ job[p].db = Main
          /\ deleted' = deleted
      BY <1>4 DEF TagCollection, Copy
    <2>2. AllKept(Main, k)'
      <3> SUFFICES ASSUME NEW x \in Owned(Main, k), x \notin deleted
                   PROVE  main'[k][x].tenant = Main
        BY <2>1 DEF AllKept, Kept
      <3>1. /\ main[k][x] # Absent /\ main[k][x].tenant \in {Main, Untagged}
            /\ x \in Docs
        <4>1. main[k][x] # Absent
          BY DEF MainThere
        <4>2. Main \in Dbs
          BY DEF Dbs
        <4>3. x \in Docs
          BY <4>2, OwnedType
        <4>4. main[k][x].tenant \in {Main, Untagged}
          BY <4>1, <4>2, ZenonT(30) DEF OwnPlace
        <4>5. QED
          BY <4>1, <4>3, <4>4
      <3>2. main[k][x] \in Document
        BY <3>1 DEF TypeInv, StateOK
      <3>3. CASE main[k][x].tenant = Untagged
        <4>1. main'[k][x] = [main[k][x] EXCEPT !.tenant = Main]
          BY <1>4, <3>1, <3>3 DEF TagCollection, Tags, TypeInv, StateOK
        <4>2. QED
          BY <3>2, <4>1 DEF Document
      <3>4. CASE main[k][x].tenant # Untagged
        BY <1>4, <3>1, <3>4 DEF TagCollection, Tags, TypeInv, StateOK
      <3>5. QED
        BY <3>3, <3>4
    <2>3. ASSUME NEW c \in Collections \ copy[p].colls PROVE AllKept(Main, c)'
      <3>1. AllKept(Main, c)
        BY <2>1 DEF ProcessInv, CollectionsKept, Copying
      <3>2. QED
        BY <2>1, <3>1, AllKeptStable
    <2>4. \A c \in Collections \ copy'[p].colls : AllKept(job[p].db, c)'
      BY <2>1, <2>2, <2>3 DEF AllKept, Kept
    <2>5. QED
      BY <1>0, <2>1, <2>4, NotCopying DEF Copying
  <1>5. ASSUME NEW k \in Collections, Find(p, k) PROVE ProcessInv(p)'
    <2>1. /\ at[p] = "collections" /\ at'[p] = "reading" /\ job' = job
          /\ job[p].db # Main
          /\ copy'[p].colls = copy[p].colls \ {k} /\ copy'[p].coll = k
          /\ copy'[p].pos = 0 /\ copy'[p].writes = <<>>
      BY <1>5 DEF Find, WritesReset
    <2>2. BatchOwn(p)'
      BY <2>1 DEF BatchOwn, ToSet
    <2>3. ReadKept(p)'
      BY <2>1 DEF ReadKept
    <2>4. CollectionsKept(p)'
      <3> SUFFICES ASSUME NEW c \in Collections \ copy[p].colls
                   PROVE  AllKept(job[p].db, c)'
        BY <2>1 DEF CollectionsKept, AllKept, Kept
      <3>1. AllKept(job[p].db, c)
        BY <2>1 DEF ProcessInv, CollectionsKept, Copying
      <3>2. QED
        BY <2>1, <3>1, AllKeptStable DEF AllKept, Kept
    <2>5. QED
      BY <1>0, <2>2, <2>3, <2>4 DEF ProcessInv
  <1>6. CASE ReadDocument(p)
    <2> DEFINE writes == Append(copy[p].writes, Source(p)[copy[p].pos + 1])
    <2>1. /\ at[p] = "reading" /\ at'[p] \in {"reading", "full"}
          /\ UNCHANGED <<main, job, deleted, cut>>
          /\ copy[p].pos < Len(Source(p))
      BY <1>6 DEF ReadDocument
    <2>2. /\ copy'[p].colls = copy[p].colls /\ copy'[p].coll = copy[p].coll
          /\ copy'[p].pos = copy[p].pos + 1 /\ copy'[p].writes = writes
      <3> DEFINE k == [copy[p] EXCEPT !.pos = @ + 1, !.writes = writes]
      <3>1. copy[p].writes \in Seq(Docs) /\ Source(p)[copy[p].pos + 1] \in Docs
        <4>1. copy[p].coll \in Collections
          BY <2>1, CopyingType DEF Copying
        <4>2. QED
          BY <2>1, <4>1, OwnedType, CopyType DEF Source
      <3>2. writes \in Seq(Docs)
        BY <3>1
      <3>3. copy'[p] = k
        BY <1>6 DEF ReadDocument
      <3> HIDE DEF writes
      <3>4. k = [colls |-> copy[p].colls, coll |-> copy[p].coll,
                 pos |-> copy[p].pos + 1, writes |-> writes]
        BY <3>2, BatchGrows
      <3> HIDE DEF k
      <3>5. QED
        BY <3>3, <3>4
    <2>3. /\ Source(p) \in Seq(Docs) /\ copy[p].pos \in Nat
          /\ copy[p].writes \in Seq(Docs)
          /\ job[p].db \in Dbs /\ job[p].db # Main
          /\ copy[p].coll \in Collections
      BY <2>1, CopyingType, OwnedType, CopyType DEF Copying, Source
    <2>4. /\ ToSet(copy[p].writes) \subseteq ToSet(writes)
          /\ Source(p)[copy[p].pos + 1] \in ToSet(writes)
          /\ ToSet(writes) \subseteq ToSet(copy[p].writes) \union
                                      {Source(p)[copy[p].pos + 1]}
      <3>1. Source(p)[copy[p].pos + 1] \in Docs
        BY <2>1, <2>3
      <3>2. QED
        BY <2>3, <3>1, BatchSet
    <2> HIDE DEF writes
    <2>5. Source(p)[copy[p].pos + 1] \in Owned(job[p].db, copy[p].coll)
      BY <2>1, <2>3, OwnedType DEF Source
    <2>6. BatchOwn(p)'
      BY <2>1, <2>2, <2>3, <2>4, <2>5, CopyingType DEF BatchOwn, Copying
    <2>7. ReadKept(p)'
      <3>1. Source(p)' = Source(p)
        BY <2>1, <2>2 DEF Source
      <3>2. ASSUME NEW i \in 1 .. Len(Source(p)), i <= copy[p].pos + 1,
                   Source(p)[i] \notin ToSet(writes)
            PROVE  Kept(job[p].db, copy[p].coll, Source(p)[i])
        <4>1. i <= copy[p].pos /\ Source(p)[i] \notin ToSet(copy[p].writes)
          BY <2>3, <2>4, <3>2
        <4>2. QED
          BY <2>1, <4>1 DEF ProcessInv, ReadKept, Copying
      <3>3. QED
        BY <2>1, <2>2, <3>1, <3>2 DEF ReadKept, Kept
    <2>8. QED
      BY <1>0, <2>1, <2>2, <2>6, <2>7, StillCopying DEF Copying
  <1>7. CASE ReadsEnd(p) \/ CursorFails(p)
    <2>1. /\ at[p] = "reading" /\ UNCHANGED <<main, job, copy, deleted>>
          /\ at'[p] = IF Leftover(p) THEN "last" ELSE "collections"
      BY <1>7 DEF ReadsEnd, CursorFails, AfterReading
    <2>2. /\ Source(p) \in Seq(Docs) /\ copy[p].pos \in Nat
          /\ copy[p].writes \in Seq(Docs)
          /\ job[p].db \in Dbs /\ job[p].db # Main
          /\ copy[p].coll \in Collections
      BY <2>1, CopyingType, OwnedType, CopyType DEF Copying, Source
    <2>3. ASSUME NEW i \in 1 .. Len(Source(p)),
                 Source(p)[i] \notin ToSet(copy[p].writes)
          PROVE  Kept(job[p].db, copy[p].coll, Source(p)[i])'
      <3>1. CASE i <= copy[p].pos
        <4>1. Kept(job[p].db, copy[p].coll, Source(p)[i])
          BY <2>1, <2>3, <3>1 DEF ProcessInv, ReadKept, Copying
        <4>2. cut \subseteq cut'
          BY <1>7 DEF ReadsEnd, CursorFails
        <4>3. QED
          BY <2>1, <4>1, <4>2 DEF Kept, Source
      <3>2. CASE i > copy[p].pos
        <4>1. CursorFails(p) /\ i \in copy[p].pos + 1 .. Len(Source(p))
          BY <1>7, <2>2, <3>2 DEF ReadsEnd
        <4>2. Source(p)[i] \in cut'
          BY <4>1 DEF CursorFails
        <4>3. QED
          BY <2>1, <4>2 DEF Kept, Source
      <3>3. QED
        BY <2>2, <3>1, <3>2
    <2>4. CASE Leftover(p)
      <3>1. BatchOwn(p)'
        BY <2>1, <2>4 DEF ProcessInv, BatchOwn, Copying
      <3>2. ReadKept(p)'
        BY <2>1, <2>3, <2>4 DEF ReadKept, Source, Kept
      <3>3. QED
        BY <1>0, <2>1, <2>4, <3>1, <3>2, StillCopying DEF Copying
    <2>5. CASE ~Leftover(p)
      <3>1. ToSet(copy[p].writes) = {}
        BY <2>5 DEF Leftover, ToSet
      <3>2. AllKept(job[p].db, copy[p].coll)'
        BY <2>1, <2>2, <2>3, <3>1, ReadIsKept DEF Source
      <3>3. QED
        BY <1>0, <2>1, <2>5, <3>2, ThroughWith DEF Copying
    <2>6. QED
      BY <2>4, <2>5
  <1>8. CASE BulkWrite(p)
    <2>1. /\ at[p] \in {"full", "last"} /\ job' = job
          /\ UNCHANGED <<deleted, schema>>
          /\ Replace(p, ToSet(copy[p].writes))
          /\ copy'[p].colls = copy[p].colls /\ copy'[p].coll = copy[p].coll
          /\ copy'[p].pos = copy[p].pos
      <3>1. CASE at[p] = "full"
        <4>1. copy'[p] = [copy[p] EXCEPT !.writes = <<>>]
          BY <1>8, <3>1 DEF BulkWrite
        <4>2. QED
          BY <1>8, <4>1, BatchEmptied DEF BulkWrite
      <3>2. CASE at[p] # "full"
        BY <1>8, <3>2 DEF BulkWrite
      <3>3. QED
        BY <3>1, <3>2
    <2>2. /\ Source(p) \in Seq(Docs) /\ copy[p].pos \in Nat
          /\ job[p].db # Main /\ copy[p].coll \in Collections
      BY <2>1, CopyingType, OwnedType, CopyType DEF Copying, Source
    <2>3. ASSUME NEW i \in 1 .. Len(Source(p)), at[p] = "last" \/ i <= copy[p].pos
          PROVE  Kept(job[p].db, copy[p].coll, Source(p)[i])'
      <3>1. Source(p)' = Source(p) /\ Source(p)[i] \in Docs
        BY <2>1, <2>2 DEF Source
      <3>2. CASE Source(p)[i] \in ToSet(copy[p].writes)
        <4>1. main'[copy[p].coll][Source(p)[i]] =
                [tenant |-> job[p].db, rev |-> 0]
          BY <2>1, <2>2, <3>1, <3>2 DEF Replace, TypeInv, StateOK
        <4>2. QED
          BY <2>1, <3>1, <4>1 DEF Kept
      <3>3. CASE Source(p)[i] \notin ToSet(copy[p].writes)
        <4>1. Kept(job[p].db, copy[p].coll, Source(p)[i])
          BY <2>1, <2>3, <3>3 DEF ProcessInv, ReadKept, Copying
        <4>2. Source(p)[i] \in Owned(job[p].db, copy[p].coll)
          BY <2>2, OwnedType DEF Source
        <4>3. PICK d \in Dbs, c \in Collections, x \in Docs :
                /\ x \in Owned(d, c)
                /\ d = job[p].db /\ c = copy[p].coll /\ x = Source(p)[i]
          BY <2>2, <3>1, <4>2
        <4>4. Kept(d, c, x)'
          BY <4>1, <4>3, KeptStable
        <4>5. QED
          BY <2>1, <3>1, <4>3, <4>4 DEF Kept
      <3>4. QED
        BY <3>2, <3>3
    <2>4. CASE at[p] = "full"
      <3>1. at'[p] = "reading" /\ copy'[p].writes = <<>>
        BY <1>8, <2>4, BatchEmptied DEF BulkWrite
      <3>2. BatchOwn(p)'
        BY <2>1, <2>2, <3>1 DEF BatchOwn, ToSet
      <3>3. ReadKept(p)'
        BY <2>1, <2>3, <3>1 DEF ReadKept, Source, Kept
      <3>4. QED
        BY <1>0, <2>1, <2>4, <3>1, <3>2, <3>3, StillCopying DEF Copying
    <2>5. CASE at[p] = "last"
      <3>1. at'[p] = "collections"
        BY <1>8, <2>5 DEF BulkWrite
      <3>2. AllKept(job[p].db, copy[p].coll)'
        BY <2>1, <2>2, <2>3, <2>5, ReadIsKept DEF Source
      <3>3. QED
        BY <1>0, <2>1, <2>5, <3>1, <3>2, ThroughWith DEF Copying
    <2>6. QED
      BY <2>1, <2>4, <2>5
  <1>9. QED
    BY <1>1, <1>2, <1>3, <1>4, <1>5, <1>6, <1>7, <1>8
       DEF ProcessNext, Start, Stop, ListDatabases, NextDatabase,
           DatabasesDone, ApplyNothing, RecordVersion, BulkWriteFails,
           Update, Insert, Delete, Changes

-----------------------------------------------------------------------------
\* A version is recorded when every collection is in place.
LEMMA RecordedSteps ==
  ASSUME TypeInv, RecordedKept, NEW p \in Procs, ProcessInv(p), ProcessNext(p)
  PROVE  RecordedKept'
  <1>1. ASSUME NEW d \in Dbs, schema'[d] = Target, schema[d] # Target
        PROVE  /\ d = job[p].db /\ at[p] = "collections"
               /\ copy[p].colls = {}
    <2>1. schema' # schema
      BY <1>1
    <2>2. MigrateIndexes(p) \/ RecordVersion(p)
      BY <2>1 DEF ProcessNext, Start, Stop, ListDatabases, NextDatabase,
           DatabasesDone, ApplyNothing, Apply, TagCollection, Find,
           ReadDocument, ReadsEnd, CursorFails, BulkWrite, BulkWriteFails,
           Update, Insert, Delete, Changes
    <2>3. ~MigrateIndexes(p)
      BY <1>1, JobType DEF MigrateIndexes, Record, Target
    <2>4. QED
      BY <1>1, <2>2, <2>3, JobType DEF RecordVersion, Record
  <1>2. ASSUME NEW d \in Dbs, schema'[d] = Target, NEW c \in Collections
        PROVE  AllKept(d, c)'
    <2>1. CASE schema[d] = Target
      BY <2>1, AllKeptStable DEF RecordedKept
    <2>2. CASE schema[d] # Target
      <3>1. AllKept(d, c)
        BY <1>1, <1>2, <2>2 DEF ProcessInv, CollectionsKept, Copying
      <3>2. QED
        BY <3>1, AllKeptStable
    <2>3. QED
      BY <2>1, <2>2
  <1>3. QED
    BY <1>2 DEF RecordedKept, AllKept, Kept

\* The service changes a document when all versions are recorded.
LEMMA ChangesSteps ==
  ASSUME TypeInv, ChangesLast, NEW p \in Procs, ProcessInv(p), ProcessNext(p)
  PROVE  ChangesLast'
  <1>1. changes \in Nat
    BY BoundsAssumption DEF TypeInv, StateOK
  <1>2. \/ UNCHANGED <<changes, deleted>>
        \/ /\ at[p] = "serving" /\ changes' = changes + 1
    BY DEF ProcessNext, Start, Stop, ListDatabases, NextDatabase,
           DatabasesDone, ApplyNothing, Apply, MigrateIndexes, RecordVersion,
           TagCollection, Find, ReadDocument, ReadsEnd, CursorFails, BulkWrite,
           BulkWriteFails, Update, Insert, Delete, Changes
  <1>3. at[p] = "serving" => \A d \in Dbs : schema[d] = Target
    BY DEF ProcessInv, Visited
  <1>4. ASSUME \A d \in Dbs : schema[d] = Target
        PROVE  \A d \in Dbs : schema'[d] = Target
    BY <1>4, RecordedStable
  <1>5. QED
    BY <1>1, <1>2, <1>3, <1>4 DEF ChangesLast

\* The versions, the documents and what every process knows agree.
THEOREM Inductive == Spec => []IInv
  <1>1. ASSUME Init PROVE IInv
    <2>1. ChangesLast
      BY <1>1 DEF Init, ChangesLast
    <2>2. OwnPlace /\ MainThere
      <3>1. ASSUME NEW c \in Collections, NEW x \in Docs
            PROVE  main[c][x] = IF x \in Owned(Main, c)
                                  THEN [tenant |-> Untagged, rev |-> 0]
                                  ELSE Absent
        BY <1>1 DEF Init
      <3>2. \A d \in Dbs, c \in Collections : Owned(d, c) \subseteq Docs
        BY OwnedType
      <3>3. [tenant |-> Untagged, rev |-> 0] # Absent /\ Main \in Dbs
        BY DEF Absent, Untagged, Dbs
      <3>4. MainThere
        BY <3>1, <3>2, <3>3 DEF MainThere
      <3>5. ASSUME NEW d \in Dbs, NEW c \in Collections, NEW k \in Collections,
                   NEW x \in Owned(d, c), main[k][x] # Absent
            PROVE  k = c /\ d = Main /\ main[k][x].tenant = Untagged
        <4>1. x \in Owned(Main, k)
          BY <3>1, <3>2, <3>5
        <4>2. k = c /\ d = Main
          BY <3>3, <4>1, IdsUnique
        <4>3. QED
          BY <3>1, <3>2, <4>1, <4>2
      <3>6. OwnPlace
        BY <3>5 DEF OwnPlace
      <3>7. QED
        BY <3>4, <3>6
    <2>3. RecordedKept
      BY <1>1 DEF Init, RecordedKept, Target
    <2>4. \A p \in Procs : ProcessInv(p)
      BY <1>1 DEF Init, ProcessInv, BatchOwn, ReadKept, CollectionsKept,
                  Visited, Copying
    <2>5. QED
      BY <2>1, <2>2, <2>3, <2>4 DEF IInv
  <1>2. ASSUME TypeInv, IInv, NEW p \in Procs, ProcessNext(p) PROVE IInv'
    <2>1. /\ ChangesLast /\ OwnPlace /\ MainThere /\ RecordedKept
          /\ ProcessInv(p)
      BY <1>2 DEF IInv
    <2>2. ChangesLast'
      BY <1>2, <2>1, ChangesSteps
    <2>3. OwnPlace' /\ MainThere'
      BY <1>2, <2>1, PlacesStable
    <2>4. RecordedKept'
      BY <1>2, <2>1, RecordedSteps
    <2>5. ASSUME NEW q \in Procs PROVE ProcessInv(q)'
      <3>1. CASE q = p
        BY <1>2, <2>1, <3>1, OwnStep
      <3>2. CASE q # p
        <4>1. ProcessInv(q)
          BY <1>2 DEF IInv
        <4>2. at'[q] = at[q] /\ job'[q] = job[q] /\ copy'[q] = copy[q]
          BY <1>2, <3>2, OthersStay
        <4>3. QED
          BY <1>2, <2>1, <4>1, <4>2, ProcessStable
      <3>3. QED
        BY <3>1, <3>2
    <2>6. QED
      BY <2>2, <2>3, <2>4, <2>5 DEF IInv
  <1>3. ASSUME IInv, UNCHANGED vars PROVE IInv'
    <2>1. UNCHANGED <<main, schema, at, job, copy, changes, deleted, cut>>
      BY <1>3 DEF vars, processVars
    <2>2. ASSUME NEW d, NEW c PROVE AllKept(d, c)' <=> AllKept(d, c)
      BY <2>1 DEF AllKept, Kept
    <2>3. ChangesLast' /\ OwnPlace' /\ MainThere'
      BY <1>3, <2>1 DEF IInv, ChangesLast, OwnPlace, MainThere
    <2>4. RecordedKept'
      BY <1>3, <2>1, <2>2 DEF IInv, RecordedKept
    <2>5. ASSUME NEW p \in Procs PROVE ProcessInv(p)'
      <3>1. ProcessInv(p)
        BY <1>3 DEF IInv
      <3>2. BatchOwn(p)' /\ Visited(p)'
        BY <2>1, <3>1 DEF ProcessInv, BatchOwn, Visited, Copying
      <3>3. ReadKept(p)'
        BY <2>1, <3>1 DEF ProcessInv, ReadKept, Copying, Source, Kept
      <3>4. CollectionsKept(p)'
        BY <2>1, <3>1 DEF ProcessInv, CollectionsKept, Copying, AllKept, Kept
      <3>5. QED
        BY <3>2, <3>3, <3>4 DEF ProcessInv
    <2>6. QED
      BY <2>3, <2>4, <2>5 DEF IInv
  <1> HIDE DEF IInv
  <1>4. TypeInv /\ IInv /\ [Next]_vars => IInv'
    BY <1>2, <1>3 DEF Next
  <1>5. QED
    BY <1>1, <1>4, TypesInductive, PTL DEF Spec

\* The variables have their types: a batch is written when it is full, never
\* later, and a cursor stays within its collection.
THEOREM TypeCorrect == Spec => []TypeOK
  <1> DEFINE RacingType == racing \subseteq Procs
  <1>1. Init => RacingType
    BY DEF Init
  <1>2. RacingType /\ [Next]_vars => RacingType'
    BY DEF Next, NoteRaces, vars
  <1>3. TypeInv /\ RacingType => TypeOK
    BY DEF TypeInv, TypeOK
  <1> HIDE DEF RacingType
  <1>4. Spec => []RacingType
    BY <1>1, <1>2, PTL DEF Spec
  <1>5. QED
    BY <1>3, <1>4, TypesInductive, PTL

\* A document is never in another collection or with another tenant, however
\* many processes migrate, crash and repeat a migration.
THEOREM OwnPlaceHolds == Spec => []OwnPlace
  BY Inductive, PTL DEF IInv

\* Who serves has every document in place that was neither deleted nor cut off
\* by a failing cursor.
THEOREM NothingLostHolds == Spec => []NothingLost
  <1>1. IInv => NothingLost
    <2> SUFFICES ASSUME IInv, NEW p \in Procs, NEW d \in Dbs,
                        NEW c \in Collections, at[p] = "serving"
                 PROVE  \A x \in Owned(d, c) \ (deleted \union cut) :
                          main[c][x].tenant = d
      BY DEF NothingLost
    <2>1. schema[d] = Target
      BY DEF IInv, ProcessInv, Visited
    <2>2. AllKept(d, c)
      BY <2>1 DEF IInv, RecordedKept
    <2>3. QED
      BY <2>2 DEF AllKept, Kept
  <1>2. QED
    BY <1>1, Inductive, PTL

\* A process that migrates a database whose version is recorded races.
RacesKnown ==
  \A p \in Procs :
    Migrating(p) /\ schema[job[p].db] = Target => p \in racing

\* A process that migrates was migrating that database already, or has just
\* found its version not recorded.
LEMMA MigratingSteps ==
  ASSUME TypeInv, NEW p \in Procs, ProcessNext(p), NEW q \in Procs,
         Migrating(q)'
  PROVE  \/ Migrating(q) /\ job'[q] = job[q]
         \/ /\ schema' = schema /\ job'[q] = job[q]
            /\ schema[job[q].db] < Target
  <1>1. CASE q # p
    BY <1>1, OthersStay DEF Migrating
  <1>2. CASE q = p
    <2>1. at \in [Procs -> At] /\ job \in [Procs -> Job]
      BY DEF TypeInv, StateOK
    <2>2. CASE Apply(p)
      BY <1>2, <2>2 DEF Apply, NeedsMigration
    <2>3. CASE ~Apply(p)
      BY <1>2, <2>1, <2>3
         DEF Migrating, ProcessNext, Start, Stop, ListDatabases, NextDatabase,
             DatabasesDone, ApplyNothing, MigrateIndexes, RecordVersion,
             TagCollection, Find, ReadDocument, ReadsEnd, CursorFails,
             AfterReading, BulkWrite, BulkWriteFails, Update, Insert, Delete,
             Changes
    <2>4. QED
      BY <2>2, <2>3
  <1>3. QED
    BY <1>1, <1>2

\* Whoever goes on migrating a recorded database has been overtaken.
LEMMA RacesStayKnown == Spec => []RacesKnown
  <1>1. Init => RacesKnown
    BY DEF Init, RacesKnown, Migrating
  <1>2. ASSUME TypeInv, RacesKnown, NEW p \in Procs, ProcessNext(p), NoteRaces
        PROVE  RacesKnown'
    <2> SUFFICES ASSUME NEW q \in Procs, Migrating(q)',
                        schema'[job'[q].db] = Target
                 PROVE  q \in racing \/ Overtaken(q)
      BY <1>2 DEF RacesKnown, NoteRaces
    <2>1. job[q].db \in Dbs /\ schema[job[q].db] \in Versions
      BY <1>2, JobType
    <2>2. Migrating(q) /\ job'[q] = job[q]
      BY <1>2, <2>1, MigratingSteps DEF Target, Versions
    <2>3. CASE schema[job[q].db] = Target
      BY <1>2, <2>2, <2>3 DEF RacesKnown
    <2>4. CASE schema[job[q].db] # Target
      BY <2>1, <2>2, <2>4 DEF Overtaken, Target, Versions
    <2>5. QED
      BY <2>3, <2>4
  <1>3. ASSUME RacesKnown, UNCHANGED vars PROVE RacesKnown'
    BY <1>3 DEF vars, processVars, RacesKnown, Migrating
  <1>4. TypeInv /\ RacesKnown /\ [Next]_vars => RacesKnown'
    BY <1>2, <1>3 DEF Next
  <1>5. QED
    BY <1>1, <1>4, TypesInductive, PTL DEF Spec

\* A change of the service is undone only by a process that was in the middle
\* of migrating the database when another recorded its version.
THEOREM NoLateOverwriteHolds == Spec => NoLateOverwrite
  <1> DEFINE Changed(c, x) ==
               /\ main[c][x].rev > 0 \/ (x \in deleted /\ main[c][x] = Absent)
               /\ main'[c][x] # main[c][x]
               /\ main'[c][x].tenant # "absent"
               /\ main'[c][x].rev = 0
             Late(p, c, x) == /\ at[p] \in {"full", "last"} /\ at'[p] # at[p]
                              /\ x \in Owned(job[p].db, c)
  <1>1. ASSUME TypeInv, IInv, RacesKnown, NEW p \in Procs, ProcessNext(p),
               NEW c \in Collections, NEW x \in Docs, Changed(c, x)
        PROVE  p \in racing /\ Late(p, c, x)
    <2>1. /\ main \in [Collections -> [Docs -> Document \union {Absent}]]
          /\ ProcessInv(p) /\ Devices \in Collections
      BY <1>1, DatabasesAssumption DEF TypeInv, StateOK, IInv
    <2>2. main[c][x].rev \in Nat /\ changes \in Nat
      BY <1>1, BoundsAssumption DEF TypeInv, StateOK, Document, Absent
    <2>3. BulkWrite(p) \/ BulkWriteFails(p)
      <3>1. ASSUME NEW k \in Collections, TagCollection(p, k) PROVE FALSE
        <4>1. Tags(main[c][x])
              /\ main'[c][x] = [main[c][x] EXCEPT !.tenant = Main]
          BY <1>1, <2>1, <3>1 DEF TagCollection
        <4>2. main[c][x] \in Document /\ main[c][x] # Absent
          BY <2>1, <4>1 DEF Tags
        <4>3. main'[c][x].rev = main[c][x].rev
          BY <4>1, <4>2 DEF Document
        <4>4. QED
          BY <1>1, <2>2, <4>2, <4>3
      <3>2. ASSUME NEW k \in Collections, NEW y \in Docs, Update(p, k, y)
            PROVE  FALSE
        <4>1. main[c][x] # Absent
              /\ main'[c][x] = [main[c][x] EXCEPT !.rev = @ + 1]
          BY <1>1, <2>1, <3>2 DEF Update, Known
        <4>2. main[c][x] \in Document
          BY <2>1, <4>1
        <4>3. main'[c][x].rev = main[c][x].rev + 1
          BY <4>1, <4>2 DEF Document
        <4>4. QED
          BY <1>1, <2>2, <4>3
      <3>3. ASSUME NEW k \in Collections, NEW y \in Docs, Delete(p, k, y)
            PROVE  FALSE
        BY <1>1, <2>1, <3>3 DEF Delete, Absent
      <3>4. ASSUME NEW e \in Dbs, NEW y \in Docs, Insert(p, e, y)
            PROVE  FALSE
        BY <1>1, <2>1, <3>4 DEF Insert
      <3>5. main' # main /\ ~CursorFails(p)
        BY <1>1 DEF CursorFails
      <3>6. QED
        BY <1>1, <3>1, <3>2, <3>3, <3>4, <3>5, DocumentSteps
    <2>4. at[p] \in {"full", "last"} /\ at'[p] # at[p]
      BY <1>1, <2>3, JobType DEF BulkWrite, BulkWriteFails
    <2>5. x \in Owned(job[p].db, c)
      <3>1. PICK docs \in SUBSET Owned(job[p].db, copy[p].coll) :
              Replace(p, docs)
        BY <1>1, <2>1, <2>3, BulkWrites
      <3>2. c = copy[p].coll /\ x \in docs
        BY <1>1, <2>1, <3>1 DEF Replace
      <3>3. QED
        BY <3>2
    <2>6. schema[job[p].db] = Target
      <3>1. changes > 0
        BY <1>1, <2>2 DEF TypeInv, RevsAreChanges, IInv, ChangesLast
      <3>2. QED
        BY <1>1, <3>1, JobType DEF IInv, ChangesLast
    <2>7. p \in racing
      BY <1>1, <2>4, <2>6 DEF RacesKnown, Migrating
    <2>8. QED
      BY <2>4, <2>5, <2>7
  <1>2. TypeInv /\ IInv /\ RacesKnown /\ [Next]_vars =>
          [\A c \in Collections, x \in Docs :
             Changed(c, x) => \E p \in racing : Late(p, c, x)]_vars
    BY <1>1 DEF Next
  <1>3. QED
    BY <1>2, TypesInductive, Inductive, RacesStayKnown, PTL
       DEF Spec, NoLateOverwrite
=============================================================================
