---------------------------- MODULE MCMigration ----------------------------
(***************************************************************************)
(* Migration for TLC: a tenant with two collections, one of them longer    *)
(* than a batch, a second tenant, and a document of the main database.     *)
(***************************************************************************)
EXTENDS Migration

CONSTANTS p1, p2, t1, t2, sessions, a, b, c, d, e, f

Processes == {p1, p2}
TwoTenants == {t1, t2}
TwoCollections == {Devices, sessions}
Documents == {a, b, c, d, e, f}
OldDocuments ==
  (Main :> ((Devices :> <<e>>) @@ (sessions :> <<>>)))
    @@ (t1 :> ((Devices :> <<a, b, c>>) @@ (sessions :> <<d>>)))
    @@ (t2 :> ((Devices :> <<f>>) @@ (sessions :> <<>>)))
Interchangeable == Permutations(Processes)
=============================================================================
