------------------------ MODULE SchemaMigrationProofs ------------------------
(***************************************************************************)
(* Proofs about SchemaMigration, for any number of workers, tools and      *)
(* columns: the invariant of the migration, what a started process finds,  *)
(* and that no process loses the race for one column twice.                *)
(***************************************************************************)
EXTENDS SchemaMigration, TLAPS

-----------------------------------------------------------------------------
(* The script and the columns as sets *)

LEMMA MigrationIsColumn ==
  ASSUME NEW i \in 1..Len(Migrations)
  PROVE  Migrations[i] \in Columns
  BY DEF Columns

LEMMA MigrationsLength == Len(Migrations) \in Nat
  BY ConstantsOK

LEMMA ScriptFacts ==
  /\ Len(Script) = 6
  /\ \A i \in 1..Len(Script) : Script[i] \in Objects
  /\ \A o \in Objects : \E i \in 1..Len(Script) : Script[i] = o
  /\ "files" \in Objects
  BY DEF Script, Objects

\* Once each of MIGRATIONS is there, all columns are.
LEMMA AllColumns ==
  ASSUME columns \subseteq Columns,
         \A i \in 1..Len(Migrations) : Migrations[i] \in columns
  PROVE  columns = Columns
  BY DEF Columns

-----------------------------------------------------------------------------
(* The initial states *)

LEMMA InitIInv == Init => IInv
<1> SUFFICES ASSUME Init PROVE IInv
  OBVIOUS
<1>1. objects \subseteq Objects /\ columns \subseteq Columns /\ MissingOnlyFromOld
  <2>1. CASE objects = {} /\ columns = Columns
    BY <2>1 DEF MissingOnlyFromOld
  <2>2. CASE /\ objects = Objects \ {"idx_files_scan"}
             /\ \E n \in 0..Len(Migrations) : columns = {Migrations[i] : i \in 1..n}
    <3>1. PICK n \in 0..Len(Migrations) : columns = {Migrations[i] : i \in 1..n}
      BY <2>2
    <3>2. \A i \in 1..n : i \in 1..Len(Migrations)
      BY MigrationsLength
    <3>3. columns \subseteq Columns
      BY <3>1, <3>2 DEF Columns
    <3>4. "files" \in objects
      BY <2>2, ScriptFacts
    <3> QED  BY <2>2, <3>3, <3>4 DEF MissingOnlyFromOld
  <2>3. CASE objects = Objects /\ columns = Columns
    BY <2>3 DEF MissingOnlyFromOld
  <2> QED  BY <2>1, <2>2, <2>3 DEF Init
<1>2. TypeOK
  BY <1>1 DEF Init, TypeOK
<1>3. \A p \in Processes : pc[p] = "down" /\ at[p] = 1 /\ fellOver[p] = {}
  BY DEF Init
<1> QED
  BY <1>1, <1>2, <1>3
  DEF IInv, AtStart, PassedIsThere, ScriptHasColumns, PassedIsCreated,
      FellOverIsSeen

-----------------------------------------------------------------------------
(* One step.  Nothing is ever dropped, so that what holds of the processes *)
(* that stand still goes on to hold; what is left is the one that moves.   *)

\* What the invariant says of one process.
Fit(p) ==
  /\ pc[p] \notin {"migrate", "script"} => at[p] = 1
  /\ pc[p] = "migrate" =>
       /\ existing[p] \subseteq columns
       /\ \A i \in 1..Len(Migrations) : i < at[p] => Migrations[i] \in columns
       /\ fellOver[p] \subseteq existing[p]
  /\ pc[p] \in {"script", "up"} => columns = Columns
  /\ pc[p] = "script" => \A i \in 1..Len(Script) : i < at[p] => Script[i] \in objects
  /\ pc[p] = "up" => objects = Objects
  /\ fellOver[p] \subseteq columns

LEMMA IInvIsFit ==
  IInv <=> TypeOK /\ MissingOnlyFromOld /\ \A p \in Processes : Fit(p)
  BY DEF IInv, Fit, AtStart, PassedIsThere, ScriptHasColumns, PassedIsCreated,
      FellOverIsSeen

LEMMA NothingDropped ==
  ASSUME TypeOK, NEW p \in Processes, Step(p) \/ Die(p)
  PROVE  /\ TypeOK'
         /\ columns \subseteq columns'
         /\ objects \subseteq objects'
         /\ \A q \in Processes \ {p} :
              pc'[q] = pc[q] /\ at'[q] = at[q] /\ existing'[q] = existing[q]
              /\ fellOver'[q] = fellOver[q]
<1> USE DEF TypeOK
<1>1. CASE Start(p)
  BY <1>1 DEF Start
<1>2. CASE ReadTables(p)
  BY <1>2 DEF ReadTables
<1>3. CASE ReadColumns(p)
  BY <1>3 DEF ReadColumns
<1>4. CASE SkipColumn(p)
  BY <1>4 DEF SkipColumn
<1>5. CASE AddColumn(p)
  <2>1. Migrations[at[p]] \in Columns
    BY <1>5, MigrationIsColumn, MigrationsLength DEF AddColumn
  <2> QED  BY <1>5, <2>1 DEF AddColumn
<1>6. CASE DuplicateColumn(p)
  BY <1>6 DEF DuplicateColumn, Leave
<1>7. CASE Migrated(p)
  BY <1>7 DEF Migrated, Leave
<1>8. CASE RunStatement(p)
  <2>1. Script[at[p]] \in Objects
    BY <1>8, ScriptFacts DEF RunStatement
  <2>2. CASE Script[at[p]] = "idx_files_scan" /\ ScanStatus \notin columns
    BY <1>8, <2>2 DEF RunStatement, Leave
  <2>3. CASE ~(Script[at[p]] = "idx_files_scan" /\ ScanStatus \notin columns)
    <3>1. objects' = objects \cup {Script[at[p]]} /\ at' = [at EXCEPT ![p] = @ + 1]
          /\ UNCHANGED <<pc, existing, columns, fellOver>>
      BY <1>8, <2>3 DEF RunStatement
    <3> QED  BY <2>1, <3>1
  <2> QED  BY <2>2, <2>3
<1>9. CASE Started(p)
  BY <1>9 DEF Started, Leave
<1>10. CASE Die(p)
  BY <1>10 DEF Die, Leave
<1> QED
  BY <1>1, <1>2, <1>3, <1>4, <1>5, <1>6, <1>7, <1>8, <1>9, <1>10 DEF Step

LEMMA OthersFit ==
  ASSUME IInv, NEW p \in Processes, Step(p) \/ Die(p), NEW q \in Processes \ {p}
  PROVE  Fit(q)'
<1>1. TypeOK /\ TypeOK' /\ Fit(q)
  BY IInvIsFit, NothingDropped
<1>2. columns \subseteq columns' /\ objects \subseteq objects'
  BY NothingDropped, IInvIsFit
<1>3. columns' \subseteq Columns /\ objects' \subseteq Objects
  BY <1>1 DEF TypeOK
<1>4. pc'[q] = pc[q] /\ at'[q] = at[q] /\ existing'[q] = existing[q]
      /\ fellOver'[q] = fellOver[q]
  BY NothingDropped, IInvIsFit
<1> QED
  BY <1>1, <1>2, <1>3, <1>4 DEF Fit

LEMMA MoverFits ==
  ASSUME IInv, NEW p \in Processes, Step(p) \/ Die(p)
  PROVE  Fit(p)' /\ MissingOnlyFromOld'
<1>1. TypeOK /\ TypeOK' /\ MissingOnlyFromOld /\ Fit(p)
  BY IInvIsFit, NothingDropped
<1>2. columns \subseteq columns' /\ objects \subseteq objects'
  BY NothingDropped, <1>1
<1>3. columns' \subseteq Columns /\ objects' \subseteq Objects
  BY <1>1 DEF TypeOK
<1>4. MissingOnlyFromOld'
  BY <1>1, <1>2, <1>3 DEF MissingOnlyFromOld
<1> SUFFICES Fit(p)'
  BY <1>4
<1>5. ASSUME Leave(p, "down"), fellOver'[p] \subseteq columns'
      PROVE  Fit(p)'
  BY <1>1, <1>5 DEF Leave, Fit, TypeOK
<1>6. CASE Start(p)
  BY <1>1, <1>6 DEF Start, Fit, TypeOK
<1>7. CASE ReadTables(p)
  <2>1. /\ pc'[p] = IF "files" \in objects THEN "columns" ELSE "script"
        /\ columns' = columns /\ fellOver' = fellOver /\ at' = at
    BY <1>1, <1>7 DEF ReadTables, TypeOK
  <2>2. at[p] = 1
    BY <1>1, <1>7 DEF ReadTables, Fit
  <2> QED  BY <1>1, <2>1, <2>2 DEF Fit, MissingOnlyFromOld
<1>8. CASE ReadColumns(p)
  <2>1. pc'[p] = "migrate" /\ at'[p] = at[p] /\ existing'[p] = columns
    BY <1>1, <1>8 DEF ReadColumns, TypeOK
  <2>2. columns' = columns /\ fellOver' = fellOver
    BY <1>8 DEF ReadColumns
  <2>3. at[p] = 1
    BY <1>1, <1>8 DEF ReadColumns, Fit
  <2> QED  BY <1>1, <2>1, <2>2, <2>3 DEF Fit
<1>9. CASE SkipColumn(p)
  BY <1>1, <1>9 DEF SkipColumn, Fit, TypeOK
<1>10. CASE AddColumn(p)
  BY <1>1, <1>10 DEF AddColumn, Fit, TypeOK
<1>11. CASE DuplicateColumn(p)
  <2>1. fellOver'[p] \subseteq columns'
    BY <1>1, <1>11 DEF DuplicateColumn, Fit, TypeOK
  <2> QED  BY <1>5, <1>11, <2>1 DEF DuplicateColumn
<1>12. CASE Migrated(p)
  <2>1. \A i \in 1..Len(Migrations) : i < at[p] /\ Migrations[i] \in columns
    BY <1>1, <1>12, MigrationsLength DEF Migrated, Fit, TypeOK
  <2>2. columns' = Columns
    BY <1>1, <1>12, <2>1, AllColumns DEF Migrated, TypeOK
  <2> QED  BY <1>1, <1>12, <2>2 DEF Migrated, Leave, Fit, TypeOK
<1>13. CASE RunStatement(p)
  <2>1. CASE Script[at[p]] = "idx_files_scan" /\ ScanStatus \notin columns
    BY <1>1, <1>5, <1>13, <2>1 DEF RunStatement, Fit, TypeOK
  <2>2. CASE ~(Script[at[p]] = "idx_files_scan" /\ ScanStatus \notin columns)
    BY <1>1, <1>13, <2>2, ScriptFacts DEF RunStatement, Fit, TypeOK
  <2> QED  BY <2>1, <2>2
<1>14. CASE Started(p)
  <2>1. \A i \in 1..Len(Script) : i < at[p] /\ Script[i] \in objects
    BY <1>1, <1>14, ScriptFacts DEF Started, Fit, TypeOK
  <2>2. objects = Objects
    BY <1>1, <2>1, ScriptFacts DEF TypeOK
  <2> QED  BY <1>1, <1>14, <2>2 DEF Started, Leave, Fit, TypeOK
<1>15. CASE Die(p)
  BY <1>1, <1>5, <1>15 DEF Die, Fit
<1> QED
  BY <1>6, <1>7, <1>8, <1>9, <1>10, <1>11, <1>12, <1>13, <1>14, <1>15 DEF Step

LEMMA NextIInv == IInv /\ [Next]_vars => IInv'
<1> SUFFICES ASSUME IInv, [Next]_vars PROVE IInv'
  OBVIOUS
<1>1. CASE Next
  <2>1. PICK p \in Processes : Step(p) \/ Die(p)
    BY <1>1 DEF Next
  <2>2. TypeOK'
    BY <2>1, IInvIsFit, NothingDropped
  <2>3. \A q \in Processes : Fit(q)'
    BY <2>1, OthersFit, MoverFits
  <2>4. MissingOnlyFromOld'
    BY <2>1, MoverFits
  <2> QED
    BY <2>2, <2>3, <2>4
    DEF IInv, Fit, AtStart, PassedIsThere, ScriptHasColumns, PassedIsCreated,
      FellOverIsSeen
<1>2. CASE UNCHANGED vars
  BY <1>2
  DEF vars, IInv, TypeOK, AtStart, MissingOnlyFromOld, PassedIsThere,
      ScriptHasColumns, PassedIsCreated, FellOverIsSeen
<1> QED  BY <1>1, <1>2

-----------------------------------------------------------------------------

(* The invariant of the migration holds in every state, whoever starts,    *)
(* dies or is called while others migrate.                                 *)
THEOREM Invariance == Spec => []IInv
  BY InitIInv, NextIInv, PTL DEF Spec

(* A process that has started finds the tables, indexes and columns of its *)
(* queries, for as long as it runs.                                        *)
THEOREM StartedHasSchema == Spec => []UpHasSchema
<1>1. IInv => UpHasSchema
  BY DEF IInv, ScriptHasColumns, PassedIsCreated, UpHasSchema
<1> QED  BY <1>1, Invariance, PTL

(* No process loses the race for the same column a second time: when it    *)
(* reads the columns again, the one it fell over is among them.            *)
THEOREM NoSecondFall == Spec => NeverFailsTwice
<1>1. IInv => \A p \in Processes :
        DuplicateColumn(p) => Migrations[at[p]] \notin fellOver[p]
  BY DEF IInv, FellOverIsSeen, DuplicateColumn
<1>2. IInv /\ [Next]_vars =>
        [\A p \in Processes :
           DuplicateColumn(p) => Migrations[at[p]] \notin fellOver[p]]_vars
  BY <1>1
<1> QED  BY <1>2, Invariance, PTL DEF Spec, NeverFailsTwice
=============================================================================
