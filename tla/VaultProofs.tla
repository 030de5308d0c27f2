----------------------------- MODULE VaultProofs -----------------------------
(***************************************************************************)
(* Proofs about the key files, enrolment and assertions, credentials and     *)
(* commands, for any calls, threads and database connections, and whenever   *)
(* the process is killed.                                                   *)
(***************************************************************************)
EXTENDS Vault, Extrema, SequenceTheorems, FiniteSetTheorems, TLAPS

-----------------------------------------------------------------------------
(* The schema.                                                              *)

SchemaTypes ==
    /\ database \in [has : SUBSET WholeSchema, applied : SUBSET Migrations]
    /\ tx \in [migration : 0 .. 6, made : SUBSET WholeSchema, created : BOOLEAN]

\* The migrations of a database are the first n; it has at least what they leave of a
\* database that the first schema.sql made.  The open transaction is the next one's.
MigrationsInOrder ==
    \E n \in 0 .. 6 :
        /\ database.applied = 1 .. n
        /\ Left(n, TRUE) \subseteq database.has
        /\ tx = NoTx \/ ( /\ tx.migration = n + 1
                          /\ tx.created => Creates[n + 1] \subseteq database.has \cup tx.made )

SchemaInv == SchemaTypes /\ MigrationsInOrder

LEMMA MigrationTables ==
    /\ DOMAIN Creates = Migrations /\ DOMAIN Adds = Migrations
    /\ \A i \in Migrations : Creates[i] \subseteq WholeSchema /\ Adds[i] \subseteq WholeSchema
<1>1. DOMAIN Creates = Migrations /\ DOMAIN Adds = Migrations
    BY DEF Creates, Adds, Migrations
<1>2. ASSUME NEW i \in Migrations
      PROVE  Creates[i] \subseteq WholeSchema /\ Adds[i] \subseteq WholeSchema
    BY DEF WholeSchema
<1> QED
    BY <1>1, <1>2

\* Each migration adds its tables and columns to what the ones before it left.
LEMMA LeftNext ==
    ASSUME NEW n \in 0 .. 5
    PROVE  Left(n + 1, TRUE) \subseteq Left(n, TRUE) \cup Creates[n + 1] \cup Adds[n + 1]
<1>1. BaseTables \subseteq Creates[1]
    BY DEF Creates, InitialSchema
<1>2. SUFFICES ASSUME NEW x \in Left(n + 1, TRUE)
               PROVE  x \in Left(n, TRUE) \cup Creates[n + 1] \cup Adds[n + 1]
    OBVIOUS
<1> DEFINE part(i) == (IF i = 1 /\ TRUE THEN BaseTables ELSE Creates[i]) \cup Adds[i]
<1>3. PICK i \in 1 .. n + 1 : x \in part(i)
    BY <1>2 DEF Left
<1>4. CASE i \in 1 .. n
    BY <1>3, <1>4 DEF Left
<1>5. CASE i = n + 1
    <2>1. part(i) \subseteq Creates[i] \cup Adds[i]
        BY <1>1
    <2> HIDE DEF part
    <2>2. x \in Creates[i] \cup Adds[i]
        BY <1>3, <2>1
    <2> QED
        BY <1>5, <2>2
<1>6. i \in 1 .. n \/ i = n + 1
    OBVIOUS
<1> QED
    BY <1>4, <1>5, <1>6

LEMMA LeftWhole ==
    /\ \A n \in 0 .. 6, early \in BOOLEAN :
         Left(n, TRUE) \subseteq Left(n, early) /\ Left(n, early) \subseteq WholeSchema
    /\ WholeSchema \subseteq Left(6, TRUE)
<1>1. BaseTables \subseteq Creates[1]
    BY DEF Creates, InitialSchema
<1>2. ASSUME NEW n \in 0 .. 6, NEW early \in BOOLEAN
      PROVE  Left(n, TRUE) \subseteq Left(n, early) /\ Left(n, early) \subseteq WholeSchema
    <2>1. Left(n, TRUE) \subseteq Left(n, early)
        BY <1>1 DEF Left
    <2>2. \A i \in 1 .. n : i \in Migrations
        BY DEF Migrations
    <2>3. Left(n, early) \subseteq WholeSchema
        BY <1>1, <2>2 DEF Left, WholeSchema
    <2> QED
        BY <2>1, <2>3
<1>3. Creates[1] \subseteq BaseTables \cup Creates[3] \cup Creates[4] \cup Adds[2]
    BY DEF Creates, Adds, InitialSchema
<1>4. ASSUME NEW i \in Migrations
      PROVE  Creates[i] \cup Adds[i] \subseteq Left(6, TRUE)
    <2> DEFINE part(j) == (IF j = 1 /\ TRUE THEN BaseTables ELSE Creates[j]) \cup Adds[j]
    <2>1. \A j \in 1 .. 6 : part(j) \subseteq Left(6, TRUE)
        BY DEF Left
    <2>2. part(1) = BaseTables \cup Adds[1]
        OBVIOUS
    <2>3. \A j \in 2 .. 6 : part(j) = Creates[j] \cup Adds[j]
        OBVIOUS
    <2> HIDE DEF part
    <2>4. 1 \in 1 .. 6 /\ \A j \in 2 .. 6 : j \in 1 .. 6
        OBVIOUS
    <2>5. BaseTables \cup Adds[1] \subseteq Left(6, TRUE)
        BY <2>1, <2>2, <2>4
    <2>6. \A j \in 2 .. 6 : Creates[j] \cup Adds[j] \subseteq Left(6, TRUE)
        BY <2>1, <2>3, <2>4
    <2>7. /\ Adds[2] \subseteq Left(6, TRUE)
          /\ Creates[3] \subseteq Left(6, TRUE) /\ Creates[4] \subseteq Left(6, TRUE)
        <3>1. 2 \in 2 .. 6 /\ 3 \in 2 .. 6 /\ 4 \in 2 .. 6
            OBVIOUS
        <3> QED
            BY <2>6, <3>1, Zenon
    <2>8. Creates[1] \subseteq Left(6, TRUE)
        BY <1>3, <2>5, <2>7
    <2>9. CASE i = 1
        BY <2>5, <2>8, <2>9
    <2>10. CASE i \in 2 .. 6
        BY <2>6, <2>10, Zenon
    <2>11. i = 1 \/ i \in 2 .. 6
        BY DEF Migrations
    <2> QED
        BY <2>9, <2>10, <2>11
<1>5. WholeSchema \subseteq Left(6, TRUE)
    BY <1>4 DEF WholeSchema
<1> QED
    BY <1>2, <1>5

\* What run_migrations commits is the next migration as a whole, and a rollback leaves
\* the ones before it.
LEMMA MigrateKeeps ==
    ASSUME SchemaInv, Migrate
    PROVE  SchemaInv'
<1>1. PICK n \in 0 .. 6 :
        /\ database.applied = 1 .. n
        /\ Left(n, TRUE) \subseteq database.has
        /\ tx = NoTx \/ ( /\ tx.migration = n + 1
                          /\ tx.created => Creates[n + 1] \subseteq database.has \cup tx.made )
    BY DEF SchemaInv, MigrationsInOrder
<1>2. PICK i \in Migrations :
        BeginMigration(i) \/ CreateTables(i) \/ AddColumns(i) \/ CommitMigration(i)
    BY DEF Migrate
<1>3. CASE BeginMigration(i)
    <2>1. i \in 1 .. 6 /\ i \notin 1 .. n /\ 1 .. i - 1 \subseteq 1 .. n
        BY <1>1, <1>3 DEF BeginMigration, Migrations
    <2>2. ~(n + 1 < i)
        <3> SUFFICES ASSUME n + 1 < i
                     PROVE  FALSE
            OBVIOUS
        <3>1. n + 1 \in 1 .. i - 1 /\ n + 1 \notin 1 .. n
            BY <2>1
        <3> QED
            BY <2>1, <3>1
    <2>3. i = n + 1
        BY <2>1, <2>2
    <2>4. tx' = [migration |-> i, made |-> {}, created |-> FALSE] /\ database' = database
        BY <1>3 DEF BeginMigration, NoTx
    <2>5. SchemaTypes'
        BY <2>4 DEF SchemaInv, SchemaTypes, Migrations
    <2> QED
        BY <1>1, <2>3, <2>4, <2>5 DEF SchemaInv, MigrationsInOrder
<1>4. ASSUME tx.migration = i
      PROVE  i = n + 1 /\ n \in 0 .. 5
    BY <1>1, <1>4 DEF NoTx, Migrations
<1>5. CASE CreateTables(i)
    <2>1. /\ tx' = [tx EXCEPT !.created = TRUE, !.made = @ \cup Creates[i]]
          /\ database' = database /\ i = n + 1
        BY <1>4, <1>5 DEF CreateTables
    <2>2. SchemaTypes'
        BY <2>1, MigrationTables DEF SchemaInv, SchemaTypes
    <2>3. tx'.migration = n + 1 /\ Creates[n + 1] \subseteq database'.has \cup tx'.made
        BY <1>4, <1>5, <2>1 DEF SchemaInv, SchemaTypes, CreateTables
    <2> QED
        BY <1>1, <2>1, <2>2, <2>3 DEF SchemaInv, MigrationsInOrder
<1>6. CASE AddColumns(i)
    <2>1. /\ tx' = [tx EXCEPT !.made = @ \cup Lacking(i)]
          /\ database' = database /\ i = n + 1 /\ tx.migration = n + 1
        BY <1>4, <1>6 DEF AddColumns
    <2>2. SchemaTypes'
        BY <2>1, MigrationTables DEF SchemaInv, SchemaTypes, Lacking
    <2>3. /\ tx'.migration = n + 1 /\ tx'.created = tx.created
          /\ database'.has \cup tx.made \subseteq database'.has \cup tx'.made
        BY <2>1 DEF SchemaInv, SchemaTypes
    <2>4. tx'.created => Creates[n + 1] \subseteq database'.has \cup tx'.made
        BY <1>1, <1>6, <2>1, <2>3 DEF AddColumns, NoTx
    <2> QED
        BY <1>1, <2>1, <2>2, <2>3, <2>4 DEF SchemaInv, MigrationsInOrder
<1>7. CASE CommitMigration(i)
    <2>1. /\ database' = [has |-> database.has \cup tx.made, applied |-> database.applied \cup {i}]
          /\ tx' = NoTx /\ i = n + 1 /\ n \in 0 .. 5 /\ tx.created /\ Lacking(i) = {}
          /\ tx # NoTx
        BY <1>4, <1>7 DEF CommitMigration, NoTx
    <2>2. SchemaTypes'
        BY <2>1 DEF SchemaInv, SchemaTypes, NoTx
    <2>3. Left(n + 1, TRUE) \subseteq database'.has
        BY <1>1, <2>1, LeftNext DEF Lacking
    <2>4. database'.applied = 1 .. n + 1 /\ n + 1 \in 0 .. 6
        BY <1>1, <2>1
    <2>5. \E m \in 0 .. 6 : /\ database'.applied = 1 .. m
                            /\ Left(m, TRUE) \subseteq database'.has /\ tx' = NoTx
        BY <2>1, <2>3, <2>4
    <2>6. MigrationsInOrder'
        BY <2>5 DEF MigrationsInOrder
    <2> QED
        BY <2>2, <2>6 DEF SchemaInv
<1> QED
    BY <1>2, <1>3, <1>5, <1>6, <1>7

LEMMA RollbackKeeps ==
    ASSUME SchemaInv, Rollback
    PROVE  SchemaInv'
<1>1. tx' = NoTx /\ database' = database
    BY DEF Rollback
<1>2. SchemaTypes'
    BY <1>1 DEF SchemaInv, SchemaTypes, NoTx
<1>3. \E m \in 0 .. 6 : /\ database'.applied = 1 .. m
                        /\ Left(m, TRUE) \subseteq database'.has /\ tx' = NoTx
    BY <1>1 DEF SchemaInv, MigrationsInOrder
<1>4. MigrationsInOrder'
    BY <1>3 DEF MigrationsInOrder
<1> QED
    BY <1>2, <1>4 DEF SchemaInv

LEMMA MigratedIsWhole ==
    ASSUME SchemaInv, Migrated
    PROVE  database.has = WholeSchema
<1>1. PICK n \in 0 .. 6 : 1 .. 6 = 1 .. n /\ Left(n, TRUE) \subseteq database.has
    BY DEF SchemaInv, MigrationsInOrder, Migrated, Migrations
<1>2. n = 6
    BY <1>1
<1> QED
    BY <1>1, <1>2, LeftWhole DEF SchemaInv, SchemaTypes

-----------------------------------------------------------------------------
(* The key files.                                                           *)

Contents == Nat \cup {Torn}
AllPlaces == {"down", "database", "init database", "init", "client", "up"} \cup Stages

Processes ==
    [at : AllPlaces, todo : Seq(AllFiles), half : BOOLEAN, gen : Nat, new : BOOLEAN]

KeyTypes ==
    /\ IsScenario(plan)
    /\ disk \in [AllFiles -> Contents]
    /\ process \in Processes
    /\ keys \in [AllFiles -> Contents]
    /\ gens \in Nat
    /\ first \in [AllFiles -> Contents]
    /\ rekeyed \in BOOLEAN

\* The files without which a set of keys cannot be loaded, or is generated anew.
HasPair(s, content) ==
    /\ content[Head(Files(s))] # Absent
    /\ s \in Hybrid => content[<<s, "pub">>] # Absent

\* What is written belongs to the stage; a process past its stages writes nothing.
TodoIsOfStage ==
    /\ process.at \in Stages => \A i \in DOMAIN process.todo : process.todo[i][1] = process.at
    /\ process.at \notin Stages \cup {"init", "client"} => process.todo = <<>>

\* Of generated keys, what is no longer to be written is on the disk.
GeneratedAreSaved ==
    process.new =>
        /\ process.at \in Hybrid /\ process.gen # Absent
        /\ \A f \in AllFiles : f[1] = process.at =>
             disk[f] = process.gen \/ \E i \in DOMAIN process.todo : process.todo[i] = f

\* The sets that have been loaded when a stage is reached.
Loaded(at) ==
    CASE at = "push" -> {"audit"}
      [] at = "tls"  -> {"audit", "push"}
      [] at = "up"   -> {"audit", "push", "tls"}
      [] OTHER       -> {}

LoadedAreOnDisk ==
    \A s \in Loaded(process.at) :
        HasPair(s, disk) /\ \A f \in AllFiles : f[1] = s => keys[f] = disk[f]

\* Once a gateway has served nothing is written, unless init has run over its keys.
NothingIsRewritten == process.todo # <<>> => first = NoKeys \/ rekeyed

DiskIsFirst ==
    first # NoKeys /\ ~rekeyed => disk = first /\ \A s \in Stages : HasPair(s, disk)

UpHasFirst == process.at = "up" => first # NoKeys

StageIsMigrated ==
    process.at \in Stages \cup {"up", "init"} => tx = NoTx /\ database.applied = Migrations

KeyInv ==
    /\ KeyTypes /\ TodoIsOfStage /\ GeneratedAreSaved /\ LoadedAreOnDisk
    /\ NothingIsRewritten /\ DiskIsFirst /\ UpHasFirst
    /\ SchemaInv /\ StageIsMigrated

-----------------------------------------------------------------------------
LEMMA FilesAre ==
    /\ Files("audit") = <<<<"audit", "key">>, <<"audit", "pub">>, <<"audit", "pqkey">>, <<"audit", "pqpub">>>>
    /\ Files("push") = <<<<"push", "key">>, <<"push", "pub">>, <<"push", "pqkey">>, <<"push", "pqpub">>>>
    /\ Files("tls") = <<<<"tls", "crt">>, <<"tls", "key">>>>
BY DEF Files, Parts

LEMMA FilesOfSets ==
    /\ \A f \in AllFiles : f[1] \in Stages
    /\ \A f \in AllFiles : \E i \in DOMAIN Files(f[1]) : Files(f[1])[i] = f
    /\ \A s \in Stages : /\ Files(s) \in Seq(AllFiles) /\ Files(s) # <<>>
                         /\ \A i \in DOMAIN Files(s) : Files(s)[i][1] = s
                         /\ Head(Files(s)) \in AllFiles /\ Head(Files(s))[1] = s
                         /\ <<s, "key">> \in AllFiles
    /\ \A s \in Hybrid : /\ s \in Stages /\ Head(Files(s)) = <<s, "key">>
                         /\ <<s, "pub">> \in AllFiles
    /\ <<"tls", "crt">> \in AllFiles /\ Head(Files("tls")) = <<"tls", "crt">>
<1>1. ASSUME NEW s \in Stages
      PROVE  /\ \A i \in DOMAIN Files(s) : Files(s)[i] \in AllFiles /\ Files(s)[i][1] = s
             /\ Files(s) \in Seq(AllFiles) /\ Files(s) # <<>>
    <2>1. \A i \in DOMAIN Files(s) : Files(s)[i] \in AllFiles
        BY DEF AllFiles
    <2>2. s = "audit" \/ s = "push" \/ s = "tls"
        BY DEF Stages, Hybrid
    <2>3. \E n \in {2, 4} : Files(s) = [i \in 1 .. n |-> Files(s)[i]]
        BY <2>2, FilesAre
    <2>4. Files(s) \in Seq(AllFiles) /\ Files(s) # <<>>
        BY <2>1, <2>3
    <2>5. \A i \in DOMAIN Files(s) : Files(s)[i][1] = s
        BY <2>2, FilesAre
    <2> QED
        BY <2>1, <2>4, <2>5
<1>2. ASSUME NEW f \in AllFiles
      PROVE  f[1] \in Stages /\ \E i \in DOMAIN Files(f[1]) : Files(f[1])[i] = f
    <2>1. PICK s \in Stages : f \in {Files(s)[i] : i \in DOMAIN Files(s)}
        BY DEF AllFiles
    <2>2. PICK i \in DOMAIN Files(s) : f = Files(s)[i]
        BY <2>1
    <2> QED
        BY <1>1, <2>2
<1>3. \A s \in Stages : s \in {"audit", "push", "tls"}
    BY DEF Stages, Hybrid
<1>4. \A s \in Stages : /\ Head(Files(s)) = Files(s)[1] /\ 1 \in DOMAIN Files(s)
    BY <1>3, FilesAre
<1>5. \A s \in Stages : \E i \in DOMAIN Files(s) : Files(s)[i] = <<s, "key">>
    BY <1>3, FilesAre
<1>6. \A s \in Hybrid : s \in {"audit", "push"} /\ s \in Stages
    BY DEF Stages, Hybrid
<1>7. \A s \in Hybrid : /\ Files(s)[1] = <<s, "key">> /\ Files(s)[2] = <<s, "pub">>
                        /\ 2 \in DOMAIN Files(s)
    BY <1>6, FilesAre
<1>8. "tls" \in Stages /\ Files("tls")[1] = <<"tls", "crt">>
    BY FilesAre DEF Stages
<1>9. \A s \in Stages : <<s, "key">> \in AllFiles
    BY <1>1, <1>5
<1>10. \A s \in Stages : Head(Files(s)) \in AllFiles /\ Head(Files(s))[1] = s
    BY <1>1, <1>4
<1>11. \A s \in Hybrid : <<s, "pub">> \in AllFiles /\ Head(Files(s)) = <<s, "key">>
    BY <1>1, <1>4, <1>6, <1>7
<1>12. <<"tls", "crt">> \in AllFiles /\ Head(Files("tls")) = <<"tls", "crt">>
    BY <1>4, <1>8, <1>10
<1> QED
    BY <1>1, <1>2, <1>6, <1>9, <1>10, <1>11, <1>12

LEMMA NoIndex == \A i \in DOMAIN <<>> : FALSE
OBVIOUS

LEMMA IdleTypes ==
    /\ NoKeys \in [AllFiles -> Contents]
    /\ \A at \in AllPlaces : /\ Idle(at) \in Processes
                             /\ Idle(at).at = at /\ Idle(at).todo = <<>> /\ ~Idle(at).new
<1>1. NoKeys \in [AllFiles -> Contents]
    BY DEF NoKeys, Absent, Contents
<1>2. <<>> \in Seq(AllFiles) /\ Absent \in Nat
    BY DEF Absent
<1> QED
    BY <1>1, <1>2 DEF Idle, Processes

LEMMA KeyInitKeeps == KeyInit => KeyInv
<1> SUFFICES ASSUME KeyInit
             PROVE  KeyInv
    OBVIOUS
<1>1. IsScenario(plan)
    BY PlansAssumption DEF KeyInit
<1>2. KeyTypes
    BY <1>1, IdleTypes DEF KeyInit, KeyTypes, AllPlaces
<1>3. TodoIsOfStage /\ GeneratedAreSaved /\ LoadedAreOnDisk /\ NothingIsRewritten
    BY DEF KeyInit, Idle, Stages, Hybrid, TodoIsOfStage, GeneratedAreSaved, LoadedAreOnDisk, Loaded,
           NothingIsRewritten
<1>4. DiskIsFirst /\ UpHasFirst /\ StageIsMigrated
    BY DEF KeyInit, Idle, DiskIsFirst, UpHasFirst, StageIsMigrated, Stages, Hybrid
<1>5. SchemaInv
    <2>1. plan.migrated \in 0 .. 6 /\ plan.early \in BOOLEAN
        BY <1>1 DEF IsScenario
    <2>2. database = [has |-> Left(plan.migrated, plan.early), applied |-> 1 .. plan.migrated]
          /\ tx = [migration |-> 0, made |-> {}, created |-> FALSE]
        BY DEF KeyInit, SchemaInit, NoTx
    <2>3. SchemaTypes
        <3>1. Left(plan.migrated, plan.early) \subseteq WholeSchema
            BY <2>1, LeftWhole
        <3>2. 1 .. plan.migrated \subseteq Migrations
            BY <2>1 DEF Migrations
        <3> QED
            BY <2>2, <3>1, <3>2 DEF SchemaTypes
    <2>4. \E n \in 0 .. 6 : /\ database.applied = 1 .. n
                            /\ Left(n, TRUE) \subseteq database.has /\ tx = NoTx
        BY <2>1, <2>2, LeftWhole DEF NoTx
    <2>5. MigrationsInOrder
        BY <2>4 DEF MigrationsInOrder
    <2> QED
        BY <2>3, <2>5 DEF SchemaInv
<1> QED
    BY <1>2, <1>3, <1>4, <1>5 DEF KeyInv

\* What ends or begins a process, or goes on to the first set of keys.
LEMMA IdleKeeps ==
    ASSUME KeyInv, NEW at \in {"down", "database", "init database", "audit"},
           process' = Idle(at), IsScenario(plan'), keys' \in {keys, NoKeys},
           UNCHANGED <<disk, gens, first, rekeyed>>,
           UNCHANGED schemaVars \/ Rollback,
           at = "audit" => tx' = NoTx /\ database'.applied = Migrations
    PROVE  KeyInv'
<1>1. /\ process'.at = at /\ process'.todo = <<>> /\ ~process'.new /\ process' \in Processes
      /\ keys' \in [AllFiles -> Contents]
    BY IdleTypes DEF KeyInv, KeyTypes, AllPlaces, Stages, Hybrid
<1>2. KeyTypes'
    BY <1>1 DEF KeyInv, KeyTypes
<1>3. SchemaInv'
    BY RollbackKeeps DEF KeyInv, SchemaInv, SchemaTypes, MigrationsInOrder, schemaVars
<1>4. TodoIsOfStage' /\ NothingIsRewritten'
    <2>2. \A i \in DOMAIN process'.todo : FALSE
        BY <1>1, NoIndex, Zenon
    <2>3. NothingIsRewritten'
        BY <1>1 DEF NothingIsRewritten
    <2> QED
        BY <1>1, <2>2, <2>3, Zenon DEF TodoIsOfStage
<1>8. GeneratedAreSaved' /\ UpHasFirst'
    BY <1>1 DEF GeneratedAreSaved, UpHasFirst
<1>5. LoadedAreOnDisk'
    BY <1>1 DEF LoadedAreOnDisk, Loaded
<1>6. DiskIsFirst'
    BY DEF KeyInv, DiskIsFirst, HasPair
<1>7. StageIsMigrated'
    BY <1>1 DEF StageIsMigrated, Stages, Hybrid
<1> QED
    BY <1>2, <1>3, <1>4, <1>5, <1>6, <1>7, <1>8 DEF KeyInv

LEMMA MigratingKeeps ==
    ASSUME KeyInv, init_pool
    PROVE  KeyInv'
<1>1. /\ process.at \in {"database", "init database"} /\ Migrate
      /\ UNCHANGED <<plan, disk, process, keys, gens, first, rekeyed>>
    BY DEF init_pool
<1>2. SchemaInv'
    BY <1>1, MigrateKeeps DEF KeyInv
<1>3. KeyTypes' /\ StageIsMigrated'
    BY <1>1 DEF KeyInv, KeyTypes, StageIsMigrated, Stages, Hybrid
<1>4. TodoIsOfStage' /\ GeneratedAreSaved' /\ LoadedAreOnDisk' /\ NothingIsRewritten'
      /\ DiskIsFirst' /\ UpHasFirst'
    BY <1>1 DEF KeyInv, TodoIsOfStage, GeneratedAreSaved, LoadedAreOnDisk, NothingIsRewritten,
                DiskIsFirst, UpHasFirst, HasPair
<1> QED
    BY <1>2, <1>3, <1>4 DEF KeyInv

\* A file that is written is of the process's own stage, which is none of those loaded,
\* or the process is an init.
LEMMA WriteKeeps ==
    ASSUME KeyInv, WriteAtomically \/ WriteInPlace
    PROVE  KeyInv'
<1> DEFINE file == Head(process.todo)
<1>1. /\ process.todo # <<>> /\ process.todo \in Seq(AllFiles)
      /\ file \in AllFiles /\ file = process.todo[1] /\ 1 \in DOMAIN process.todo
      /\ Tail(process.todo) \in Seq(AllFiles) /\ Len(Tail(process.todo)) = Len(process.todo) - 1
      /\ \A i \in 1 .. Len(Tail(process.todo)) : Tail(process.todo)[i] = process.todo[i + 1]
      /\ Len(process.todo) \in Nat
    BY HeadTailProperties DEF KeyInv, KeyTypes, Processes, WriteAtomically, WriteInPlace
<1>2. UNCHANGED <<plan, schemaVars, keys, gens, first, rekeyed>>
    BY DEF WriteAtomically, WriteInPlace
<1>3. PICK content \in Contents, half \in BOOLEAN, todo \in {process.todo, Tail(process.todo)} :
        /\ disk' = [disk EXCEPT ![file] = content]
        /\ process' = [process EXCEPT !.half = half, !.todo = todo]
        /\ todo = Tail(process.todo) => content = process.gen
    <2>1. CASE WriteAtomically
        <3>1. /\ disk' = [disk EXCEPT ![file] = process.gen]
              /\ process' = [process EXCEPT !.half = process.half, !.todo = Tail(process.todo)]
            BY <2>1 DEF WriteAtomically, KeyInv, KeyTypes, Processes
        <3>2. process.gen \in Contents /\ process.half \in BOOLEAN
            BY DEF KeyInv, KeyTypes, Processes, Contents
        <3> QED
            BY <3>1, <3>2
    <2>2. CASE WriteInPlace /\ process.half
        <3>1. /\ disk' = [disk EXCEPT ![file] = process.gen]
              /\ process' = [process EXCEPT !.half = FALSE, !.todo = Tail(process.todo)]
            BY <2>2 DEF WriteInPlace, KeyInv, KeyTypes, Processes
        <3>2. process.gen \in Contents
            BY DEF KeyInv, KeyTypes, Processes, Contents
        <3> QED
            BY <3>1, <3>2
    <2>3. CASE WriteInPlace /\ ~process.half
        <3>1. /\ disk' = [disk EXCEPT ![file] = Torn]
              /\ process' = [process EXCEPT !.half = TRUE, !.todo = process.todo]
            BY <2>3 DEF WriteInPlace, KeyInv, KeyTypes, Processes
        <3>2. Torn \in Contents
            BY DEF Contents
        <3>3. Len(process.todo) # Len(Tail(process.todo))
            BY <1>1
        <3> QED
            BY <3>1, <3>2, <3>3
    <2> QED
        BY <2>1, <2>2, <2>3
<1>4. /\ process'.at = process.at /\ process'.gen = process.gen /\ process'.new = process.new
      /\ process'.todo = todo /\ todo \in Seq(AllFiles)
      /\ process' \in Processes
    <2>1. todo \in Seq(AllFiles)
        BY <1>1, <1>3
    <2>2. process \in Processes
        BY DEF KeyInv, KeyTypes
    <2> QED
        BY <1>3, <2>1, <2>2 DEF Processes
<1>5. \A i \in DOMAIN todo : \E j \in DOMAIN process.todo : todo[i] = process.todo[j]
    BY <1>1, <1>3
<1>6. \A i \in DOMAIN process.todo :
        \/ \E j \in DOMAIN todo : todo[j] = process.todo[i]
        \/ process.todo[i] = file /\ todo = Tail(process.todo)
    <2>1. CASE todo = process.todo
        BY <2>1
    <2>2. CASE todo = Tail(process.todo)
        <3> SUFFICES ASSUME NEW i \in DOMAIN process.todo, i # 1
                     PROVE  \E j \in DOMAIN todo : todo[j] = process.todo[i]
            BY <1>1, <2>2
        <3>1. i \in 1 .. Len(process.todo) /\ i - 1 \in 1 .. Len(todo)
            BY <1>1, <2>2
        <3>2. i - 1 \in DOMAIN todo /\ todo[i - 1] = process.todo[i]
            BY <1>1, <2>2, <3>1
        <3> QED
            BY <3>2
    <2> QED
        BY <1>3, <2>1, <2>2
<1>7. KeyTypes'
    BY <1>1, <1>2, <1>3, <1>4 DEF KeyInv, KeyTypes
<1>8. TodoIsOfStage'
    BY <1>1, <1>4, <1>5 DEF KeyInv, TodoIsOfStage
<1>9. GeneratedAreSaved'
    <2> SUFFICES ASSUME process.new, NEW f \in AllFiles, f[1] = process.at
                 PROVE  disk'[f] = process.gen \/ \E i \in DOMAIN todo : todo[i] = f
        BY <1>4 DEF KeyInv, GeneratedAreSaved
    <2>1. disk[f] = process.gen \/ \E i \in DOMAIN process.todo : process.todo[i] = f
        BY DEF KeyInv, GeneratedAreSaved
    <2>2. CASE f = file
        BY <1>1, <1>3, <1>6, <2>2 DEF KeyInv, KeyTypes
    <2>3. CASE f # file
        BY <1>3, <1>6, <2>1, <2>3 DEF KeyInv, KeyTypes
    <2> QED
        BY <2>2, <2>3
<1>10. LoadedAreOnDisk'
    <2> SUFFICES ASSUME NEW s \in Loaded(process.at)
                 PROVE  HasPair(s, disk') /\ \A f \in AllFiles : f[1] = s => keys[f] = disk'[f]
        BY <1>2, <1>4 DEF LoadedAreOnDisk
    <2>1. process.at \in Stages /\ s # process.at /\ s \in Hybrid
        BY <1>1 DEF Loaded, KeyInv, TodoIsOfStage, Stages, Hybrid
    <2>2. \A f \in AllFiles : f[1] = s => disk'[f] = disk[f]
        BY <1>1, <1>3, <2>1 DEF KeyInv, TodoIsOfStage, KeyTypes
    <2>3. HasPair(s, disk) /\ \A f \in AllFiles : f[1] = s => keys[f] = disk[f]
        BY DEF KeyInv, LoadedAreOnDisk
    <2> QED
        BY <2>1, <2>2, <2>3, FilesOfSets DEF HasPair
<1>11. first = NoKeys \/ rekeyed
    BY <1>1 DEF KeyInv, NothingIsRewritten
<1>12. NothingIsRewritten' /\ DiskIsFirst' /\ UpHasFirst'
    BY <1>2, <1>4, <1>11 DEF KeyInv, NothingIsRewritten, DiskIsFirst, UpHasFirst
<1>13. SchemaInv' /\ StageIsMigrated'
    BY <1>2, <1>4 DEF KeyInv, SchemaInv, SchemaTypes, MigrationsInOrder, StageIsMigrated, schemaVars
<1> QED
    BY <1>7, <1>8, <1>9, <1>10, <1>12, <1>13 DEF KeyInv
\* What a stage that generates or derives keys changes of the process.
LEMMA StageGoesOn ==
    ASSUME KeyInv, process.at \in Stages, UNCHANGED <<plan, store, keys, first, rekeyed>>,
           gens' \in Nat, process' \in Processes, process'.at = process.at,
           \A i \in DOMAIN process'.todo : process'.todo[i][1] = process.at,
           first = NoKeys \/ rekeyed,
           GeneratedAreSaved'
    PROVE  KeyInv'
<1>1. KeyTypes'
    BY DEF KeyInv, KeyTypes, store, schemaVars
<1>2. TodoIsOfStage' /\ NothingIsRewritten' /\ DiskIsFirst' /\ UpHasFirst'
    BY DEF KeyInv, TodoIsOfStage, NothingIsRewritten, DiskIsFirst, UpHasFirst, Stages, Hybrid
<1>3. LoadedAreOnDisk'
    BY DEF KeyInv, LoadedAreOnDisk, HasPair, store
<1>4. SchemaInv' /\ StageIsMigrated'
    BY DEF KeyInv, SchemaInv, SchemaTypes, MigrationsInOrder, StageIsMigrated, store, schemaVars
<1> QED
    BY <1>1, <1>2, <1>3, <1>4 DEF KeyInv

\* Keys are generated, or derived, where the first file of a set is missing; a gateway
\* that has served left it there.
LEMMA GenerateKeeps ==
    ASSUME KeyInv, NEW s \in Stages, Generate(s)
    PROVE  KeyInv'
<1>1. /\ process.at = s /\ ~Present(s) /\ gens' = gens + 1
      /\ process' = [process EXCEPT !.todo = Files(s), !.gen = gens + 1, !.new = s \in Hybrid]
      /\ UNCHANGED <<plan, store, keys, first, rekeyed>>
    BY DEF Generate, At, Saved
<1>2. process \in Processes /\ gens \in Nat
    BY DEF KeyInv, KeyTypes
<1>3. PICK new \in BOOLEAN : /\ new => s \in Hybrid
                             /\ process' = [process EXCEPT !.todo = Files(s), !.gen = gens + 1, !.new = new]
    <2>1. CASE s \in Hybrid
        <3>1. (s \in Hybrid) = TRUE
            BY <2>1, Zenon
        <3> QED
            BY <1>1, <2>1, <3>1, Zenon
    <2>2. CASE s \notin Hybrid
        <3>1. (s \in Hybrid) = FALSE
            BY <2>2, SMT
        <3> QED
            BY <1>1, <3>1, Zenon
    <2> QED
        BY <2>1, <2>2
<1>7. Files(s) \in Seq(AllFiles) /\ \A i \in DOMAIN Files(s) : Files(s)[i][1] = s
    BY FilesOfSets
<1>8. /\ process' \in Processes /\ process'.at = s /\ process'.todo = Files(s)
      /\ process'.gen = gens + 1
      /\ process'.new => s \in Hybrid
    <2> DEFINE todo == Files(s)
    <2>1. todo \in Seq(AllFiles) /\ gens + 1 \in Nat /\ process' = [process EXCEPT !.todo = todo, !.gen = gens + 1, !.new = new]
        BY <1>2, <1>3, <1>7
    <2> HIDE DEF todo
    <2>2. process' \in Processes
        BY <1>2, <2>1 DEF Processes
    <2>3. /\ process'.at = process.at /\ process'.todo = todo
          /\ process'.gen = gens + 1 /\ process'.new = new
        BY <1>2, <2>1 DEF Processes
    <2> QED
        BY <1>1, <1>3, <2>2, <2>3 DEF todo
<1>4. \A i \in DOMAIN process'.todo : process'.todo[i][1] = s
    BY <1>7, <1>8, Zenon
<1>5. first = NoKeys \/ rekeyed
    BY <1>1 DEF KeyInv, DiskIsFirst, HasPair, Present
<1>6. GeneratedAreSaved'
    <2>1. \A f \in AllFiles : f[1] = s => \E i \in DOMAIN Files(s) : Files(s)[i] = f
        BY FilesOfSets
    <2>2. process'.gen # Absent
        BY <1>2, <1>8 DEF Absent
    <2> QED
        BY <1>8, <2>1, <2>2 DEF GeneratedAreSaved
<1>9. gens' \in Nat
    BY <1>1, <1>2
<1> QED
    BY <1>1, <1>4, <1>5, <1>6, <1>8, <1>9, StageGoesOn

LEMMA DeriveKeeps ==
    ASSUME KeyInv, NEW s \in Stages, Derive(s)
    PROVE  KeyInv'
<1>1. /\ process.at = s /\ ~process.new /\ s \in Hybrid
      /\ disk[<<s, "pub">>] = Absent /\ disk[<<s, "key">>] # Torn
      /\ process' = [process EXCEPT !.todo = <<<<s, "pub">>>>, !.gen = disk[<<s, "key">>]]
      /\ UNCHANGED <<plan, store, keys, gens, first, rekeyed>>
    BY DEF Derive, At
<1>2. /\ process \in Processes /\ gens \in Nat /\ disk[<<s, "key">>] \in Nat
      /\ <<<<s, "pub">>>> \in Seq(AllFiles)
    BY <1>1, FilesOfSets DEF KeyInv, KeyTypes, Contents
<1>3. /\ process' \in Processes /\ process'.at = s /\ process'.todo = <<<<s, "pub">>>>
      /\ ~process'.new
    BY <1>1, <1>2 DEF Processes
<1>4. \A i \in DOMAIN process'.todo : process'.todo[i][1] = s
    BY <1>3
<1>5. first = NoKeys \/ rekeyed
    BY <1>1 DEF KeyInv, DiskIsFirst, HasPair
<1>6. GeneratedAreSaved'
    BY <1>3 DEF GeneratedAreSaved
<1> QED
    BY <1>1, <1>2, <1>3, <1>4, <1>5, <1>6, StageGoesOn

\* Neither command is a stage: what it writes over, it has declared replaced.
LEMMA CommandWrites ==
    ASSUME KeyInv, NEW command \in {"init", "client"}, NEW todo \in Seq(AllFiles),
           gens' = gens + 1,
           process' = [at |-> command, todo |-> todo, half |-> FALSE, gen |-> gens', new |-> FALSE],
           IsScenario(plan'), rekeyed' \in BOOLEAN,
           UNCHANGED <<store, keys, first>>,
           first = NoKeys \/ rekeyed', rekeyed => rekeyed',
           command = "init" => Migrated
    PROVE  KeyInv'
<1>0. gens' \in Nat /\ command \in AllPlaces
    <2>1. gens \in Nat
        BY DEF KeyInv, KeyTypes
    <2>2. gens' \in Nat
        BY <2>1
    <2>3. command \in AllPlaces
        BY DEF AllPlaces
    <2> QED
        BY <2>2, <2>3
<1>1. /\ process' \in Processes /\ process'.at = command /\ ~process'.new
      /\ gens' \in Nat
    BY <1>0 DEF Processes
<1>2. KeyTypes'
    BY <1>1 DEF KeyInv, KeyTypes, store
<1>3. TodoIsOfStage' /\ GeneratedAreSaved' /\ NothingIsRewritten' /\ DiskIsFirst' /\ UpHasFirst'
      /\ LoadedAreOnDisk'
    BY <1>1 DEF TodoIsOfStage, GeneratedAreSaved, NothingIsRewritten, DiskIsFirst, UpHasFirst,
                LoadedAreOnDisk, Loaded, Stages, Hybrid
<1>4. SchemaInv'
    BY DEF KeyInv, SchemaInv, SchemaTypes, MigrationsInOrder, store, schemaVars
<1>5. StageIsMigrated'
    BY <1>1 DEF StageIsMigrated, Stages, Hybrid, Migrated, store, schemaVars
<1> QED
    BY <1>2, <1>3, <1>4, <1>5 DEF KeyInv

LEMMA InitGeneratesKeeps ==
    ASSUME KeyInv, InitGenerates
    PROVE  KeyInv'
<1>1. Saved("audit") \o Saved("push") \in Seq(AllFiles)
    <2>1. "audit" \in Stages /\ "push" \in Stages
        BY DEF Stages, Hybrid
    <2> QED
        BY <2>1, FilesOfSets, ConcatProperties DEF Saved
<1>2. first # NoKeys /\ ~rekeyed => Present("audit")
    BY DEF KeyInv, DiskIsFirst, HasPair, Present, Stages, Hybrid
<1>3. /\ gens' = gens + 1 /\ Migrated
      /\ process' = [Idle("init") EXCEPT !.todo = Saved("audit") \o Saved("push"),
                                         !.gen = gens + 1]
      /\ rekeyed' = (rekeyed \/ Present("audit") \/ Present("push"))
      /\ UNCHANGED <<plan, store, keys, first>>
    BY DEF InitGenerates
<1>4. /\ rekeyed' \in BOOLEAN /\ IsScenario(plan')
      /\ first = NoKeys \/ rekeyed'
      /\ rekeyed => rekeyed'
    BY <1>2, <1>3 DEF KeyInv, KeyTypes
<1> DEFINE todo == Saved("audit") \o Saved("push")
<1>5. process' = [at |-> "init", todo |-> todo, half |-> FALSE, gen |-> gens', new |-> FALSE]
    BY <1>3 DEF Idle
<1>6. todo \in Seq(AllFiles)
    BY <1>1
<1> HIDE DEF todo
<1> QED
    BY <1>3, <1>4, <1>5, <1>6, CommandWrites

\* What is left of a scenario is one.
LEMMA SpendKeeps ==
    ASSUME IsScenario(plan), NEW what \in {"kills", "inits", "clients_init", "ends", "spawns"},
           Spend(what)
    PROVE  /\ IsScenario(plan')
           /\ plan'.clients = plan.clients /\ plan'.threads = plan.threads
           /\ plan'.pool = plan.pool /\ plan'.faults = plan.faults
<1>1. plan[what] \in Nat /\ plan[what] > 0 /\ plan' = [plan EXCEPT ![what] = plan[what] - 1]
    BY DEF IsScenario, Spend
<1>2. plan[what] - 1 \in Nat
    BY <1>1
<1> QED
    BY <1>1, <1>2 DEF IsScenario

LEMMA ClientInitKeeps ==
    ASSUME KeyInv, ClientInit
    PROVE  KeyInv'
<1> DEFINE todo == <<<<"audit", "key">>, <<"audit", "pub">>>>
<1>1. todo \in Seq(AllFiles)
    BY FilesOfSets DEF Hybrid
<1>2. first = NoKeys \/ rekeyed
    BY DEF KeyInv, DiskIsFirst, HasPair, Present, Stages, Hybrid, ClientInit
<1>3. IsScenario(plan')
    BY SpendKeeps DEF KeyInv, KeyTypes, ClientInit
<1>4. process' = [at |-> "client", todo |-> todo, half |-> FALSE, gen |-> gens', new |-> FALSE]
    BY DEF ClientInit, Idle
<1>5. /\ gens' = gens + 1 /\ UNCHANGED <<store, keys, first>>
      /\ rekeyed' \in BOOLEAN
      /\ first = NoKeys \/ rekeyed'
      /\ rekeyed => rekeyed'
    BY <1>2 DEF ClientInit, KeyInv, KeyTypes
<1> HIDE DEF todo
<1> QED
    BY <1>1, <1>3, <1>4, <1>5, CommandWrites

\* A set taken is the set on the disk.  With the last one, what is in memory is what is
\* on the disk, all of it: these are the keys of the first gateway.
LEMMA TakeKeeps ==
    ASSUME KeyInv, NEW s \in Stages, At(s), NEW content \in [AllFiles -> Contents],
           Take(s, content), HasPair(s, disk),
           \A f \in AllFiles : f[1] = s => content[f] = disk[f]
    PROVE  KeyInv'
<1>1. /\ process.at = s /\ process' = Idle(Following[s])
      /\ keys' = [f \in AllFiles |-> IF f[1] = s THEN content[f] ELSE keys[f]]
      /\ first' = IF s = "tls" /\ first = NoKeys THEN keys' ELSE first
      /\ UNCHANGED <<plan, store, gens, rekeyed>>
    BY DEF Take, At
<1>2. s = "audit" \/ s = "push" \/ s = "tls"
    BY DEF Stages, Hybrid
<1>3. /\ s = "audit" => Following[s] = "push"
      /\ s = "push" => Following[s] = "tls"
      /\ s = "tls" => Following[s] = "up"
    BY DEF Following
<1>4. Following[s] \in AllPlaces
    BY <1>2, <1>3 DEF AllPlaces, Stages, Hybrid
<1>5. /\ process' \in Processes /\ process'.at = Following[s] /\ process'.todo = <<>>
      /\ ~process'.new /\ \A i \in DOMAIN process'.todo : FALSE
    BY <1>1, <1>4, IdleTypes, NoIndex
<1>6. /\ keys' \in [AllFiles -> Contents] /\ first' \in [AllFiles -> Contents]
    BY <1>1 DEF KeyInv, KeyTypes
<1>7. KeyTypes'
    BY <1>1, <1>5, <1>6 DEF KeyInv, KeyTypes, store
<1>8. TodoIsOfStage'
    BY <1>5, Zenon DEF TodoIsOfStage
<1>9. GeneratedAreSaved' /\ NothingIsRewritten'
    BY <1>5 DEF GeneratedAreSaved, NothingIsRewritten
<1>10. \A t \in Loaded(Following[s]) : t = s \/ t \in Loaded(s)
    BY <1>2, <1>3 DEF Loaded
<1>11. ASSUME NEW t \in Loaded(Following[s])
       PROVE  HasPair(t, disk) /\ \A f \in AllFiles : f[1] = t => keys'[f] = disk[f]
    BY <1>1, <1>10 DEF KeyInv, LoadedAreOnDisk
<1>12. disk' = disk
    BY <1>1 DEF store
<1>13. LoadedAreOnDisk'
    BY <1>5, <1>11, <1>12 DEF LoadedAreOnDisk, HasPair
<1>14. ASSUME s = "tls" /\ first = NoKeys
       PROVE  DiskIsFirst' /\ UpHasFirst'
    <2>1. \A t \in Stages : t \in Loaded("up")
        BY DEF Loaded, Stages, Hybrid
    <2>2. \A t \in Stages : HasPair(t, disk)
        BY <1>3, <1>11, <1>14, <2>1
    <2>3. \A f \in AllFiles : keys'[f] = disk[f]
        <3>1. \A f \in AllFiles : f[1] \in Loaded(Following[s])
            BY <1>3, <1>14, <2>1, FilesOfSets
        <3> QED
            BY <1>11, <3>1
    <2>4. keys' = disk /\ first' = disk
        BY <1>1, <1>6, <1>14, <2>3 DEF KeyInv, KeyTypes
    <2>5. disk # NoKeys
        BY <1>14, FilesOfSets DEF HasPair, NoKeys
    <2>6. DiskIsFirst'
        BY <1>12, <2>2, <2>4 DEF DiskIsFirst, HasPair
    <2>7. UpHasFirst'
        BY <2>4, <2>5 DEF UpHasFirst
    <2> QED
        BY <2>6, <2>7
<1>15. ASSUME ~(s = "tls" /\ first = NoKeys)
       PROVE  DiskIsFirst' /\ UpHasFirst'
    <2>1. first' = first /\ rekeyed' = rekeyed
        BY <1>1, <1>15
    <2>2. DiskIsFirst'
        BY <1>12, <2>1 DEF KeyInv, DiskIsFirst, HasPair
    <2>3. Following[s] = "up" => first # NoKeys
        BY <1>2, <1>3, <1>15
    <2>4. UpHasFirst'
        BY <1>5, <2>1, <2>3 DEF UpHasFirst
    <2> QED
        BY <2>2, <2>4
<1>16. SchemaInv' /\ StageIsMigrated'
    BY <1>1 DEF KeyInv, SchemaInv, SchemaTypes, MigrationsInOrder, StageIsMigrated, store, schemaVars
<1> QED
    BY <1>7, <1>8, <1>9, <1>13, <1>14, <1>15, <1>16 DEF KeyInv

LEMMA LoadKeeps ==
    ASSUME KeyInv, NEW s \in Stages, Load(s)
    PROVE  KeyInv'
<1>1. Present(s) /\ At(s) /\ Take(s, disk) /\ Loadable(s) /\ Readable(s)
    BY DEF Load, Readable
<1>2. ASSUME s \in Hybrid
      PROVE  disk[<<s, "pub">>] # Absent
    <2>1. s = "audit" \/ s = "push"
        BY <1>2 DEF Hybrid
    <2>2. disk[<<s, "key">>] # Absent
        BY <1>1, <1>2, FilesOfSets DEF Present
    <2>3. disk[<<s, "key">>] = disk[<<s, "pub">>]
        BY <1>1, <2>1 DEF Loadable
    <2> QED
        BY <2>2, <2>3
<1>3. HasPair(s, disk)
    BY <1>1, <1>2 DEF HasPair, Present
<1> QED
    BY <1>1, <1>3, TakeKeeps DEF KeyInv, KeyTypes

LEMMA GeneratedKeeps ==
    ASSUME KeyInv, NEW s \in Stages, Generated(s)
    PROVE  KeyInv'
<1> DEFINE content == [f \in AllFiles |-> process.gen]
<1>1. At(s) /\ process.at = s /\ process.todo = <<>> /\ process.new /\ Take(s, content)
    BY DEF Generated, At
<1>2. s \in Hybrid /\ process.gen # Absent /\ process.gen \in Contents
    BY <1>1 DEF KeyInv, GeneratedAreSaved, KeyTypes, Processes, Contents
<1>3. \A f \in AllFiles : f[1] = s => disk[f] = process.gen
    BY <1>1, NoIndex DEF KeyInv, GeneratedAreSaved
<1>4. HasPair(s, disk)
    <2>1. /\ Head(Files(s)) = <<s, "key">> /\ <<s, "key">> \in AllFiles /\ <<s, "pub">> \in AllFiles
        BY <1>2, FilesOfSets
    <2> QED
        BY <1>2, <1>3, <2>1 DEF HasPair
<1>5. content \in [AllFiles -> Contents]
    BY <1>2
<1> QED
    BY <1>1, <1>3, <1>4, <1>5, TakeKeeps

\* The part of a step that is the process's own.
LEMMA KeyStepKeeps ==
    ASSUME KeyInv, StartStep \/ InitCommand \/ ClientInit \/ Kill
    PROVE  KeyInv'
<1>1. IsScenario(plan)
    BY DEF KeyInv, KeyTypes
<1>2. CASE Start
    BY <1>1, <1>2, IdleKeeps DEF Start, store
<1>3. CASE init_pool
    BY <1>3, MigratingKeeps
<1>4. CASE Opened
    BY <1>1, <1>4, IdleKeeps DEF Opened, store, schemaVars, Migrated
<1>5. CASE InitGenerates
    BY <1>5, InitGeneratesKeeps
<1>6. CASE WriteAtomically \/ WriteInPlace
    BY <1>6, WriteKeeps
<1>7. CASE InitEnds
    BY <1>1, <1>7, IdleKeeps DEF InitEnds, store
<1>8. ASSUME NEW s \in Stages, Generate(s) \/ Generated(s) \/ Derive(s) \/ Load(s)
      PROVE  KeyInv'
    BY <1>8, GenerateKeeps, GeneratedKeeps, DeriveKeeps, LoadKeeps
<1>9. ASSUME NEW s \in Stages, LoadFails(s)
      PROVE  KeyInv'
    BY <1>1, <1>9, IdleKeeps DEF LoadFails, store
<1>10. CASE InitCommand
    BY <1>1, <1>10, SpendKeeps, IdleKeeps DEF InitCommand, store
<1>11. CASE ClientInit
    BY <1>11, ClientInitKeeps
<1>12. CASE Kill
    BY <1>1, <1>12, SpendKeeps, IdleKeeps DEF Kill
<1> QED
    BY <1>2, <1>3, <1>4, <1>5, <1>6, <1>7, <1>8, <1>9, <1>10, <1>11, <1>12 DEF StartStep
\* Calls leave the process and its keys alone; a scenario keeps its bounds.
LEMMA CallsLeaveKeys ==
    ASSUME KeyTypes, AccessStep \/ VaultStep
    PROVE  /\ UNCHANGED keyVars
           /\ UNCHANGED plan \/ \E what \in {"ends", "spawns"} : Spend(what)
<1>1. CASE AccessStep
    BY <1>1 DEF AccessStep, Begin, FinishTake, FinishMark, FinishEnd, FinishFails, AssertCheck,
                AssertRefused, AssertEnd
<1>2. ASSUME NEW s \in Secrets, Create(s) \/ GetRead(s) \/ AgentRead(s) \/ Denied(s) \/ Sealed(s)
                             \/ Hand(s) \/ RotateRead(s) \/ RotateWrite(s) \/ Delete(s)
      PROVE  UNCHANGED keyVars /\ UNCHANGED plan
    BY <1>2 DEF Create, GetRead, AgentRead, Denied, Sealed, Hand, RotateRead, RotateWrite, Delete
<1>3. ASSUME NEW c \in Commands, Exec(c) \/ Clone(c) \/ Branch(c) \/ Commit(c) \/ Push(c)
                             \/ Status(c) \/ LogOf(c) \/ CreatePr(c)
      PROVE  UNCHANGED keyVars /\ UNCHANGED plan
    BY <1>3 DEF Exec, Clone, Branch, Commit, Push, Status, LogOf, CreatePr, Accept
<1>4. ASSUME NEW c \in Commands, CmdRun(c) \/ PodEnds(c) \/ CmdReply(c)
                             \/ CmdTimeout(c) \/ PrPost(c) \/ CmdLog(c) \/ CmdSeq(c)
      PROVE  UNCHANGED keyVars /\ UNCHANGED plan
    BY <1>4 DEF CmdRun, PodEnds, CmdReply, CmdTimeout, PrPost, CmdLog, CmdSeq
<1>5. ASSUME NEW m \in Machines, Ends(m) \/ Spawn(m)
      PROVE  UNCHANGED keyVars /\ \E what \in {"ends", "spawns"} : Spend(what)
    BY <1>5 DEF Ends, Spawn
<1> QED
    BY <1>1, <1>2, <1>3, <1>4, <1>5 DEF VaultStep

LEMMA KeysUnchanged ==
    ASSUME KeyInv, IsScenario(plan'), UNCHANGED keyVars
    PROVE  KeyInv'
<1>1. UNCHANGED <<disk, database, tx, process, keys, gens, first, rekeyed>>
    BY DEF keyVars, store, schemaVars
<1>2. KeyTypes'
    BY <1>1 DEF KeyInv, KeyTypes
<1>3. TodoIsOfStage' /\ GeneratedAreSaved' /\ LoadedAreOnDisk' /\ NothingIsRewritten'
      /\ DiskIsFirst' /\ UpHasFirst'
    BY <1>1 DEF KeyInv, TodoIsOfStage, GeneratedAreSaved, LoadedAreOnDisk, NothingIsRewritten,
                DiskIsFirst, UpHasFirst, HasPair
<1>4. SchemaInv' /\ StageIsMigrated'
    BY <1>1 DEF KeyInv, SchemaInv, SchemaTypes, MigrationsInOrder, StageIsMigrated
<1> QED
    BY <1>2, <1>3, <1>4 DEF KeyInv

\* The scenario's bounds on what runs at once do not change.
SameBounds ==
    /\ plan'.clients = plan.clients /\ plan'.threads = plan.threads
    /\ plan'.pool = plan.pool /\ plan'.faults = plan.faults

LEMMA KeyStep ==
    ASSUME KeyInv, [Next]_vars
    PROVE  KeyInv' /\ SameBounds
<1>1. IsScenario(plan) /\ KeyTypes
    BY DEF KeyInv, KeyTypes
<1>2. CASE StartStep
    <2>1. plan' = plan
        BY <1>2 DEF StartStep, Start, init_pool, Opened, InitGenerates, WriteAtomically,
                    WriteInPlace, InitEnds, Generate, Generated, Derive, Load, LoadFails, Take
    <2> QED
        BY <1>2, <2>1, KeyStepKeeps DEF SameBounds
<1>3. CASE InitCommand \/ ClientInit \/ Kill
    <2>1. \E what \in {"kills", "inits", "clients_init"} : Spend(what)
        BY <1>3 DEF InitCommand, ClientInit, Kill
    <2> QED
        BY <1>1, <1>3, <2>1, SpendKeeps, KeyStepKeeps DEF SameBounds
<1>4. CASE AccessStep \/ VaultStep
    <2>1. /\ UNCHANGED keyVars
          /\ UNCHANGED plan \/ \E what \in {"ends", "spawns"} : Spend(what)
        BY <1>1, <1>4, CallsLeaveKeys
    <2>2. IsScenario(plan') /\ SameBounds
        BY <1>1, <2>1, SpendKeeps DEF SameBounds
    <2> QED
        BY <2>1, <2>2, KeysUnchanged
<1>5. CASE UNCHANGED vars
    BY <1>1, <1>5, KeysUnchanged DEF vars, SameBounds
<1> QED
    BY <1>2, <1>3, <1>4, <1>5 DEF Next, Killed

LEMMA KeyInvServes == KeyInv => ServesWhole
<1> SUFFICES ASSUME KeyInv
             PROVE  ServesWhole
    OBVIOUS
<1>1. SameKeys
    <2> SUFFICES ASSUME process.at = "up", ~rekeyed
                 PROVE  keys = first
        BY DEF SameKeys, Serving
    <2>1. disk = first
        BY DEF KeyInv, UpHasFirst, DiskIsFirst
    <2>2. \A f \in AllFiles : f[1] \in Loaded("up")
        BY FilesOfSets DEF Loaded, Stages, Hybrid
    <2>3. \A f \in AllFiles : keys[f] = disk[f]
        BY <2>2 DEF KeyInv, LoadedAreOnDisk
    <2> QED
        BY <2>1, <2>3 DEF KeyInv, KeyTypes
<1>2. SchemaIsWhole
    BY MigratedIsWhole DEF KeyInv, SchemaIsWhole, StageIsMigrated, Serving, Migrated
<1> QED
    BY <1>1, <1>2 DEF ServesWhole

\* However often it is killed, and wherever its files and migrations were cut short, a
\* gateway that serves has the keys of the first one, unless init has replaced them, and
\* every table and column (serve in main.rs; load_or_generate_keys; run_migrations).
THEOREM ServesWholeHolds == Spec => []ServesWhole
<1>1. Init => KeyInv
    BY KeyInitKeeps DEF Init
<1>2. KeyInv /\ [Next]_vars => KeyInv'
    BY KeyStep
<1> QED
    BY <1>1, <1>2, KeyInvServes, PTL DEF Spec
-----------------------------------------------------------------------------
(* Calls.                                                                   *)

CeremonyPlaces == {"absent", "new", "open", "used"}
FinishPlaces ==
    {"absent", "new", "taken", "marked", "ok", "400", "401", "500", "lost"}
AssertPlaces == {"absent", "new", "checked", "late", "accepted", "refused", "lost"}
AskPlaces ==
    {"absent", "new", "ok", "409", "held", "read", "rotating", "denied", "sealed", "lost"}
CmdPlaces ==
    {"absent", "new", "400", "401", "500", "502", "504", "422", "go", "running", "post", "ran",
     "logged", "ok", "lost"}

\* The calls that are inside a handler.
FinishesInside == {f \in Finishes : finish[f] \in {"taken", "marked"}}
AssertsInside == {a \in Asserts : assert[a] \in {"checked", "late"}}
AsksInside == {s \in Secrets : ask[s].at \in {"held", "read", "rotating"}}
CmdsInside == {c \in Commands : cmd[c].at = "logged"}
Inside == FinishesInside \cup AssertsInside \cup AsksInside \cup CmdsInside

\* The rows of credentials and of entries.
Rowset ==
    [tenant : Tenants, name : {Asked[s].name : s \in Secrets},
     value : {Asked[s].value : s \in Secrets}, env : BOOLEAN, seal : Contents, live : BOOLEAN]
EntrySet == [tenant : Tenants, machine : Machines \cup {""}, by : Secrets \cup Commands]

CallTypes ==
    /\ finish \in [Finishes -> FinishPlaces]
    /\ assert \in [Asserts -> AssertPlaces]
    /\ ask \in [Secrets -> [at : AskPlaces, row : Nat, seal : Contents]]
    /\ cmd \in [Commands -> [at : CmdPlaces, code : {0, 1}, seq : Nat]]
    /\ pod \in [Commands -> [at : {"none", "running", "ended"}, code : {0, 1}]]
    /\ stored \in Seq(Rowset)
    /\ entries \in Seq(EntrySet)

\* A row that was read stays; a deleted one is only marked.
RowsAreThere == \A s \in AsksInside : ask[s].row \in DOMAIN stored

\* Worker threads are occupied by the calls inside a handler of a gateway that serves.
BusyInv ==
    /\ CallTypes /\ RowsAreThere
    /\ busy = Inside
    /\ IsFiniteSet(busy) /\ Cardinality(busy) <= plan.threads
    /\ busy # {} => Serving

\* The rows of credentials are sealed with the first gateway's key, and so is what has
\* been read of them, unless init has replaced the key.
FirstSeal == first[<<"audit", "key">>]

SealInv ==
    /\ stored # <<>> => first # NoKeys
    /\ ~rekeyed =>
         /\ \A i \in DOMAIN stored : stored[i].seal = FirstSeal
         /\ \A s \in AsksInside : ask[s].seal = FirstSeal

\* The credentials that a ceremony has enrolled, and the calls that may enrol another.
EnrolledBy(c) == {i \in DOMAIN credential : Attested[credential[i].by].ceremony = c}
Finishing(c) == {f \in FinishesInside : Attested[f].ceremony = c}
Enrolment == [key : {Attested[f].key : f \in Finishes}, count : Nat, by : Finishes]

ChallengeInv ==
    /\ challenge \in [Ceremonies -> CeremonyPlaces]
    /\ credential \in Seq(Enrolment)
    /\ \A c \in Ceremonies :
         /\ Cardinality(EnrolledBy(c)) + Cardinality(Finishing(c)) <= plan.threads
         /\ challenge[c] # "used" =>
              EnrolledBy(c) = {} /\ \A f \in Finishing(c) : finish[f] # "marked"

\* The newest assertion of a key that was accepted has left its count in the key's rows.
IsNewestOf(i, key) ==
    /\ i \in DOMAIN accepted /\ Asserted[accepted[i]].key = key
    /\ \A k \in (i + 1)..Len(accepted) : Asserted[accepted[k]].key # key

CountInv ==
    /\ accepted \in Seq(Asserts)
    /\ plan.threads = 1 /\ ~plan.faults =>
         /\ CountersIncrease
         /\ \A key \in {Asserted[a].key : a \in Asserts}, i \in DOMAIN accepted :
              IsNewestOf(i, key) => /\ Rows(key) # {}
                                    /\ StoredCount(key) = Asserted[accepted[i]].count
         /\ \A a \in Asserts : assert[a] = "checked" =>
              \/ Rows(Asserted[a].key) = {}
              \/ counter_is_valid(StoredCount(Asserted[a].key), Asserted[a].count)

\* With more connections than threads no statement waits in vain: an entry is written
\* whenever one is due.
Enough == plan.pool > plan.threads /\ ~plan.faults

PodEnded(c) == pod[c] = [at |-> "ended", code |-> cmd[c].code]
HubFine(c) == cmd[c].at \in {"ran", "logged", "ok", "502", "lost"}

\* An entry is that of a call that has got past it.
EntryFine(i) ==
    \/ entries[i].by \in Secrets /\ ask[entries[i].by].at = "ok"
    \/ /\ entries[i].by \in Commands /\ cmd[entries[i].by].at \in {"logged", "ok", "lost"}
       /\ entries[i].machine = Sent[entries[i].by].machine
       /\ entries[i].tenant = OwnerOf[Sent[entries[i].by].machine]

AskFine(s) ==
    Asked[s].op \in {"get", "agent"} /\ ask[s].at = "ok" => \E i \in DOMAIN entries : LoggedBy(s) = {i}

CmdFine(c) ==
    /\ cmd[c].at \in {"post", "ran", "logged", "ok"} => PodEnded(c)
    /\ cmd[c].at \in {"logged", "ok"} => \E i \in DOMAIN entries : LoggedBy(c) = {i}
    /\ plan.threads = 1 /\ cmd[c].at = "logged" => LoggedBy(c) = {Len(entries)}
    /\ cmd[c].at = "ok" =>
         /\ cmd[c].seq \in DOMAIN entries
         /\ entries[cmd[c].seq].machine = Sent[c].machine
         /\ \A own \in LoggedBy(c) : own <= cmd[c].seq
                                     /\ (plan.threads = 1 => cmd[c].seq = own)

LogInv ==
    /\ hub \subseteq Commands /\ \A c \in hub : HubFine(c)
    /\ \A i \in DOMAIN entries : EntryFine(i)
    /\ \A s \in Secrets : ask[s].at = "rotating" => Asked[s].op = "rotate"
    /\ Enough => (\A s \in Secrets : AskFine(s)) /\ (\A c \in Commands : CmdFine(c))

-----------------------------------------------------------------------------
(* A call that goes on.                                                     *)

LEMMA KindsApart ==
    /\ \A f \in Finishes : f \notin AssertsInside \cup AsksInside \cup CmdsInside
    /\ \A a \in Asserts : a \notin FinishesInside \cup AsksInside \cup CmdsInside
    /\ \A s \in Secrets : s \notin FinishesInside \cup AssertsInside \cup CmdsInside
    /\ \A c \in Commands : c \notin FinishesInside \cup AssertsInside \cup AsksInside
BY AccessAssumption, VaultAssumption DEF FinishesInside, AssertsInside, AsksInside, CmdsInside

LEMMA FinishMoves ==
    ASSUME CallTypes, NEW f \in Finishes, NEW at \in FinishPlaces,
           finish' = [finish EXCEPT ![f] = at],
           UNCHANGED <<assert, ask, cmd, pod, stored, entries>>
    PROVE  /\ CallTypes'
           /\ Inside' = IF at \in {"taken", "marked"} THEN Inside \cup {f} ELSE Inside \ {f}
<1>1. CallTypes'
    BY DEF CallTypes
<1>2. FinishesInside' = IF at \in {"taken", "marked"} THEN FinishesInside \cup {f}
                                                      ELSE FinishesInside \ {f}
    BY DEF CallTypes, FinishesInside
<1>3. AssertsInside' = AssertsInside /\ AsksInside' = AsksInside /\ CmdsInside' = CmdsInside
    BY DEF AssertsInside, AsksInside, CmdsInside
<1> QED
    BY <1>1, <1>2, <1>3, KindsApart DEF Inside

LEMMA AssertMoves ==
    ASSUME CallTypes, NEW a \in Asserts, NEW at \in AssertPlaces,
           assert' = [assert EXCEPT ![a] = at],
           UNCHANGED <<finish, ask, cmd, pod, stored, entries>>
    PROVE  /\ CallTypes'
           /\ Inside' = IF at \in {"checked", "late"} THEN Inside \cup {a} ELSE Inside \ {a}
<1>1. CallTypes'
    BY DEF CallTypes
<1>2. AssertsInside' = IF at \in {"checked", "late"} THEN AssertsInside \cup {a}
                                                     ELSE AssertsInside \ {a}
    BY DEF CallTypes, AssertsInside
<1>3. FinishesInside' = FinishesInside /\ AsksInside' = AsksInside /\ CmdsInside' = CmdsInside
    BY DEF FinishesInside, AsksInside, CmdsInside
<1> QED
    BY <1>1, <1>2, <1>3, KindsApart DEF Inside

LEMMA AskMoves ==
    ASSUME CallTypes, NEW s \in Secrets, NEW row \in [at : AskPlaces, row : Nat, seal : Contents],
           ask' = [ask EXCEPT ![s] = row],
           stored' \in Seq(Rowset), entries' \in Seq(EntrySet),
           UNCHANGED <<finish, assert, cmd, pod>>
    PROVE  /\ CallTypes'
           /\ Inside' = IF row.at \in {"held", "read", "rotating"} THEN Inside \cup {s}
                                                                   ELSE Inside \ {s}
<1>1. CallTypes'
    BY DEF CallTypes
<1>2. AsksInside' = IF row.at \in {"held", "read", "rotating"} THEN AsksInside \cup {s}
                                                               ELSE AsksInside \ {s}
    BY DEF CallTypes, AsksInside
<1>3. FinishesInside' = FinishesInside /\ AssertsInside' = AssertsInside /\ CmdsInside' = CmdsInside
    BY DEF FinishesInside, AssertsInside, CmdsInside
<1> QED
    BY <1>1, <1>2, <1>3, KindsApart DEF Inside

LEMMA GotoMoves ==
    ASSUME CallTypes, NEW s \in Secrets, NEW at \in AskPlaces \ {"held", "read", "rotating"},
           Goto(s, at), stored' \in Seq(Rowset), entries' \in Seq(EntrySet),
           UNCHANGED <<finish, assert, cmd, pod>>
    PROVE  CallTypes' /\ Inside' = Inside \ {s}
<1> DEFINE row == [ask[s] EXCEPT !.at = at]
<1>1. row \in [at : AskPlaces, row : Nat, seal : Contents] /\ row.at = at
    BY DEF CallTypes
<1>2. ask' = [ask EXCEPT ![s] = row]
    BY DEF Goto
<1> HIDE DEF row
<1> QED
    BY <1>1, <1>2, AskMoves

LEMMA CmdMoves ==
    ASSUME CallTypes, NEW c \in Commands, NEW row \in [at : CmdPlaces, code : {0, 1}, seq : Nat],
           cmd' = [cmd EXCEPT ![c] = row],
           pod' \in [Commands -> [at : {"none", "running", "ended"}, code : {0, 1}]],
           entries' \in Seq(EntrySet),
           UNCHANGED <<finish, assert, ask, stored>>
    PROVE  /\ CallTypes'
           /\ Inside' = IF row.at = "logged" THEN Inside \cup {c} ELSE Inside \ {c}
<1>1. CallTypes'
    BY DEF CallTypes
<1>2. CmdsInside' = IF row.at = "logged" THEN CmdsInside \cup {c} ELSE CmdsInside \ {c}
    BY DEF CallTypes, CmdsInside
<1>3. FinishesInside' = FinishesInside /\ AssertsInside' = AssertsInside /\ AsksInside' = AsksInside
    BY DEF FinishesInside, AssertsInside, AsksInside
<1> QED
    BY <1>1, <1>2, <1>3, KindsApart DEF Inside

LEMMA ToMoves ==
    ASSUME CallTypes, NEW c \in Commands, NEW at \in CmdPlaces, To(c, at),
           pod' \in [Commands -> [at : {"none", "running", "ended"}, code : {0, 1}]],
           entries' \in Seq(EntrySet),
           UNCHANGED <<finish, assert, ask, stored>>
    PROVE  /\ CallTypes'
           /\ Inside' = IF at = "logged" THEN Inside \cup {c} ELSE Inside \ {c}
<1> DEFINE row == [cmd[c] EXCEPT !.at = at]
<1>1. row \in [at : CmdPlaces, code : {0, 1}, seq : Nat] /\ row.at = at
    BY DEF CallTypes
<1>2. cmd' = [cmd EXCEPT ![c] = row]
    BY DEF To
<1> HIDE DEF row
<1> QED
    BY <1>1, <1>2, CmdMoves
LEMMA InsideIs ==
    /\ \A f \in Finishes : f \in Inside <=> finish[f] \in {"taken", "marked"}
    /\ \A a \in Asserts : a \in Inside <=> assert[a] \in {"checked", "late"}
    /\ \A s \in Secrets : s \in Inside <=> ask[s].at \in {"held", "read", "rotating"}
    /\ \A c \in Commands : c \in Inside <=> cmd[c].at = "logged"
<1>1. /\ \A f \in Finishes : f \in Inside <=> f \in FinishesInside
      /\ \A a \in Asserts : a \in Inside <=> a \in AssertsInside
      /\ \A s \in Secrets : s \in Inside <=> s \in AsksInside
      /\ \A c \in Commands : c \in Inside <=> c \in CmdsInside
    BY KindsApart DEF Inside
<1> QED
    BY <1>1 DEF FinishesInside, AssertsInside, AsksInside, CmdsInside

\* A call takes a worker thread when it enters its handler and lets it go as it leaves.
Moves ==
    /\ CallTypes' /\ busy' = Inside'
    /\ busy' = busy \/ \E c : Enter(c) \/ Leave(c)

LEMMA FinishesMove ==
    ASSUME CallTypes, busy = Inside, NEW f \in Finishes, UNCHANGED vaultVars,
           FinishTake(f) \/ FinishMark(f) \/ FinishEnd(f) \/ FinishFails(f)
    PROVE  Moves
<1>1. UNCHANGED <<ask, cmd, pod, stored, entries>>
    BY DEF vaultVars
<1>2. f \in busy <=> finish[f] \in {"taken", "marked"}
    BY InsideIs
<1>3. CASE FinishTake(f)
    <2>1. CASE challenge[Attested[f].ceremony] = "open"
        <3>1. /\ finish' = [finish EXCEPT ![f] = "taken"] /\ assert' = assert
              /\ Enter(f) /\ busy' = busy \cup {f}
            BY <1>3, <2>1 DEF FinishTake, accessVars, Enter
        <3>2. CallTypes' /\ Inside' = Inside \cup {f}
            BY <1>1, <3>1, FinishMoves DEF FinishPlaces
        <3> QED
            BY <3>1, <3>2 DEF Moves
    <2>2. CASE challenge[Attested[f].ceremony] # "open"
        <3>1. /\ finish' = [finish EXCEPT ![f] = "401"] /\ assert' = assert /\ busy' = busy
              /\ finish[f] = "new"
            BY <1>3, <2>2 DEF FinishTake, accessVars
        <3>2. CallTypes' /\ Inside' = Inside \ {f}
            BY <1>1, <3>1, FinishMoves DEF FinishPlaces
        <3> QED
            BY <1>2, <3>1, <3>2 DEF Moves
    <2> QED
        BY <2>1, <2>2
<1>4. CASE FinishMark(f)
    <2>1. /\ finish' = [finish EXCEPT ![f] = "marked"] /\ assert' = assert /\ busy' = busy
          /\ finish[f] = "taken"
        BY <1>4 DEF FinishMark
    <2>2. CallTypes' /\ Inside' = Inside \cup {f}
        BY <1>1, <2>1, FinishMoves DEF FinishPlaces
    <2> QED
        BY <1>2, <2>1, <2>2 DEF Moves
<1>5. CASE FinishEnd(f) \/ FinishFails(f)
    <2>1. PICK at \in {"ok", "400", "401", "500"} :
            /\ finish' = [finish EXCEPT ![f] = at] /\ assert' = assert
            /\ Leave(f) /\ busy' = busy \ {f}
        BY <1>5 DEF FinishEnd, FinishFails, Verdict, Leave
    <2>2. CallTypes' /\ Inside' = Inside \ {f}
        BY <1>1, <2>1, FinishMoves DEF FinishPlaces
    <2> QED
        BY <2>1, <2>2 DEF Moves
<1> QED
    BY <1>3, <1>4, <1>5

LEMMA AssertsMove ==
    ASSUME CallTypes, busy = Inside, NEW a \in Asserts, UNCHANGED vaultVars,
           AssertCheck(a) \/ AssertRefused(a) \/ AssertEnd(a)
    PROVE  Moves
<1>1. UNCHANGED <<ask, cmd, pod, stored, entries>>
    BY DEF vaultVars
<1>2. a \in busy <=> assert[a] \in {"checked", "late"}
    BY InsideIs
<1>3. CASE AssertCheck(a)
    <2>1. /\ finish' = finish /\ assert[a] = "new"
          /\ \/ busy' = busy /\ assert' = [assert EXCEPT ![a] = "refused"]
             \/ \E at \in {"checked", "late"} : Enter(a) /\ assert' = [assert EXCEPT ![a] = at]
        BY <1>3 DEF AssertCheck
    <2>2. CASE busy' = busy /\ assert' = [assert EXCEPT ![a] = "refused"]
        <3>1. CallTypes' /\ Inside' = Inside \ {a}
            BY <1>1, <2>1, <2>2, AssertMoves DEF AssertPlaces
        <3> QED
            BY <1>2, <2>1, <2>2, <3>1 DEF Moves
    <2>3. ASSUME NEW at \in {"checked", "late"}, Enter(a), assert' = [assert EXCEPT ![a] = at]
          PROVE  Moves
        <3>1. CallTypes' /\ Inside' = Inside \cup {a}
            BY <1>1, <2>1, <2>3, AssertMoves DEF AssertPlaces
        <3> QED
            BY <2>3, <3>1 DEF Moves, Enter
    <2> QED
        BY <2>1, <2>2, <2>3
<1>4. CASE AssertRefused(a) \/ AssertEnd(a)
    <2>1. PICK at \in {"refused", "accepted"} :
            /\ assert' = [assert EXCEPT ![a] = at] /\ finish' = finish
            /\ Leave(a) /\ busy' = busy \ {a}
        BY <1>4 DEF AssertRefused, AssertEnd, Leave
    <2>2. CallTypes' /\ Inside' = Inside \ {a}
        BY <1>1, <2>1, AssertMoves DEF AssertPlaces
    <2> QED
        BY <2>1, <2>2 DEF Moves
<1> QED
    BY <1>3, <1>4
LEMMA RowsOf ==
    ASSUME CallTypes
    PROVE  /\ DOMAIN stored = 1 .. Len(stored) /\ Len(stored) \in Nat
           /\ \A i \in DOMAIN stored : i \in Nat /\ stored[i] \in Rowset
           /\ DOMAIN entries = 1 .. Len(entries) /\ Len(entries) \in Nat
           /\ \A i \in DOMAIN entries : entries[i] \in EntrySet
BY DEF CallTypes

LEMMA ReadMoves ==
    ASSUME CallTypes, busy = Inside, NEW s \in Secrets, NEW at \in {"held", "read", "rotating"},
           NEW i \in DOMAIN stored, Read(s, i, at), Enter(s),
           UNCHANGED <<finish, assert, cmd, pod, stored, entries>>
    PROVE  Moves
<1> DEFINE row == [at |-> at, row |-> i, seal |-> stored[i].seal]
<1>1. row \in [at : AskPlaces, row : Nat, seal : Contents] /\ row.at \in {"held", "read", "rotating"}
    BY RowsOf DEF Rowset, AskPlaces
<1>2. ask' = [ask EXCEPT ![s] = row]
    BY DEF Read
<1>3. stored' \in Seq(Rowset) /\ entries' \in Seq(EntrySet)
    BY DEF CallTypes
<1> HIDE DEF row
<1>4. CallTypes' /\ Inside' = Inside \cup {s}
    BY <1>1, <1>2, <1>3, AskMoves
<1> QED
    BY <1>4 DEF Moves, Enter

\* A statement of its own, outside of which nothing is held, and the end of a call.
LEMMA AnswerMoves ==
    ASSUME CallTypes, busy = Inside, NEW s \in Secrets,
           NEW at \in AskPlaces \ {"held", "read", "rotating"}, Goto(s, at),
           stored' \in Seq(Rowset), entries' \in Seq(EntrySet),
           UNCHANGED <<finish, assert, cmd, pod>>,
           (busy' = busy /\ ask[s].at = "new") \/ Leave(s)
    PROVE  Moves
<1>1. CallTypes' /\ Inside' = Inside \ {s}
    BY GotoMoves
<1>2. s \in Inside <=> ask[s].at \in {"held", "read", "rotating"}
    BY InsideIs
<1> QED
    BY <1>1, <1>2 DEF Moves, Leave

\* What RotateWrite leaves in a row.
LEMMA RotateTypes ==
    ASSUME KeyTypes, CallTypes, NEW s \in Secrets, RotateWrite(s)
    PROVE  /\ stored' \in Seq(Rowset) /\ Len(stored') = Len(stored)
           /\ \A i \in DOMAIN stored :
                /\ stored'[i].seal = stored[i].seal \/ stored'[i].seal = Sealing
                /\ stored'[i].tenant = stored[i].tenant
<1> DEFINE i == ask[s].row
           row == [stored[i] EXCEPT !.value = Asked[s].value, !.seal = Sealing]
<1>1. stored' = stored \/ stored' = [stored EXCEPT ![i] = row]
    BY DEF RotateWrite
<1>2. Sealing \in Contents
    BY FilesOfSets DEF KeyTypes, Sealing, Hybrid, Stages
<1>3. stored \in Seq(Rowset)
    BY DEF CallTypes
<1>4. CASE i \in DOMAIN stored /\ stored' = [stored EXCEPT ![i] = row]
    <2>1. row \in Rowset /\ row.seal = Sealing /\ row.tenant = stored[i].tenant
        BY <1>2, <1>4, RowsOf DEF Rowset
    <2> HIDE DEF row
    <2>2. /\ stored' \in Seq(Rowset) /\ Len(stored') = Len(stored)
          /\ \A j \in 1 .. Len(stored) : stored'[j] = IF j = i THEN row ELSE stored[j]
        BY <1>3, <1>4, <2>1, RowsOf, ExceptSeq
    <2> QED
        BY <2>1, <2>2, RowsOf
<1>5. CASE i \notin DOMAIN stored \/ stored' = stored
    <2>1. stored' = stored
        BY <1>1, <1>3, <1>5
    <2> QED
        BY <1>3, <2>1
<1> QED
    BY <1>1, <1>4, <1>5

LEMMA AsksMove ==
    ASSUME KeyInv, CallTypes, RowsAreThere, busy = Inside, NEW s \in Secrets,
           Create(s) \/ GetRead(s) \/ AgentRead(s) \/ Denied(s) \/ Sealed(s)
           \/ Hand(s) \/ RotateRead(s) \/ RotateWrite(s) \/ Delete(s)
    PROVE  Moves
<1>1. UNCHANGED <<finish, assert, cmd, pod>>
    BY DEF Create, GetRead, AgentRead, Denied, Sealed, Hand, RotateRead, RotateWrite, Delete,
           accessVars
<1>2. stored \in Seq(Rowset) /\ entries \in Seq(EntrySet)
    BY DEF CallTypes
<1>3. CASE Create(s)
    <2>1. PICK at \in {"409", "ok"} : Goto(s, at) /\ busy' = busy /\ ask[s].at = "new"
        BY <1>3 DEF Create
    <2>2. stored' \in Seq(Rowset)
        <3> DEFINE row == [tenant |-> Asked[s].tenant, name |-> Asked[s].name,
                           value |-> Asked[s].value, env |-> Asked[s].env, seal |-> Sealing,
                           live |-> TRUE]
        <3>1. stored' = stored \/ stored' = Append(stored, row)
            BY <1>3 DEF Create
        <3>2. Sealing \in Contents
            BY FilesOfSets DEF KeyInv, KeyTypes, Sealing, Hybrid, Stages
        <3>3. row \in Rowset
            BY <3>2, VaultAssumption DEF Rowset
        <3> HIDE DEF row
        <3> QED
            BY <1>2, <3>1, <3>3
    <2>3. entries' = entries
        BY <1>3 DEF Create
    <2> QED
        BY <1>1, <1>2, <2>1, <2>2, <2>3, AnswerMoves DEF AskPlaces
<1>4. CASE GetRead(s)
    <2>1. \E i \in DOMAIN stored : Read(s, i, "held")
        BY <1>4 DEF GetRead, Live
    <2>2. Enter(s) /\ UNCHANGED <<stored, entries>>
        BY <1>4 DEF GetRead
    <2> QED
        BY <1>1, <2>1, <2>2, ReadMoves
<1>5. CASE AgentRead(s)
    <2>1. \E i \in DOMAIN stored : Read(s, i, "read")
        BY <1>5 DEF AgentRead, Live
    <2>2. Enter(s) /\ UNCHANGED <<stored, entries>>
        BY <1>5 DEF AgentRead
    <2> QED
        BY <1>1, <2>1, <2>2, ReadMoves
<1>6. CASE Denied(s)
    <2>1. /\ Goto(s, "denied") /\ busy' = busy /\ ask[s].at = "new" /\ UNCHANGED <<stored, entries>>
        BY <1>6 DEF Denied
    <2> QED
        BY <1>1, <1>2, <2>1, AnswerMoves DEF AskPlaces
<1>7. CASE Sealed(s)
    <2>1. Goto(s, "sealed") /\ Leave(s) /\ UNCHANGED <<stored, entries>>
        BY <1>7 DEF Sealed
    <2> QED
        BY <1>1, <1>2, <2>1, AnswerMoves DEF AskPlaces
<1>8. CASE Hand(s)
    <2>1. Goto(s, "ok") /\ Leave(s) /\ stored' = stored
        BY <1>8 DEF Hand
    <2>2. entries' \in Seq(EntrySet)
        <3> DEFINE entry == Entry(stored[ask[s].row].tenant,
                                  IF Asked[s].op = "get" THEN "" ELSE Asked[s].machine, s)
        <3>1. entries' = entries \/ entries' = Append(entries, entry)
            BY <1>8 DEF Hand, Log
        <3>2. entry \in EntrySet
            <4>1. ask[s].row \in DOMAIN stored
                BY <1>8 DEF Hand, RowsAreThere, AsksInside
            <4>2. stored[ask[s].row].tenant \in Tenants
                BY <4>1, RowsOf DEF Rowset
            <4> QED
                BY <4>2, VaultAssumption DEF Entry, EntrySet
        <3> HIDE DEF entry
        <3> QED
            BY <1>2, <3>1, <3>2
    <2> QED
        BY <1>1, <1>2, <2>1, <2>2, AnswerMoves DEF AskPlaces
<1>9. CASE RotateRead(s)
    <2>1. PICK i \in DOMAIN stored :
            IF stored[i].live THEN Enter(s) /\ Read(s, i, "rotating")
                              ELSE Serving /\ busy' = busy /\ Goto(s, "denied")
        BY <1>9 DEF RotateRead
    <2>2. ask[s].at = "new" /\ UNCHANGED <<stored, entries>>
        BY <1>9 DEF RotateRead
    <2>3. CASE Enter(s) /\ Read(s, i, "rotating")
        BY <1>1, <2>2, <2>3, ReadMoves
    <2>4. CASE busy' = busy /\ Goto(s, "denied")
        BY <1>1, <1>2, <2>2, <2>4, AnswerMoves DEF AskPlaces
    <2> QED
        BY <2>1, <2>3, <2>4
<1>10. CASE RotateWrite(s)
    <2>1. Goto(s, "ok") /\ Leave(s) /\ entries' = entries
        BY <1>10 DEF RotateWrite
    <2>2. stored' \in Seq(Rowset)
        BY <1>10, RotateTypes DEF RotateWrite, KeyInv
    <2> QED
        BY <1>1, <1>2, <2>1, <2>2, AnswerMoves DEF AskPlaces
<1>11. CASE Delete(s)
    <2>1. PICK at \in {"denied", "ok"} : Goto(s, at) /\ busy' = busy /\ ask[s].at = "new"
        BY <1>11 DEF Delete
    <2>2. stored' \in Seq(Rowset) /\ entries' = entries
        <3>1. PICK i \in DOMAIN stored : stored' = [stored EXCEPT ![i].live = FALSE]
            BY <1>11 DEF Delete
        <3>2. [stored[i] EXCEPT !.live = FALSE] \in Rowset
            BY RowsOf DEF Rowset
        <3>3. stored' = [stored EXCEPT ![i] = [stored[i] EXCEPT !.live = FALSE]]
            BY <3>1
        <3>4. stored' \in Seq(Rowset)
            BY <1>2, <3>2, <3>3, RowsOf, ExceptSeq
        <3> QED
            BY <1>11, <3>4 DEF Delete
    <2> QED
        BY <1>1, <1>2, <2>1, <2>2, AnswerMoves DEF AskPlaces
<1> QED
    BY <1>3, <1>4, <1>5, <1>6, <1>7, <1>8, <1>9, <1>10, <1>11

\* SELECT MAX(seq): an entry of the machine that no other one follows, or 0.
LEMMA NewestIs ==
    ASSUME CallTypes, NEW machine
    PROVE  LET own == {i \in DOMAIN entries : /\ entries[i].machine = machine
                                              /\ entries[i].tenant = OwnerOf[machine]}
           IN  /\ NewestSeq(machine) \in Nat
               /\ own # {} => NewestSeq(machine) \in own
               /\ \A i \in own : i <= NewestSeq(machine)
<1> DEFINE own == {i \in DOMAIN entries : /\ entries[i].machine = machine
                                          /\ entries[i].tenant = OwnerOf[machine]}
<1>1. DOMAIN entries = 1 .. Len(entries) /\ Len(entries) \in Nat
    BY RowsOf
<1>2. own \in SUBSET (1 .. Len(entries))
    BY <1>1
<1>3. NewestSeq(machine) = Newest(own)
    BY DEF NewestSeq
<1> HIDE DEF own
<1>4. CASE own = {}
    BY <1>3, <1>4 DEF Newest, own
<1>5. CASE own # {}
    <2>1. \E i \in own : \A j \in own : j <= i
        BY <1>1, <1>2, <1>5, MaxExists
    <2>2. Newest(own) \in own /\ \A j \in own : j <= Newest(own)
        BY <1>5, <2>1, Zenon DEF Newest
    <2> QED
        BY <1>1, <1>2, <1>3, <2>2 DEF own
<1> QED
    BY <1>4, <1>5

LEMMA CmdsMove ==
    ASSUME CallTypes, busy = Inside, NEW c \in Commands,
           Exec(c) \/ Clone(c) \/ Branch(c) \/ Commit(c) \/ Push(c) \/ Status(c) \/ LogOf(c)
           \/ CreatePr(c) \/ CmdRun(c) \/ PodEnds(c) \/ CmdReply(c) \/ CmdTimeout(c) \/ PrPost(c)
           \/ CmdLog(c) \/ CmdSeq(c)
    PROVE  Moves
<1>1. UNCHANGED <<finish, assert, ask, stored>>
    BY DEF Exec, Clone, Branch, Commit, Push, Status, LogOf, CreatePr, Accept, CmdRun, PodEnds,
           CmdReply, CmdTimeout, PrPost, CmdLog, CmdSeq, accessVars
<1>2. /\ pod \in [Commands -> [at : {"none", "running", "ended"}, code : {0, 1}]]
      /\ entries \in Seq(EntrySet)
    BY DEF CallTypes
<1>3. c \in busy <=> cmd[c].at = "logged"
    BY InsideIs
<1>4. CASE Exec(c) \/ Clone(c) \/ Branch(c) \/ Commit(c) \/ Push(c) \/ Status(c) \/ LogOf(c)
           \/ CreatePr(c)
    <2>1. PICK at \in {"go", "400", "401", "500"} : To(c, at)
        BY <1>4 DEF Exec, Clone, Branch, Commit, Push, Status, LogOf, CreatePr, Accept
    <2>2. busy' = busy /\ cmd[c].at = "new" /\ UNCHANGED <<pod, entries>>
        BY <1>4 DEF Exec, Clone, Branch, Commit, Push, Status, LogOf, CreatePr, Accept
    <2>3. CallTypes' /\ Inside' = Inside \ {c}
        BY <1>1, <1>2, <2>1, <2>2, ToMoves DEF CmdPlaces
    <2> QED
        BY <1>3, <2>2, <2>3 DEF Moves
<1>5. CASE CmdRun(c) \/ CmdTimeout(c) \/ PrPost(c)
    <2>1. PICK at \in {"running", "502", "504", "ran", "422"} : To(c, at)
        BY <1>5 DEF CmdRun, CmdTimeout, PrPost
    <2>2. busy' = busy /\ cmd[c].at \in {"go", "running", "post"} /\ entries' = entries
        BY <1>5 DEF CmdRun, CmdTimeout, PrPost
    <2>3. pod' = pod \/ pod' = [pod EXCEPT ![c].at = "running"]
        BY <1>5 DEF CmdRun, CmdTimeout, PrPost
    <2>4. pod' \in [Commands -> [at : {"none", "running", "ended"}, code : {0, 1}]]
        BY <1>2, <2>3
    <2>5. CallTypes' /\ Inside' = Inside \ {c}
        BY <1>1, <1>2, <2>1, <2>2, <2>4, ToMoves DEF CmdPlaces
    <2> QED
        BY <1>3, <2>2, <2>5 DEF Moves
<1>6. CASE PodEnds(c)
    <2>1. /\ \E code \in {0, 1} : pod' = [pod EXCEPT ![c] = [at |-> "ended", code |-> code]]
          /\ UNCHANGED <<cmd, busy, entries>>
        BY <1>6 DEF PodEnds
    <2>2. pod' \in [Commands -> [at : {"none", "running", "ended"}, code : {0, 1}]]
        BY <1>2, <2>1
    <2>3. CallTypes'
        BY <1>1, <2>1, <2>2 DEF CallTypes
    <2>4. Inside' = Inside
        BY <1>1, <2>1 DEF Inside, FinishesInside, AssertsInside, AsksInside, CmdsInside
    <2> QED
        BY <2>1, <2>3, <2>4 DEF Moves
<1>7. CASE CmdReply(c)
    <2>1. PICK code \in {0, 1}, at \in {"502", "post", "ran"} :
            cmd' = [cmd EXCEPT ![c] = [cmd[c] EXCEPT !.code = code, !.at = at]]
        <3>1. Reported(c) \subseteq {0, 1}
            BY <1>2 DEF Reported
        <3> QED
            BY <1>7, <3>1 DEF CmdReply
    <2> DEFINE row == [cmd[c] EXCEPT !.code = code, !.at = at]
    <2>2. row \in [at : CmdPlaces, code : {0, 1}, seq : Nat] /\ row.at # "logged"
        BY DEF CallTypes, CmdPlaces
    <2>3. cmd' = [cmd EXCEPT ![c] = row]
        BY <2>1
    <2>4. busy' = busy /\ cmd[c].at = "running" /\ UNCHANGED <<pod, entries>>
        BY <1>7 DEF CmdReply
    <2> HIDE DEF row
    <2>5. CallTypes' /\ Inside' = Inside \ {c}
        BY <1>1, <1>2, <2>2, <2>3, <2>4, CmdMoves
    <2> QED
        BY <1>3, <2>4, <2>5 DEF Moves
<1>8. CASE CmdLog(c)
    <2>1. To(c, "logged") /\ Enter(c) /\ busy' = busy \cup {c} /\ pod' = pod
        BY <1>8 DEF CmdLog, Enter
    <2>2. entries' \in Seq(EntrySet)
        <3> DEFINE entry == Entry(OwnerOf[Sent[c].machine], Sent[c].machine, c)
        <3>1. entries' = entries \/ entries' = Append(entries, entry)
            BY <1>8 DEF CmdLog, Log
        <3>2. entry \in EntrySet
            BY VaultAssumption DEF Entry, EntrySet
        <3> HIDE DEF entry
        <3> QED
            BY <1>2, <3>1, <3>2
    <2>3. CallTypes' /\ Inside' = Inside \cup {c}
        BY <1>1, <1>2, <2>1, <2>2, ToMoves DEF CmdPlaces
    <2> QED
        BY <2>1, <2>3 DEF Moves
<1>9. CASE CmdSeq(c)
    <2>1. PICK seq \in {NewestSeq(Sent[c].machine), 0} :
            cmd' = [cmd EXCEPT ![c] = [cmd[c] EXCEPT !.at = "ok", !.seq = seq]]
        BY <1>9 DEF CmdSeq
    <2>2. seq \in Nat
        BY NewestIs
    <2> DEFINE row == [cmd[c] EXCEPT !.at = "ok", !.seq = seq]
    <2>3. row \in [at : CmdPlaces, code : {0, 1}, seq : Nat] /\ row.at # "logged"
        BY <2>2 DEF CallTypes, CmdPlaces
    <2>4. cmd' = [cmd EXCEPT ![c] = row]
        BY <2>1
    <2>5. Leave(c) /\ busy' = busy \ {c} /\ UNCHANGED <<pod, entries>>
        BY <1>9 DEF CmdSeq, Leave
    <2> HIDE DEF row
    <2>6. CallTypes' /\ Inside' = Inside \ {c}
        BY <1>1, <1>2, <2>3, <2>4, <2>5, CmdMoves
    <2> QED
        BY <2>5, <2>6 DEF Moves
<1> QED
    BY <1>4, <1>5, <1>6, <1>7, <1>8, <1>9
\* How a call about credentials changes the rows, and what it has read of them.
LEMMA StoredSteps ==
    ASSUME KeyTypes, CallTypes, NEW s \in Secrets,
           Create(s) \/ GetRead(s) \/ AgentRead(s) \/ Denied(s) \/ Sealed(s)
           \/ Hand(s) \/ RotateRead(s) \/ RotateWrite(s) \/ Delete(s)
    PROVE  /\ DOMAIN stored \subseteq DOMAIN stored'
           /\ \A i \in DOMAIN stored' :
                \/ stored'[i].seal = Sealing /\ (Create(s) \/ RotateWrite(s))
                \/ i \in DOMAIN stored /\ stored'[i].seal = stored[i].seal
           /\ \A t \in Secrets \ {s} : ask'[t] = ask[t]
           /\ \/ ask'[s].at \in {"ok", "409", "denied", "sealed"}
              \/ \E i \in DOMAIN stored : /\ ask'[s].row = i /\ ask'[s].seal = stored[i].seal
                                          /\ stored' = stored
<1>1. ask \in [Secrets -> [at : AskPlaces, row : Nat, seal : Contents]] /\ stored \in Seq(Rowset)
    BY DEF CallTypes
<1>2. \A t \in Secrets \ {s} : ask'[t] = ask[t]
    BY <1>1 DEF Create, GetRead, AgentRead, Denied, Sealed, Hand, RotateRead, RotateWrite, Delete,
                Goto, Read
<1>3. CASE GetRead(s) \/ AgentRead(s)
    <2>1. PICK i \in DOMAIN stored, at \in {"held", "read"} : Read(s, i, at)
        BY <1>3 DEF GetRead, AgentRead, Live
    <2>2. stored' = stored
        BY <1>3 DEF GetRead, AgentRead
    <2>3. ask'[s].row = i /\ ask'[s].seal = stored[i].seal
        BY <1>1, <2>1 DEF Read
    <2> QED
        BY <1>2, <2>2, <2>3
<1>4. CASE RotateRead(s)
    <2>1. PICK i \in DOMAIN stored : Read(s, i, "rotating") \/ Goto(s, "denied")
        BY <1>4 DEF RotateRead
    <2>2. stored' = stored
        BY <1>4 DEF RotateRead
    <2>3. CASE Read(s, i, "rotating")
        <3>1. ask'[s].row = i /\ ask'[s].seal = stored[i].seal
            BY <1>1, <2>3 DEF Read
        <3> QED
            BY <1>2, <2>2, <3>1
    <2>4. CASE Goto(s, "denied")
        <3>1. ask'[s].at = "denied"
            BY <1>1, <2>4 DEF Goto
        <3> QED
            BY <1>2, <2>2, <3>1
    <2> QED
        BY <2>1, <2>3, <2>4
<1>5. CASE Create(s) \/ Denied(s) \/ Sealed(s) \/ Hand(s) \/ RotateWrite(s) \/ Delete(s)
    <2>1. \E at \in {"ok", "409", "denied", "sealed"} : Goto(s, at)
        BY <1>5 DEF Create, Denied, Sealed, Hand, RotateWrite, Delete
    <2>2. ask'[s].at \in {"ok", "409", "denied", "sealed"}
        BY <1>1, <2>1 DEF Goto
    <2>3. CASE Denied(s) \/ Sealed(s) \/ Hand(s)
        BY <1>2, <2>2, <2>3 DEF Denied, Sealed, Hand
    <2>4. CASE RotateWrite(s)
        <3>1. /\ DOMAIN stored' = DOMAIN stored
              /\ \A i \in DOMAIN stored :
                   stored'[i].seal = stored[i].seal \/ stored'[i].seal = Sealing
            <4>1. stored' \in Seq(Rowset) /\ Len(stored') = Len(stored)
                BY <2>4, RotateTypes
            <4>2. DOMAIN stored' = DOMAIN stored
                BY <1>1, <4>1, LenProperties
            <4> QED
                BY <2>4, <4>2, RotateTypes
        <3> QED
            BY <1>2, <2>2, <2>4, <3>1
    <2>5. CASE Delete(s)
        <3>1. PICK i \in DOMAIN stored : stored' = [stored EXCEPT ![i].live = FALSE]
            BY <2>5 DEF Delete
        <3>2. /\ DOMAIN stored' = DOMAIN stored
              /\ \A j \in DOMAIN stored : stored'[j].seal = stored[j].seal
            BY <3>1, RowsOf DEF Rowset
        <3> QED
            BY <1>2, <2>2, <3>2
    <2>6. CASE Create(s)
        <3>1. CASE stored' = stored
            BY <1>2, <2>2, <3>1
        <3>2. ASSUME NEW row, row.seal = Sealing, stored' = Append(stored, row)
              PROVE  /\ DOMAIN stored \subseteq DOMAIN stored'
                     /\ \A i \in DOMAIN stored' :
                          \/ stored'[i].seal = Sealing
                          \/ i \in DOMAIN stored /\ stored'[i].seal = stored[i].seal
            BY <1>1, <3>2
        <3>3. stored' = stored \/ \E row : row.seal = Sealing /\ stored' = Append(stored, row)
            BY <2>6 DEF Create
        <3> QED
            BY <1>2, <2>2, <2>6, <3>1, <3>2, <3>3
    <2> QED
        BY <1>5, <2>3, <2>4, <2>5, <2>6
<1> QED
    BY <1>3, <1>4, <1>5

\* A gateway that serves goes on serving until it is killed.
LEMMA ServingStays ==
    ASSUME KeyInv, Serving, [Next]_vars
    PROVE  \/ Killed
           \/ /\ UNCHANGED keyVars
              /\ \/ AccessStep /\ UNCHANGED vaultVars
                 \/ VaultStep
                 \/ UNCHANGED <<busy, accessVars, vaultVars>>
<1>1. process.at = "up" /\ process.todo = <<>>
    BY DEF Serving, KeyInv, TodoIsOfStage, Stages, Hybrid
<1>2. ~StartStep /\ ~InitCommand /\ ~ClientInit
    BY <1>1 DEF StartStep, Start, init_pool, Opened, InitGenerates, WriteAtomically, WriteInPlace,
                InitEnds, At, Generate, Generated, Derive, Load, LoadFails, Readable, InitCommand,
                ClientInit, Stages, Hybrid
<1>3. KeyTypes
    BY DEF KeyInv
<1> QED
    BY <1>2, <1>3, CallsLeaveKeys DEF Next, vars

\* The calls that a step of the process itself leaves alone.
LEMMA ProcessStep ==
    ASSUME KeyInv, [Next]_vars
    PROVE  \/ AccessStep /\ UNCHANGED <<vaultVars, keyVars>>
           \/ VaultStep /\ UNCHANGED keyVars
           \/ Killed
           \/ UNCHANGED <<busy, accessVars, vaultVars>>
<1>1. KeyTypes
    BY DEF KeyInv
<1>2. StartStep \/ InitCommand \/ ClientInit => busy' = busy
    BY DEF StartStep, Start, init_pool, Opened, InitGenerates, WriteAtomically, WriteInPlace,
           InitEnds, Generate, Generated, Derive, Load, LoadFails, Take, InitCommand, ClientInit
<1> QED
    BY <1>1, <1>2, CallsLeaveKeys DEF Next, vars

LEMMA BusyInit == Init => BusyInv
<1> SUFFICES ASSUME Init
             PROVE  BusyInv
    OBVIOUS
<1>1. plan.threads \in Nat
    BY KeyInitKeeps DEF Init, KeyInv, KeyTypes, IsScenario
<1>2. CallTypes
    <2>1. <<>> \in Seq(Rowset) /\ <<>> \in Seq(EntrySet)
        OBVIOUS
    <2>2. /\ finish \in [Finishes -> FinishPlaces] /\ assert \in [Asserts -> AssertPlaces]
        BY DEF Init, AccessInit, Due, FinishPlaces, AssertPlaces
    <2>3. /\ ask \in [Secrets -> [at : AskPlaces, row : Nat, seal : Contents]]
          /\ cmd \in [Commands -> [at : CmdPlaces, code : {0, 1}, seq : Nat]]
          /\ pod \in [Commands -> [at : {"none", "running", "ended"}, code : {0, 1}]]
        BY DEF Init, VaultInit, Due, AskPlaces, CmdPlaces, Contents
    <2> QED
        BY <2>1, <2>2, <2>3 DEF Init, VaultInit, CallTypes
<1>3. Inside = {}
    BY DEF Init, AccessInit, VaultInit, Due, Inside, FinishesInside, AssertsInside, AsksInside,
           CmdsInside
<1>4. busy = {}
    BY DEF Init, KeyInit
<1>5. RowsAreThere
    BY <1>3 DEF RowsAreThere, Inside
<1> QED
    BY <1>1, <1>2, <1>3, <1>4, <1>5, FS_EmptySet DEF BusyInv

LEMMA KilledCalls ==
    ASSUME CallTypes, busy = Inside, Killed
    PROVE  /\ CallTypes' /\ busy' = {} /\ Inside' = {}
           /\ \A f \in Finishes : finish'[f] = IF f \in Inside THEN "lost" ELSE finish[f]
           /\ \A a \in Asserts : assert'[a] = IF a \in Inside THEN "lost" ELSE assert[a]
           /\ \A s \in Secrets : /\ ask'[s].at = IF s \in Inside THEN "lost" ELSE ask[s].at
                                 /\ ask'[s].row = ask[s].row /\ ask'[s].seal = ask[s].seal
           /\ \A c \in Commands :
                /\ cmd'[c].at = IF c \in Inside \/ cmd[c].at \in Waiting THEN "lost" ELSE cmd[c].at
                /\ cmd'[c].code = cmd[c].code /\ cmd'[c].seq = cmd[c].seq
<1>1. UNCHANGED <<stored, pod, entries>> /\ busy' = {}
    BY DEF Killed, Kill
<1>2. /\ finish' \in [Finishes -> FinishPlaces]
      /\ \A f \in Finishes : finish'[f] = IF f \in Inside THEN "lost" ELSE finish[f]
    BY DEF CallTypes, Killed, Dropped, FinishPlaces
<1>3. /\ assert' \in [Asserts -> AssertPlaces]
      /\ \A a \in Asserts : assert'[a] = IF a \in Inside THEN "lost" ELSE assert[a]
    BY DEF CallTypes, Killed, Dropped, AssertPlaces
<1>4. /\ ask' \in [Secrets -> [at : AskPlaces, row : Nat, seal : Contents]]
      /\ \A s \in Secrets : /\ ask'[s].at = IF s \in Inside THEN "lost" ELSE ask[s].at
                            /\ ask'[s].row = ask[s].row /\ ask'[s].seal = ask[s].seal
    <2>1. ask' = [s \in Secrets |-> IF s \in Inside THEN [ask[s] EXCEPT !.at = "lost"] ELSE ask[s]]
        BY DEF Killed
    <2>2. \A s \in Secrets : [ask[s] EXCEPT !.at = "lost"] \in [at : AskPlaces, row : Nat, seal : Contents]
        BY DEF CallTypes, AskPlaces
    <2> QED
        BY <2>1, <2>2 DEF CallTypes
<1>5. /\ cmd' \in [Commands -> [at : CmdPlaces, code : {0, 1}, seq : Nat]]
      /\ \A c \in Commands :
           /\ cmd'[c].at = IF c \in Inside \/ cmd[c].at \in Waiting THEN "lost" ELSE cmd[c].at
           /\ cmd'[c].code = cmd[c].code /\ cmd'[c].seq = cmd[c].seq
    <2>1. cmd' = [c \in Commands |-> IF c \in Inside \/ cmd[c].at \in Waiting
                                     THEN [cmd[c] EXCEPT !.at = "lost"] ELSE cmd[c]]
        BY DEF Killed
    <2>2. \A c \in Commands : [cmd[c] EXCEPT !.at = "lost"] \in [at : CmdPlaces, code : {0, 1}, seq : Nat]
        <3>1. "lost" \in CmdPlaces
            BY DEF CmdPlaces
        <3>2. \A c \in Commands : cmd[c] \in [at : CmdPlaces, code : {0, 1}, seq : Nat]
            BY DEF CallTypes
        <3> QED
            BY <3>1, <3>2
    <2> QED
        BY <2>1, <2>2 DEF CallTypes
<1>6. CallTypes'
    BY <1>1, <1>2, <1>3, <1>4, <1>5 DEF CallTypes
<1>7. /\ FinishesInside' = {} /\ AssertsInside' = {} /\ AsksInside' = {} /\ CmdsInside' = {}
    BY <1>2, <1>3, <1>4, <1>5, InsideIs
    DEF FinishesInside, AssertsInside, AsksInside, CmdsInside
<1> QED
    BY <1>1, <1>2, <1>3, <1>4, <1>5, <1>6, <1>7 DEF Inside

LEMMA BusyStep ==
    ASSUME KeyInv, BusyInv, [Next]_vars
    PROVE  BusyInv'
<1>1. CallTypes /\ RowsAreThere /\ busy = Inside /\ IsFiniteSet(busy) /\ KeyTypes
    BY DEF BusyInv, KeyInv
<1>2. SameBounds /\ plan.threads \in Nat
    BY KeyStep DEF KeyInv, KeyTypes, IsScenario
<1>3. ASSUME Moves, UNCHANGED keyVars, RowsAreThere'
      PROVE  BusyInv'
    <2>1. process' = process
        BY <1>3 DEF keyVars
    <2>2. CASE busy' = busy
        BY <1>2, <1>3, <2>1, <2>2 DEF BusyInv, Moves, SameBounds, Serving
    <2>3. ASSUME NEW c, Enter(c)
          PROVE  BusyInv'
        <3>1. busy' = busy \cup {c} /\ Cardinality(busy) < plan.threads /\ Serving
            BY <2>3 DEF Enter
        <3>3. Cardinality(busy) \in Nat
            BY <1>1, FS_CardinalityType
        <3>2. IsFiniteSet(busy') /\ Cardinality(busy') \in {Cardinality(busy), Cardinality(busy) + 1}
            BY <1>1, <3>1, FS_AddElement
        <3>4. Cardinality(busy') <= plan'.threads
            BY <1>2, <3>1, <3>2, <3>3 DEF SameBounds
        <3> QED
            BY <1>3, <2>1, <3>1, <3>2, <3>4 DEF BusyInv, Moves, Serving
    <2>4. ASSUME NEW c, Leave(c)
          PROVE  BusyInv'
        <3>1. busy' \subseteq busy
            BY <2>4 DEF Leave
        <3>2. IsFiniteSet(busy') /\ Cardinality(busy') <= Cardinality(busy)
            BY <1>1, <3>1, FS_Subset
        <3>3. Cardinality(busy) \in Nat /\ Cardinality(busy') \in Nat
            BY <1>1, <3>2, FS_CardinalityType
        <3>4. Cardinality(busy') <= plan'.threads
            BY <1>2, <3>2, <3>3 DEF BusyInv, SameBounds
        <3>5. busy' # {} => Serving'
            BY <2>1, <3>1 DEF BusyInv, Serving
        <3> QED
            BY <1>3, <3>2, <3>4, <3>5 DEF BusyInv, Moves
    <2> QED
        BY <1>3, <2>2, <2>3, <2>4 DEF Moves
<1>4. ASSUME UNCHANGED <<ask, stored>>
      PROVE  RowsAreThere'
    BY <1>1, <1>4 DEF RowsAreThere, AsksInside
<1>5. CASE AccessStep /\ UNCHANGED <<vaultVars, keyVars>>
    <2>1. RowsAreThere'
        BY <1>4, <1>5 DEF vaultVars
    <2>2. ASSUME NEW f \in Finishes, FinishTake(f) \/ FinishMark(f) \/ FinishEnd(f) \/ FinishFails(f)
          PROVE  Moves
        BY <1>1, <1>5, <2>2, FinishesMove
    <2>3. ASSUME NEW a \in Asserts, AssertCheck(a) \/ AssertRefused(a) \/ AssertEnd(a)
          PROVE  Moves
        BY <1>1, <1>5, <2>3, AssertsMove
    <2>4. ASSUME NEW c \in Ceremonies, Begin(c)
          PROVE  Moves
        <3>1. UNCHANGED <<finish, assert, ask, cmd, pod, stored, entries, busy>>
            BY <1>5, <2>4 DEF Begin, vaultVars
        <3>2. CallTypes' /\ Inside' = Inside
            BY <1>1, <3>1 DEF CallTypes, Inside, FinishesInside, AssertsInside, AsksInside, CmdsInside
        <3> QED
            BY <1>1, <3>1, <3>2 DEF Moves
    <2> QED
        BY <1>3, <1>5, <2>1, <2>2, <2>3, <2>4 DEF AccessStep
<1>6. CASE VaultStep /\ UNCHANGED keyVars
    <2>1. ASSUME NEW s \in Secrets, Create(s) \/ GetRead(s) \/ AgentRead(s) \/ Denied(s) \/ Sealed(s)
                             \/ Hand(s) \/ RotateRead(s) \/ RotateWrite(s) \/ Delete(s)
          PROVE  Moves /\ RowsAreThere'
        <3>1. Moves
            BY <1>1, <2>1, AsksMove
        <3>2. RowsAreThere'
            BY <1>1, <2>1, StoredSteps DEF RowsAreThere, AsksInside
        <3> QED
            BY <3>1, <3>2
    <2>2. ASSUME NEW c \in Commands, Exec(c) \/ Clone(c) \/ Branch(c) \/ Commit(c) \/ Push(c)
                 \/ Status(c) \/ LogOf(c) \/ CreatePr(c) \/ CmdRun(c) \/ PodEnds(c) \/ CmdReply(c)
                 \/ CmdTimeout(c) \/ PrPost(c) \/ CmdLog(c) \/ CmdSeq(c)
          PROVE  Moves /\ RowsAreThere'
        <3>1. UNCHANGED <<ask, stored>>
            BY <2>2 DEF Exec, Clone, Branch, Commit, Push, Status, LogOf, CreatePr, Accept, CmdRun,
                        PodEnds, CmdReply, CmdTimeout, PrPost, CmdLog, CmdSeq
        <3> QED
            BY <1>1, <1>4, <2>2, <3>1, CmdsMove
    <2>3. ASSUME NEW m \in Machines, Ends(m) \/ Spawn(m)
          PROVE  Moves /\ RowsAreThere'
        <3>1. UNCHANGED <<finish, assert, ask, cmd, pod, stored, entries, busy>>
            BY <2>3 DEF Ends, Spawn, accessVars
        <3>2. CallTypes' /\ Inside' = Inside
            BY <1>1, <3>1 DEF CallTypes, Inside, FinishesInside, AssertsInside, AsksInside, CmdsInside
        <3> QED
            BY <1>1, <1>4, <3>1, <3>2 DEF Moves
    <2> QED
        BY <1>3, <1>6, <2>1, <2>2, <2>3 DEF VaultStep
<1>7. CASE Killed
    <2>1. CallTypes' /\ busy' = {} /\ Inside' = {}
        BY <1>1, <1>7, KilledCalls
    <2>2. RowsAreThere'
        BY <2>1 DEF RowsAreThere, Inside
    <2> QED
        BY <1>2, <2>1, <2>2, FS_EmptySet DEF BusyInv, SameBounds
<1>8. CASE UNCHANGED <<busy, accessVars, vaultVars>>
    <2>1. UNCHANGED <<finish, assert, ask, cmd, pod, stored, entries, busy>>
        BY <1>8 DEF accessVars, vaultVars
    <2>2. CallTypes' /\ Inside' = Inside /\ RowsAreThere'
        BY <1>1, <1>4, <2>1 DEF CallTypes, Inside, FinishesInside, AssertsInside, AsksInside, CmdsInside
    <2>3. busy # {} => Serving'
        BY <2>1, ServingStays DEF BusyInv, Serving, keyVars, Killed, Kill
    <2> QED
        BY <1>1, <1>2, <2>1, <2>2, <2>3 DEF BusyInv, SameBounds
<1> QED
    BY <1>5, <1>6, <1>7, <1>8, ProcessStep
-----------------------------------------------------------------------------
(* What was sealed can be opened.                                           *)

LEMMA FirstStays ==
    ASSUME KeyInv, [Next]_vars
    PROVE  (first # NoKeys => first' = first) /\ (rekeyed => rekeyed')
<1>1. KeyTypes
    BY DEF KeyInv
<1>2. CASE StartStep
    <2>1. CASE InitGenerates
        <3>1. first' = first /\ rekeyed' = (rekeyed \/ Present("audit") \/ Present("push"))
            BY <2>1 DEF InitGenerates
        <3> QED
            BY <3>1, Zenon
    <2>2. ASSUME NEW s \in Stages, Generate(s) \/ Generated(s) \/ Derive(s) \/ Load(s) \/ LoadFails(s)
          PROVE  rekeyed' = rekeyed /\ (first # NoKeys => first' = first)
        BY <2>2 DEF Generate, Generated, Derive, Load, LoadFails, Take
    <2>3. CASE Start \/ init_pool \/ Opened \/ WriteAtomically \/ WriteInPlace \/ InitEnds
        <3>1. first' = first /\ rekeyed' = rekeyed
            BY <2>3 DEF Start, init_pool, Opened, WriteAtomically, WriteInPlace, InitEnds
        <3> QED
            BY <3>1
    <2> QED
        BY <1>2, <2>1, <2>2, <2>3 DEF StartStep
<1>3. CASE InitCommand \/ ClientInit \/ Killed \/ UNCHANGED vars
    <2>1. first' = first /\ rekeyed' = rekeyed
        BY <1>3 DEF InitCommand, ClientInit, Killed, Kill, vars, keyVars
    <2> QED
        BY <2>1
<1>4. CASE AccessStep \/ VaultStep
    BY <1>1, <1>4, CallsLeaveKeys DEF keyVars
<1> QED
    BY <1>2, <1>3, <1>4 DEF Next

\* While a gateway serves, the key in memory is the one that everything is sealed with.
LEMMA SealingIsFirst ==
    ASSUME KeyInv, Serving
    PROVE  first # NoKeys /\ (~rekeyed => Sealing = FirstSeal)
<1>1. first # NoKeys
    BY DEF KeyInv, UpHasFirst, Serving
<1>2. ~rekeyed => keys = first
    BY KeyInvServes DEF ServesWhole, SameKeys
<1> QED
    BY <1>1, <1>2 DEF Sealing, FirstSeal

EnvTypes == env \in [Machines -> [has : SUBSET Nat, missed : SUBSET Nat]]

LEMMA SealStep ==
    ASSUME KeyInv, BusyInv, SealInv, SecretsStayReadable, EnvTypes, [Next]_vars
    PROVE  SealInv' /\ SecretsStayReadable' /\ EnvTypes'
<1>1. /\ CallTypes /\ KeyTypes /\ RowsAreThere /\ busy = Inside
      /\ busy # {} => Serving
    BY DEF BusyInv, KeyInv
<1>2. SameBounds
    BY KeyStep
<1>3. (first # NoKeys => first' = first) /\ (rekeyed => rekeyed')
    BY FirstStays
<1>4. AsksInside # {} => Serving
    BY <1>1 DEF Inside
<1>5. ASSUME UNCHANGED <<stored, ask>>
      PROVE  SealInv'
    <2>1. AsksInside' = AsksInside
        BY <1>5 DEF AsksInside
    <2>2. AsksInside # {} \/ stored # <<>> => first # NoKeys
        BY <1>4, SealingIsFirst DEF SealInv
    <2>3. stored' # <<>> => first' # NoKeys
        BY <1>3, <1>5 DEF SealInv
    <2>4. ASSUME ~rekeyed', NEW s \in AsksInside
          PROVE  ask'[s].seal = FirstSeal'
        BY <1>3, <1>5, <2>2, <2>4 DEF SealInv, FirstSeal
    <2>5. ASSUME ~rekeyed', NEW i \in DOMAIN stored
          PROVE  stored'[i].seal = FirstSeal'
        <3>1. stored # <<>>
            BY <2>5, NoIndex
        <3> QED
            BY <1>3, <1>5, <2>2, <2>5, <3>1 DEF SealInv, FirstSeal
    <2> QED
        BY <1>5, <2>1, <2>3, <2>4, <2>5 DEF SealInv
<1>6. ASSUME UNCHANGED env, \A s \in Secrets : ask'[s].at # "sealed" \/ ask'[s].at = ask[s].at
      PROVE  SecretsStayReadable' /\ EnvTypes'
    BY <1>2, <1>3, <1>6 DEF SecretsStayReadable, SameBounds, EnvTypes
<1>7. CASE UNCHANGED <<stored, ask, env>>
    <2>1. \A s \in Secrets : ask'[s].at = ask[s].at
        BY <1>7
    <2> QED
        BY <1>5, <1>6, <1>7, <2>1
<1>8. ASSUME VaultStep, UNCHANGED keyVars,
             NEW s \in Secrets, Create(s) \/ GetRead(s) \/ AgentRead(s) \/ Denied(s) \/ Sealed(s)
                             \/ Hand(s) \/ RotateRead(s) \/ RotateWrite(s) \/ Delete(s)
      PROVE  SealInv' /\ SecretsStayReadable' /\ EnvTypes'
    <2>1. UNCHANGED <<first, rekeyed, env>>
        BY <1>8 DEF keyVars, Create, GetRead, AgentRead, Denied, Sealed, Hand, RotateRead,
                    RotateWrite, Delete, machineVars
    <2>2. ask[s].at \in {"held", "read", "rotating"} => s \in AsksInside
        BY DEF AsksInside
    <2>3. Serving
        BY <1>4, <1>8, <2>2 DEF Create, GetRead, AgentRead, Denied, Sealed, Hand, RotateRead,
                                RotateWrite, Delete, Enter
    <2>4. first # NoKeys /\ (~rekeyed => Sealing = FirstSeal)
        BY <2>3, SealingIsFirst
    <2>5. /\ \A i \in DOMAIN stored' :
                \/ stored'[i].seal = Sealing
                \/ i \in DOMAIN stored /\ stored'[i].seal = stored[i].seal
          /\ \A t \in Secrets \ {s} : ask'[t] = ask[t]
          /\ \/ ask'[s].at \in {"ok", "409", "denied", "sealed"}
             \/ \E i \in DOMAIN stored : ask'[s].seal = stored[i].seal
        BY <1>1, <1>8, StoredSteps
    <2>6. SealInv'
        <3>1. FirstSeal' = FirstSeal
            BY <2>1 DEF FirstSeal
        <3>2. ~rekeyed => \A i \in DOMAIN stored' : stored'[i].seal = FirstSeal
            BY <2>4, <2>5 DEF SealInv
        <3>3. ASSUME ~rekeyed, NEW t \in Secrets, ask'[t].at \in {"held", "read", "rotating"}
              PROVE  ask'[t].seal = FirstSeal
            BY <2>5, <3>3 DEF SealInv, AsksInside
        <3> QED
            BY <2>1, <2>4, <3>1, <3>2, <3>3 DEF SealInv, AsksInside
    <2>7. ~rekeyed => \A t \in Secrets : ask'[t].at # "sealed"
        <3>1. SUFFICES ASSUME ~rekeyed
                       PROVE  ask'[s].at # "sealed"
            BY <2>5 DEF SecretsStayReadable
        <3>2. ~Sealed(s)
            BY <2>2, <2>4, <3>1 DEF Sealed, Opens, SealInv
        <3>3. ask \in [Secrets -> [at : AskPlaces, row : Nat, seal : Contents]]
            BY <1>1 DEF CallTypes
        <3>4. CASE \E at \in {"ok", "409", "denied"} : Goto(s, at)
            BY <3>3, <3>4 DEF Goto
        <3>5. CASE \E at \in {"held", "read", "rotating"}, i \in DOMAIN stored : Read(s, i, at)
            BY <3>3, <3>5 DEF Read
        <3>6. \/ \E at \in {"ok", "409", "denied"} : Goto(s, at)
              \/ \E at \in {"held", "read", "rotating"}, i \in DOMAIN stored : Read(s, i, at)
            BY <1>8, <3>2 DEF Create, GetRead, AgentRead, Denied, Hand, RotateRead,
                              RotateWrite, Delete, Live
        <3> QED
            BY <3>4, <3>5, <3>6
    <2> QED
        BY <1>2, <2>1, <2>6, <2>7 DEF SecretsStayReadable, SameBounds, EnvTypes
<1>9. ASSUME NEW m \in Machines, Spawn(m)
      PROVE  SealInv' /\ SecretsStayReadable' /\ EnvTypes'
    <2>1. UNCHANGED <<stored, ask, keyVars>> /\ Serving
        BY <1>9 DEF Spawn
    <2>2. PICK has \in SUBSET DOMAIN stored, missed \in SUBSET DOMAIN stored :
            /\ env' = [env EXCEPT ![m] = [has |-> has, missed |-> missed]]
            /\ ~plan.faults /\ ~rekeyed => missed = {}
        <3> DEFINE wanted == {i \in DOMAIN stored : stored[i].live /\ stored[i].env
                                                    /\ stored[i].tenant = OwnerOf[m]}
        <3>1. PICK read \in {wanted} \cup (IF plan.faults THEN {{}} ELSE {}) :
                env' = [env EXCEPT ![m] = [has |-> {i \in read : Opens(stored[i].seal)},
                                           missed |-> wanted \ {i \in read : Opens(stored[i].seal)}]]
            BY <1>9 DEF Spawn
        <3> DEFINE has == {i \in read : Opens(stored[i].seal)}
        <3>2. ~rekeyed => \A i \in DOMAIN stored : Opens(stored[i].seal)
            BY <2>1, SealingIsFirst DEF SealInv, Opens
        <3>3. ~plan.faults /\ ~rekeyed => has = wanted
            BY <3>1, <3>2
        <3>4. /\ has \in SUBSET DOMAIN stored /\ wanted \ has \in SUBSET DOMAIN stored
              /\ env' = [env EXCEPT ![m] = [has |-> has, missed |-> wanted \ has]]
            BY <3>1
        <3> HIDE DEF has, wanted
        <3> QED
            BY <3>3, <3>4
    <2>3. EnvTypes'
        BY <1>1, <2>2, RowsOf DEF EnvTypes
    <2>4. ~plan.faults /\ ~rekeyed => \A n \in Machines : env'[n].missed = {}
        BY <2>2 DEF EnvTypes, SecretsStayReadable
    <2>5. SecretsStayReadable'
        BY <1>2, <2>1, <2>4 DEF SecretsStayReadable, SameBounds, keyVars
    <2> QED
        BY <1>5, <2>1, <2>3, <2>5
<1>10. CASE Killed
    <2>1. AsksInside' = {} /\ \A s \in Secrets : ask'[s].at \in {"lost", ask[s].at}
        BY <1>1, <1>10, KilledCalls DEF Inside
    <2>2. UNCHANGED <<stored, env, first, rekeyed>>
        BY <1>10 DEF Killed, Kill, machineVars
    <2>3. SealInv'
        BY <2>1, <2>2 DEF SealInv, FirstSeal
    <2>4. \A s \in Secrets : ask'[s].at # "sealed" \/ ask'[s].at = ask[s].at
        BY <2>1
    <2> QED
        BY <1>6, <2>2, <2>3, <2>4
<1>11. CASE AccessStep /\ UNCHANGED <<vaultVars, keyVars>>
    BY <1>7, <1>11 DEF vaultVars, machineVars
<1>12. CASE UNCHANGED <<busy, accessVars, vaultVars>>
    BY <1>7, <1>12 DEF vaultVars, machineVars
<1>13. CASE VaultStep /\ UNCHANGED keyVars
    <2>1. ASSUME NEW c \in Commands, Exec(c) \/ Clone(c) \/ Branch(c) \/ Commit(c) \/ Push(c)
                 \/ Status(c) \/ LogOf(c) \/ CreatePr(c) \/ CmdRun(c) \/ PodEnds(c) \/ CmdReply(c)
                 \/ CmdTimeout(c) \/ PrPost(c) \/ CmdLog(c) \/ CmdSeq(c)
          PROVE  UNCHANGED <<stored, ask, env>>
        BY <2>1 DEF Exec, Clone, Branch, Commit, Push, Status, LogOf, CreatePr, Accept, CmdRun,
                    PodEnds, CmdReply, CmdTimeout, PrPost, CmdLog, CmdSeq, machineVars
    <2>2. ASSUME NEW m \in Machines, Ends(m)
          PROVE  UNCHANGED <<stored, ask, env>>
        BY <2>2 DEF Ends
    <2> QED
        BY <1>7, <1>8, <1>9, <1>13, <2>1, <2>2 DEF VaultStep
<1> QED
    BY <1>10, <1>11, <1>12, <1>13, ProcessStep

LEMMA SealInit == Init => SealInv /\ SecretsStayReadable /\ EnvTypes
<1> SUFFICES ASSUME Init
             PROVE  SealInv /\ SecretsStayReadable /\ EnvTypes
    OBVIOUS
<1>1. /\ stored = <<>> /\ env = [m \in Machines |-> [has |-> {}, missed |-> {}]]
      /\ ask = [s \in Secrets |-> [at |-> Due(s), row |-> 0, seal |-> 0]]
    BY DEF Init, VaultInit
<1>2. \A s \in Secrets : ask[s].at \in {"new", "absent"}
    BY <1>1 DEF Due
<1>3. SealInv
    BY <1>1, <1>2, NoIndex DEF SealInv, AsksInside
<1> QED
    BY <1>1, <1>2, <1>3 DEF SecretsStayReadable, EnvTypes

\* As long as init has not replaced the audit key, whichever gateway runs opens every
\* credential that any of them has sealed, and every pod gets those it should have, unless
\* a statement fails (get_credential, agent_get_credential; load_credential_env_vars).
THEOREM SecretsAreReadable == Spec => []SecretsStayReadable
<1> DEFINE Inv == KeyInv /\ BusyInv /\ SealInv /\ SecretsStayReadable /\ EnvTypes
<1>1. Init => Inv
    BY KeyInitKeeps, BusyInit, SealInit DEF Init
<1>2. Inv /\ [Next]_vars => Inv'
    BY KeyStep, BusyStep, SealStep
<1> QED
    BY <1>1, <1>2, PTL DEF Spec
-----------------------------------------------------------------------------
(* What a challenge enrols.                                                 *)

Enrolling(c) == Cardinality(EnrolledBy(c)) + Cardinality(Finishing(c))

EnrolmentTypes ==
    /\ challenge \in [Ceremonies -> CeremonyPlaces]
    /\ credential \in Seq(Enrolment)

LEMMA EnrollingIsFinite ==
    ASSUME BusyInv, EnrolmentTypes, NEW c
    PROVE  /\ IsFiniteSet(EnrolledBy(c)) /\ IsFiniteSet(Finishing(c))
           /\ Cardinality(EnrolledBy(c)) \in Nat /\ Cardinality(Finishing(c)) \in Nat
           /\ Finishing(c) \subseteq busy
           /\ DOMAIN credential = 1 .. Len(credential) /\ Len(credential) \in Nat
<1>1. DOMAIN credential = 1 .. Len(credential) /\ Len(credential) \in Nat
    BY DEF EnrolmentTypes
<1>2. IsFiniteSet(1 .. Len(credential))
    BY <1>1, FS_Interval
<1>3. IsFiniteSet(EnrolledBy(c)) /\ Cardinality(EnrolledBy(c)) \in Nat
    BY <1>1, <1>2, FS_Subset, FS_CardinalityType DEF EnrolledBy
<1>4. Finishing(c) \subseteq busy
    BY DEF Finishing, BusyInv, Inside
<1>5. IsFiniteSet(Finishing(c)) /\ Cardinality(Finishing(c)) \in Nat
    BY <1>4, FS_Subset, FS_CardinalityType DEF BusyInv
<1> QED
    BY <1>1, <1>3, <1>4, <1>5

\* A challenge of which no call has begun or gone on to enrol, and no row was added.
LEMMA EnrollingKept ==
    ASSUME BusyInv, EnrolmentTypes, SameBounds, NEW c,
           EnrolledBy(c)' = EnrolledBy(c), Finishing(c)' \subseteq Finishing(c),
           Enrolling(c) <= plan.threads, plan.threads \in Nat
    PROVE  Enrolling(c)' <= plan'.threads
<1>1. /\ IsFiniteSet(Finishing(c)) /\ Cardinality(EnrolledBy(c)) \in Nat
      /\ Cardinality(Finishing(c)) \in Nat
    BY EnrollingIsFinite
<1>2. /\ IsFiniteSet(Finishing(c)') /\ Cardinality(Finishing(c)') <= Cardinality(Finishing(c))
    BY <1>1, FS_Subset
<1>3. Cardinality(Finishing(c)') \in Nat
    BY <1>2, FS_CardinalityType
<1> QED
    BY <1>1, <1>2, <1>3 DEF Enrolling, SameBounds

\* update_credential_counter writes counts, and no other column.
LEMMA CountsWritten ==
    ASSUME EnrolmentTypes, NEW a \in Asserts, AssertEnd(a)
    PROVE  /\ credential' \in Seq(Enrolment) /\ challenge' = challenge
           /\ DOMAIN credential' = DOMAIN credential
           /\ \A i \in DOMAIN credential : /\ credential'[i].by = credential[i].by
                                           /\ credential'[i].key = credential[i].key
           /\ \/ credential' = credential /\ plan.faults
              \/ \A i \in DOMAIN credential :
                   credential'[i].count = IF i \in Rows(Asserted[a].key) THEN Asserted[a].count
                                          ELSE credential[i].count
<1>1. PICK stored_ \in BOOLEAN :
        /\ stored_ \/ plan.faults
        /\ credential' = [i \in DOMAIN credential |->
               IF stored_ /\ i \in Rows(Asserted[a].key)
               THEN [credential[i] EXCEPT !.count = Asserted[a].count] ELSE credential[i]]
    BY DEF AssertEnd
<1>2. /\ DOMAIN credential = 1 .. Len(credential) /\ Len(credential) \in Nat
      /\ \A i \in DOMAIN credential : credential[i] \in Enrolment
      /\ credential = [i \in DOMAIN credential |-> credential[i]]
    BY DEF EnrolmentTypes
<1>3. \A i \in DOMAIN credential :
        LET row == [credential[i] EXCEPT !.count = Asserted[a].count]
        IN  /\ row \in Enrolment /\ row.by = credential[i].by /\ row.key = credential[i].key
            /\ row.count = Asserted[a].count
    BY <1>2, AccessAssumption DEF Enrolment
<1>4. challenge' = challenge
    BY DEF AssertEnd
<1>5. credential' \in [1 .. Len(credential) -> Enrolment]
    BY <1>1, <1>2, <1>3
<1>6. credential' \in Seq(Enrolment) /\ DOMAIN credential' = DOMAIN credential
    BY <1>2, <1>5
<1>7. CASE stored_
    BY <1>1, <1>3, <1>4, <1>6, <1>7
<1>8. CASE ~stored_
    BY <1>1, <1>2, <1>4, <1>6, <1>8
<1> QED
    BY <1>7, <1>8

LEMMA VaultLeavesAccess ==
    ASSUME VaultStep
    PROVE  UNCHANGED accessVars
BY DEF VaultStep, Create, GetRead, AgentRead, Denied, Sealed, Hand, RotateRead, RotateWrite,
       Delete, Exec, Clone, Branch, Commit, Push, Status, LogOf, CreatePr, Accept, CmdRun,
       PodEnds, CmdReply, CmdTimeout, PrPost, CmdLog, CmdSeq, Ends, Spawn

LEMMA EnrolmentStep ==
    ASSUME BusyInv, EnrolmentTypes, [Next]_vars, KeyInv
    PROVE  EnrolmentTypes'
<1>1. ASSUME UNCHANGED <<challenge, credential>>
      PROVE  EnrolmentTypes'
    BY <1>1 DEF EnrolmentTypes
<1>2. CASE AccessStep
    <2>1. ASSUME NEW c \in Ceremonies, Begin(c)
          PROVE  EnrolmentTypes'
        BY <2>1 DEF Begin, store_challenge, EnrolmentTypes, CeremonyPlaces
    <2>2. ASSUME NEW f \in Finishes, FinishMark(f)
          PROVE  EnrolmentTypes'
        BY <2>2 DEF FinishMark, EnrolmentTypes, CeremonyPlaces
    <2>3. ASSUME NEW f \in Finishes, FinishEnd(f)
          PROVE  EnrolmentTypes'
        <3> DEFINE row == [key |-> Attested[f].key, count |-> Attested[f].count, by |-> f]
        <3>1. row \in Enrolment
            BY AccessAssumption DEF Enrolment
        <3>2. challenge' = challenge /\ credential' \in {credential, Append(credential, row)}
            BY <2>3 DEF FinishEnd
        <3> HIDE DEF row
        <3> QED
            BY <3>1, <3>2 DEF EnrolmentTypes
    <2>4. ASSUME NEW f \in Finishes, FinishTake(f) \/ FinishFails(f)
          PROVE  EnrolmentTypes'
        BY <1>1, <2>4 DEF FinishTake, FinishFails
    <2>5. ASSUME NEW a \in Asserts, AssertCheck(a) \/ AssertRefused(a)
          PROVE  EnrolmentTypes'
        BY <1>1, <2>5 DEF AssertCheck, AssertRefused
    <2>6. ASSUME NEW a \in Asserts, AssertEnd(a)
          PROVE  EnrolmentTypes'
        BY <2>6, CountsWritten DEF EnrolmentTypes
    <2> QED
        BY <1>2, <2>1, <2>2, <2>3, <2>4, <2>5, <2>6 DEF AccessStep
<1>3. CASE VaultStep
    BY <1>1, <1>3, VaultLeavesAccess DEF accessVars
<1>4. CASE Killed
    BY <1>1, <1>4 DEF Killed
<1>5. CASE UNCHANGED <<busy, accessVars, vaultVars>>
    BY <1>1, <1>5 DEF accessVars
<1> QED
    BY <1>2, <1>3, <1>4, <1>5, ProcessStep

LEMMA ChallengeStep ==
    ASSUME KeyInv, BusyInv, BusyInv', ChallengeInv, [Next]_vars
    PROVE  ChallengeInv'
<1>1. /\ EnrolmentTypes /\ CallTypes /\ plan.threads \in Nat /\ SameBounds
      /\ busy = Inside /\ KeyTypes
    BY KeyStep DEF ChallengeInv, EnrolmentTypes, BusyInv, KeyInv, KeyTypes, IsScenario
<1>2. EnrolmentTypes'
    BY <1>1, EnrolmentStep
<1>3. \A c \in Ceremonies :
        /\ Enrolling(c) <= plan.threads
        /\ challenge[c] # "used" =>
             EnrolledBy(c) = {} /\ \A f \in Finishing(c) : finish[f] # "marked"
    BY DEF ChallengeInv, Enrolling
<1>4. SUFFICES ASSUME NEW c \in Ceremonies
               PROVE  /\ Enrolling(c)' <= plan'.threads
                      /\ challenge'[c] # "used" =>
                           /\ EnrolledBy(c)' = {}
                           /\ \A f \in Finishing(c)' : finish'[f] # "marked"
    BY <1>2 DEF ChallengeInv, EnrolmentTypes, Enrolling
<1>5. ASSUME EnrolledBy(c)' = EnrolledBy(c), challenge'[c] = challenge[c],
             \A f \in Finishing(c)' : f \in Finishing(c) /\ finish'[f] = finish[f]
      PROVE  /\ Enrolling(c)' <= plan'.threads
             /\ challenge'[c] # "used" =>
                  EnrolledBy(c)' = {} /\ \A f \in Finishing(c)' : finish'[f] # "marked"
    <2>1. Finishing(c)' \subseteq Finishing(c)
        BY <1>5
    <2>2. Enrolling(c)' <= plan'.threads
        BY <1>1, <1>3, <1>5, <2>1, EnrollingKept
    <2> QED
        BY <1>3, <1>5, <2>2
<1>6. ASSUME UNCHANGED <<challenge, credential, finish>>
      PROVE  /\ EnrolledBy(c)' = EnrolledBy(c) /\ challenge'[c] = challenge[c]
             /\ \A f \in Finishing(c)' : f \in Finishing(c) /\ finish'[f] = finish[f]
    BY <1>6 DEF EnrolledBy, Finishing, FinishesInside
<1>7. CASE AccessStep /\ UNCHANGED <<vaultVars, keyVars>>
    <2>1. ASSUME NEW d \in Ceremonies, Begin(d)
          PROVE  /\ EnrolledBy(c)' = EnrolledBy(c) /\ Finishing(c)' = Finishing(c)
                 /\ UNCHANGED finish /\ (challenge'[c] # "used" => challenge[c] # "used")
        BY <1>1, <2>1 DEF Begin, store_challenge, EnrolmentTypes, EnrolledBy, Finishing,
                          FinishesInside
    <2>2. ASSUME NEW d \in Ceremonies, Begin(d)
          PROVE  /\ Enrolling(c)' <= plan'.threads
                 /\ challenge'[c] # "used" =>
                      EnrolledBy(c)' = {} /\ \A f \in Finishing(c)' : finish'[f] # "marked"
        <3>1. Enrolling(c)' <= plan'.threads
            BY <1>1, <1>3, <2>1, <2>2, EnrollingKept
        <3> QED
            BY <1>3, <2>1, <2>2, <3>1
    <2>3. ASSUME NEW f \in Finishes, FinishTake(f)
          PROVE  /\ Enrolling(c)' <= plan'.threads
                 /\ challenge'[c] # "used" =>
                      EnrolledBy(c)' = {} /\ \A g \in Finishing(c)' : finish'[g] # "marked"
        <3>1. /\ UNCHANGED <<challenge, credential>>
              /\ finish' = [finish EXCEPT ![f] = "taken"] \/ finish' = [finish EXCEPT ![f] = "401"]
              /\ finish'[f] = "taken" => challenge[Attested[f].ceremony] = "open"
            BY <1>1, <2>3 DEF FinishTake, CallTypes
        <3>2. EnrolledBy(c)' = EnrolledBy(c)
            BY <3>1 DEF EnrolledBy
        <3>3. CASE finish'[f] = "taken" /\ Attested[f].ceremony = c
            <4>1. EnrolledBy(c)' = {}
                BY <1>3, <3>1, <3>2, <3>3
            <4>2. Finishing(c)' \subseteq busy'
                BY DEF BusyInv, Inside, Finishing
            <4>3. /\ IsFiniteSet(Finishing(c)')
                  /\ Cardinality(Finishing(c)') <= Cardinality(busy')
                  /\ Cardinality(Finishing(c)') \in Nat /\ Cardinality(busy') \in Nat
                BY <4>2, FS_Subset, FS_CardinalityType DEF BusyInv
            <4>4. Enrolling(c)' = Cardinality(Finishing(c)')
                BY <4>1, <4>3, FS_EmptySet DEF Enrolling
            <4>5. Enrolling(c)' <= plan'.threads
                BY <1>1, <4>3, <4>4 DEF BusyInv, SameBounds
            <4>6. \A g \in Finishing(c)' : finish'[g] # "marked"
                BY <1>1, <1>3, <3>1, <3>3 DEF CallTypes, Finishing, FinishesInside
            <4> QED
                BY <4>1, <4>5, <4>6
        <3>4. CASE ~(finish'[f] = "taken" /\ Attested[f].ceremony = c)
            <4>1. \A g \in Finishing(c)' : g \in Finishing(c) /\ finish'[g] = finish[g]
                BY <1>1, <3>1, <3>4 DEF CallTypes, Finishing, FinishesInside
            <4> QED
                BY <1>5, <3>1, <3>2, <4>1
        <3> QED
            BY <3>3, <3>4
    <2>4. ASSUME NEW f \in Finishes, FinishMark(f)
          PROVE  /\ Enrolling(c)' <= plan'.threads
                 /\ challenge'[c] # "used" =>
                      EnrolledBy(c)' = {} /\ \A g \in Finishing(c)' : finish'[g] # "marked"
        <3>1. /\ challenge' = [challenge EXCEPT ![Attested[f].ceremony] = "used"]
              /\ finish' = [finish EXCEPT ![f] = "marked"] /\ finish[f] = "taken"
              /\ credential' = credential
            BY <2>4 DEF FinishMark
        <3>2. EnrolledBy(c)' = EnrolledBy(c)
            BY <3>1 DEF EnrolledBy
        <3>3. Finishing(c)' = Finishing(c)
            BY <1>1, <3>1 DEF CallTypes, Finishing, FinishesInside
        <3>4. Enrolling(c)' <= plan'.threads
            BY <1>1, <1>3, <3>2, <3>3, EnrollingKept
        <3>5. ASSUME challenge'[c] # "used"
              PROVE  challenge[c] # "used" /\ Attested[f].ceremony # c
            BY <1>1, <3>1, <3>5 DEF EnrolmentTypes
        <3>6. ASSUME challenge'[c] # "used", NEW g \in Finishing(c)'
              PROVE  finish'[g] # "marked"
            BY <1>1, <1>3, <3>1, <3>3, <3>5, <3>6 DEF CallTypes, Finishing, FinishesInside
        <3> QED
            BY <1>3, <3>2, <3>4, <3>5, <3>6
    <2>5. ASSUME NEW f \in Finishes, FinishEnd(f)
          PROVE  /\ Enrolling(c)' <= plan'.threads
                 /\ challenge'[c] # "used" =>
                      EnrolledBy(c)' = {} /\ \A g \in Finishing(c)' : finish'[g] # "marked"
        <3>1. /\ finish[f] = "marked" /\ finish' = [finish EXCEPT ![f] = Verdict(f)]
              /\ Verdict(f) \in {"ok", "400", "401"} /\ challenge' = challenge
            BY <2>5 DEF FinishEnd, Verdict
        <3>2. \A g \in Finishing(c)' : g \in Finishing(c) \ {f} /\ finish'[g] = finish[g]
            BY <1>1, <3>1 DEF CallTypes, Finishing, FinishesInside
        <3>3. \/ credential' = credential
              \/ \E row \in Enrolment : row.by = f /\ credential' = Append(credential, row)
            <4> DEFINE row == [key |-> Attested[f].key, count |-> Attested[f].count, by |-> f]
            <4>1. row \in Enrolment /\ row.by = f
                BY AccessAssumption DEF Enrolment
            <4>2. credential' = credential \/ credential' = Append(credential, row)
                BY <2>5 DEF FinishEnd
            <4> HIDE DEF row
            <4> QED
                BY <4>1, <4>2
        <3>4. CASE credential' = credential
            <4>1. EnrolledBy(c)' = EnrolledBy(c)
                BY <3>4 DEF EnrolledBy
            <4> QED
                BY <1>5, <3>1, <3>2, <4>1
        <3>5. ASSUME NEW row \in Enrolment, row.by = f, credential' = Append(credential, row)
              PROVE  /\ Enrolling(c)' <= plan'.threads
                     /\ challenge'[c] # "used" =>
                          EnrolledBy(c)' = {} /\ \A g \in Finishing(c)' : finish'[g] # "marked"
            <4> DEFINE n == Len(credential) + 1
            <4>1. /\ DOMAIN credential' = DOMAIN credential \cup {n} /\ credential'[n] = row
                  /\ \A i \in DOMAIN credential : credential'[i] = credential[i]
                  /\ n \notin DOMAIN credential
                BY <1>1, <3>5 DEF EnrolmentTypes
            <4>2. CASE Attested[f].ceremony # c
                <5>1. EnrolledBy(c)' = EnrolledBy(c)
                    BY <3>5, <4>1, <4>2 DEF EnrolledBy
                <5> QED
                    BY <1>5, <3>1, <3>2, <5>1
            <4>3. CASE Attested[f].ceremony = c
                <5>1. f \in Finishing(c) /\ challenge[c] = "used"
                    BY <1>3, <3>1, <4>3 DEF Finishing, FinishesInside
                <5>2. EnrolledBy(c)' = EnrolledBy(c) \cup {n} /\ n \notin EnrolledBy(c)
                    BY <3>5, <4>1, <4>3 DEF EnrolledBy
                <5>3. /\ IsFiniteSet(EnrolledBy(c)) /\ IsFiniteSet(Finishing(c))
                      /\ Cardinality(EnrolledBy(c)) \in Nat /\ Cardinality(Finishing(c)) \in Nat
                    BY <1>1, EnrollingIsFinite
                <5>4. Cardinality(EnrolledBy(c)') = Cardinality(EnrolledBy(c)) + 1
                    BY <5>2, <5>3, FS_AddElement
                <5>5. /\ IsFiniteSet(Finishing(c) \ {f})
                      /\ Cardinality(Finishing(c) \ {f}) = Cardinality(Finishing(c)) - 1
                    BY <5>1, <5>3, FS_RemoveElement
                <5>6. Finishing(c)' \in SUBSET (Finishing(c) \ {f})
                    BY <3>2
                <5>7. /\ IsFiniteSet(Finishing(c)')
                      /\ Cardinality(Finishing(c)') <= Cardinality(Finishing(c) \ {f})
                    BY <5>5, <5>6, FS_Subset
                <5>8. Cardinality(Finishing(c)') \in Nat
                    BY <5>7, FS_CardinalityType
                <5>9. Enrolling(c)' <= plan'.threads
                    BY <1>1, <1>3, <5>3, <5>4, <5>5, <5>7, <5>8 DEF Enrolling, SameBounds
                <5> QED
                    BY <3>1, <5>1, <5>9
            <4> QED
                BY <4>2, <4>3
        <3> QED
            BY <3>3, <3>4, <3>5
    <2>6. ASSUME NEW f \in Finishes, FinishFails(f)
          PROVE  /\ EnrolledBy(c)' = EnrolledBy(c) /\ challenge'[c] = challenge[c]
                 /\ \A g \in Finishing(c)' : g \in Finishing(c) /\ finish'[g] = finish[g]
        BY <1>1, <2>6 DEF FinishFails, CallTypes, Finishing, FinishesInside, EnrolledBy
    <2>7. ASSUME NEW a \in Asserts, AssertCheck(a) \/ AssertRefused(a)
          PROVE  UNCHANGED <<challenge, credential, finish>>
        BY <2>7 DEF AssertCheck, AssertRefused
    <2>8. ASSUME NEW a \in Asserts, AssertEnd(a)
          PROVE  /\ EnrolledBy(c)' = EnrolledBy(c) /\ challenge'[c] = challenge[c]
                 /\ \A g \in Finishing(c)' : g \in Finishing(c) /\ finish'[g] = finish[g]
        <3>1. UNCHANGED <<challenge, finish>>
            BY <2>8 DEF AssertEnd
        <3>2. EnrolledBy(c)' = EnrolledBy(c)
            BY <1>1, <2>8, CountsWritten DEF EnrolmentTypes, EnrolledBy
        <3> QED
            BY <3>1, <3>2 DEF Finishing, FinishesInside
    <2> QED
        BY <1>5, <1>6, <1>7, <2>2, <2>3, <2>4, <2>5, <2>6, <2>7, <2>8 DEF AccessStep
<1>8. CASE VaultStep
    BY <1>5, <1>6, <1>8, VaultLeavesAccess DEF accessVars
<1>9. CASE Killed
    <2>1. UNCHANGED <<challenge, credential>>
        BY <1>9 DEF Killed
    <2>2. FinishesInside' = {}
        BY <1>1, <1>9, KilledCalls DEF Inside
    <2>3. Finishing(c)' = {} /\ EnrolledBy(c)' = EnrolledBy(c)
        BY <2>1, <2>2 DEF Finishing, EnrolledBy
    <2> QED
        BY <1>5, <2>1, <2>3
<1>10. CASE UNCHANGED <<busy, accessVars, vaultVars>>
    BY <1>5, <1>6, <1>10 DEF accessVars
<1> QED
    BY <1>7, <1>8, <1>9, <1>10, ProcessStep

LEMMA ChallengeInit == Init => ChallengeInv
<1> SUFFICES ASSUME Init
             PROVE  ChallengeInv
    OBVIOUS
<1>1. /\ challenge = [c \in Ceremonies |-> Due(c)] /\ credential = <<>>
      /\ finish = [f \in Finishes |-> Due(f)]
    BY DEF Init, AccessInit
<1>2. EnrolmentTypes
    BY <1>1 DEF EnrolmentTypes, CeremonyPlaces, Due
<1>3. \A f \in Finishes : finish[f] \in {"new", "absent"}
    BY <1>1 DEF Due
<1>4. \A c \in Ceremonies : EnrolledBy(c) = {} /\ Finishing(c) = {}
    BY <1>1, <1>3, NoIndex DEF EnrolledBy, Finishing, FinishesInside
<1>5. plan.threads \in Nat
    BY KeyInitKeeps DEF Init, KeyInv, KeyTypes, IsScenario
<1>6. Cardinality({}) + Cardinality({}) <= plan.threads
    BY <1>5, FS_EmptySet
<1>7. ASSUME NEW c \in Ceremonies
      PROVE  /\ Cardinality(EnrolledBy(c)) + Cardinality(Finishing(c)) <= plan.threads
             /\ EnrolledBy(c) = {} /\ \A f \in Finishing(c) : finish[f] # "marked"
    <2>1. Cardinality(EnrolledBy(c)) + Cardinality(Finishing(c)) <= plan.threads
        BY <1>4, <1>6, Zenon
    <2> QED
        BY <1>4, <2>1
<1> QED
    BY <1>2, <1>7 DEF ChallengeInv, EnrolmentTypes

\* A challenge enrols no more credentials than there are worker threads, whatever calls
\* overlap, fail or are killed (take_challenge_by_id; store_credential_from_attestation).
THEOREM ChallengesAreSpent == Spec => []ChallengeUse
<1> DEFINE Inv == KeyInv /\ BusyInv /\ ChallengeInv
<1>1. Init => Inv
    BY KeyInitKeeps, BusyInit, ChallengeInit DEF Init
<1>2. Inv /\ [Next]_vars => Inv'
    BY KeyStep, BusyStep, ChallengeStep
<1>3. Inv => ChallengeUse
    <2> SUFFICES ASSUME Inv, NEW c \in Ceremonies
                 PROVE  Cardinality(EnrolledBy(c)) <= plan.threads
        BY DEF ChallengeUse, EnrolledBy
    <2>1. EnrolmentTypes /\ plan.threads \in Nat
        BY DEF ChallengeInv, EnrolmentTypes, KeyInv, KeyTypes, IsScenario
    <2>2. Cardinality(EnrolledBy(c)) \in Nat /\ Cardinality(Finishing(c)) \in Nat
        BY <2>1, EnrollingIsFinite
    <2>3. Cardinality(EnrolledBy(c)) + Cardinality(Finishing(c)) <= plan.threads
        BY DEF ChallengeInv
    <2> QED
        BY <2>1, <2>2, <2>3
<1> QED
    BY <1>1, <1>2, <1>3, PTL DEF Spec
-----------------------------------------------------------------------------
(* Counters of assertions.                                                  *)

LEMMA OneThread ==
    ASSUME BusyInv, plan.threads = 1, NEW x \in busy, NEW y \in busy
    PROVE  x = y
<1> SUFFICES ASSUME x # y
             PROVE  FALSE
    OBVIOUS
<1>1. IsFiniteSet({x}) /\ Cardinality({x}) = 1
    BY FS_Singleton
<1>2. Cardinality({x} \cup {y}) = 2
    BY <1>1, FS_AddElement
<1>3. Cardinality({x} \cup {y}) <= Cardinality(busy) /\ Cardinality(busy) \in Nat
    BY FS_Subset, FS_CardinalityType DEF BusyInv
<1> QED
    BY <1>2, <1>3 DEF BusyInv

FirstRow(key) == CHOOSE i \in Rows(key) : \A j \in Rows(key) : i <= j

LEMMA FirstRowIs ==
    ASSUME EnrolmentTypes, NEW key, Rows(key) # {}
    PROVE  /\ FirstRow(key) \in Rows(key) /\ \A j \in Rows(key) : FirstRow(key) <= j
           /\ StoredCount(key) = credential[FirstRow(key)].count
<1>1. DOMAIN credential = 1 .. Len(credential) /\ Len(credential) \in Nat
    BY DEF EnrolmentTypes
<1>2. Rows(key) \in SUBSET Nat
    BY <1>1 DEF Rows
<1>3. \E i \in Rows(key) : \A j \in Rows(key) : i <= j
    BY <1>2, MinIsLeast
<1>4. FirstRow(key) \in Rows(key) /\ \A j \in Rows(key) : FirstRow(key) <= j
    BY <1>3, Zenon DEF FirstRow
<1> QED
    BY <1>4, Zenon DEF StoredCount, FirstRow

\* Rows are added at the end.
LEMMA FirstRowStays ==
    ASSUME EnrolmentTypes, NEW row, credential' = Append(credential, row), NEW key,
           Rows(key) # {}
    PROVE  Rows(key)' # {} /\ StoredCount(key)' = StoredCount(key)
<1> DEFINE n == Len(credential) + 1
<1>1. /\ DOMAIN credential' = DOMAIN credential \cup {n} /\ credential'[n] = row
      /\ \A i \in DOMAIN credential : credential'[i] = credential[i] /\ i < n /\ i \in Nat
      /\ n \notin DOMAIN credential /\ n \in Nat
    BY DEF EnrolmentTypes
<1>2. Rows(key) \subseteq Rows(key)' /\ \A i \in Rows(key)' : i \in Rows(key) \/ i = n
    BY <1>1 DEF Rows
<1>3. /\ FirstRow(key) \in Rows(key) /\ \A j \in Rows(key) : FirstRow(key) <= j
      /\ StoredCount(key) = credential[FirstRow(key)].count
    BY FirstRowIs
<1>4. \A j \in Rows(key)' : FirstRow(key) <= j /\ j \in Nat
    BY <1>1, <1>2, <1>3 DEF Rows
<1>5. ASSUME NEW i \in Rows(key)', \A j \in Rows(key)' : i <= j
      PROVE  i = FirstRow(key)
    BY <1>2, <1>3, <1>4, <1>5
<1>6. FirstRow(key) \in Rows(key)' /\ \A j \in Rows(key)' : FirstRow(key) <= j
    BY <1>2, <1>3, <1>4
<1>7. (CHOOSE i \in Rows(key)' : \A j \in Rows(key)' : i <= j) = FirstRow(key)
    <2> DEFINE i == CHOOSE i \in Rows(key)' : \A j \in Rows(key)' : i <= j
    <2>1. i \in Rows(key)' /\ \A j \in Rows(key)' : i <= j
        BY <1>6, Zenon
    <2> HIDE DEF i
    <2>2. i = FirstRow(key)
        BY <1>5, <2>1
    <2> QED
        BY <2>2 DEF i
<1>8. StoredCount(key)' = credential'[FirstRow(key)].count
    BY <1>7, Zenon DEF StoredCount
<1>9. FirstRow(key) \in DOMAIN credential
    BY <1>3 DEF Rows
<1> QED
    BY <1>1, <1>2, <1>3, <1>8, <1>9

CountedBy(key) ==
    \A i \in DOMAIN accepted :
        IsNewestOf(i, key) => Rows(key) # {} /\ StoredCount(key) = Asserted[accepted[i]].count

Passes(a) ==
    \/ Rows(Asserted[a].key) = {}
    \/ counter_is_valid(StoredCount(Asserted[a].key), Asserted[a].count)

LEMMA CountInvIs ==
    CountInv <=>
        /\ accepted \in Seq(Asserts)
        /\ plan.threads = 1 /\ ~plan.faults =>
             /\ CountersIncrease
             /\ \A key \in {Asserted[a].key : a \in Asserts} : CountedBy(key)
             /\ \A a \in Asserts : assert[a] = "checked" => Passes(a)
BY DEF CountInv, CountedBy, Passes

\* Accepting an assertion writes its count into the first row of its key, and into that
\* of no other.
LEMMA CountAccepted ==
    ASSUME EnrolmentTypes, ~plan.faults, NEW a \in Asserts, AssertEnd(a)
    PROVE  /\ \A key : Rows(key)' = Rows(key)
           /\ Rows(Asserted[a].key) # {}
           /\ StoredCount(Asserted[a].key)' = Asserted[a].count
           /\ \A key : key # Asserted[a].key /\ Rows(key) # {} => StoredCount(key)' = StoredCount(key)
<1>1. /\ DOMAIN credential' = DOMAIN credential
      /\ \A i \in DOMAIN credential : credential'[i].key = credential[i].key
      /\ \A i \in DOMAIN credential :
           credential'[i].count = IF i \in Rows(Asserted[a].key) THEN Asserted[a].count
                                  ELSE credential[i].count
    BY CountsWritten
<1>2. ASSUME NEW key
      PROVE  Rows(key)' = Rows(key)
    BY <1>1 DEF Rows
<1>3. Rows(Asserted[a].key) # {}
    BY DEF AssertEnd, Genuine
<1>4. ASSUME NEW key, Rows(key) # {}
      PROVE  /\ StoredCount(key)' = credential'[FirstRow(key)].count
             /\ StoredCount(key) = credential[FirstRow(key)].count
             /\ FirstRow(key) \in Rows(key) /\ FirstRow(key) \in DOMAIN credential
    <2>1. StoredCount(key)' = credential'[FirstRow(key)].count
        BY <1>2, Zenon DEF StoredCount, FirstRow
    <2>2. FirstRow(key) \in Rows(key) /\ StoredCount(key) = credential[FirstRow(key)].count
        BY <1>4, FirstRowIs
    <2> QED
        BY <2>1, <2>2 DEF Rows
<1>5. StoredCount(Asserted[a].key)' = Asserted[a].count
    BY <1>1, <1>3, <1>4
<1>6. ASSUME NEW key, key # Asserted[a].key, Rows(key) # {}
      PROVE  StoredCount(key)' = StoredCount(key)
    <2>1. FirstRow(key) \notin Rows(Asserted[a].key)
        BY <1>4, <1>6 DEF Rows
    <2> QED
        BY <1>1, <1>4, <1>6, <2>1
<1> QED
    BY <1>2, <1>3, <1>5, <1>6

LEMMA CountStep ==
    ASSUME KeyInv, BusyInv, EnrolmentTypes, CountInv, [Next]_vars
    PROVE  CountInv'
<1>1. /\ CallTypes /\ SameBounds /\ busy = Inside /\ KeyTypes
    BY KeyStep DEF BusyInv, KeyInv
<1>2. /\ accepted \in Seq(Asserts)
      /\ plan.threads = 1 /\ ~plan.faults =>
           /\ CountersIncrease
           /\ \A key \in {Asserted[a].key : a \in Asserts} : CountedBy(key)
           /\ \A a \in Asserts : assert[a] = "checked" => Passes(a)
    BY CountInvIs
<1>3. ASSUME UNCHANGED <<credential, accepted>>,
             plan.threads = 1 /\ ~plan.faults =>
               \A a \in Asserts : assert'[a] = "checked" => assert[a] = "checked" \/ Passes(a)
      PROVE  CountInv'
    <2>1. CountersIncrease => CountersIncrease'
        BY <1>1, <1>3 DEF CountersIncrease, SameBounds
    <2>2. \A key : CountedBy(key)' <=> CountedBy(key)
        BY <1>3 DEF CountedBy, IsNewestOf, Rows, StoredCount
    <2>3. \A a : Passes(a)' <=> Passes(a)
        BY <1>3 DEF Passes, Rows, StoredCount
    <2> QED
        BY <1>1, <1>2, <1>3, <2>1, <2>2, <2>3, CountInvIs DEF CountInv, CountedBy, Passes, SameBounds
<1>4. CASE AccessStep /\ UNCHANGED <<vaultVars, keyVars>>
    <2>1. ASSUME NEW f \in Finishes, FinishTake(f) \/ FinishMark(f) \/ FinishFails(f)
          PROVE  CountInv'
        BY <1>3, <2>1 DEF FinishTake, FinishMark, FinishFails
    <2>2. ASSUME NEW c \in Ceremonies, Begin(c)
          PROVE  CountInv'
        BY <1>3, <2>2 DEF Begin
    <2>3. ASSUME NEW a \in Asserts, AssertCheck(a)
          PROVE  CountInv'
        <3>1. UNCHANGED <<credential, accepted>>
            BY <2>3 DEF AssertCheck
        <3>2. ASSUME ~plan.faults, NEW b \in Asserts, assert'[b] = "checked"
              PROVE  assert[b] = "checked" \/ Passes(b)
            BY <1>1, <2>3, <3>2 DEF AssertCheck, Passes, CallTypes
        <3> QED
            BY <1>3, <3>1, <3>2
    <2>4. ASSUME NEW a \in Asserts, AssertRefused(a)
          PROVE  CountInv'
        <3>1. UNCHANGED <<credential, accepted>>
            BY <2>4 DEF AssertRefused
        <3>2. ASSUME NEW b \in Asserts, assert'[b] = "checked"
              PROVE  assert[b] = "checked"
            BY <1>1, <2>4, <3>2 DEF AssertRefused, CallTypes
        <3> QED
            BY <1>3, <3>1, <3>2
    <2>5. ASSUME NEW f \in Finishes, FinishEnd(f)
          PROVE  CountInv'
        <3>1. UNCHANGED <<accepted, assert, plan>>
            BY <2>5 DEF FinishEnd
        <3>2. credential' = credential \/ \E row : credential' = Append(credential, row)
            BY <2>5 DEF FinishEnd
        <3>3. CASE credential' = credential
            BY <1>3, <3>1, <3>3
        <3>4. ASSUME NEW row, credential' = Append(credential, row)
              PROVE  CountInv'
            <4>1. CountersIncrease => CountersIncrease'
                BY <3>1 DEF CountersIncrease
            <4>2. ASSUME NEW key, CountedBy(key)
                  PROVE  CountedBy(key)'
                <5>1. Rows(key) # {} => Rows(key)' # {} /\ StoredCount(key)' = StoredCount(key)
                    BY <3>4, FirstRowStays
                <5> QED
                    BY <3>1, <4>2, <5>1 DEF CountedBy, IsNewestOf
            <4>3. ASSUME plan.threads = 1, NEW a \in Asserts, assert[a] = "checked"
                  PROVE  FALSE
                <5>1. a \in busy /\ f \in busy
                    BY <1>1, <2>5, <4>3, InsideIs DEF FinishEnd
                <5> QED
                    BY <4>3, <5>1, OneThread, AccessAssumption
            <4> QED
                BY <1>2, <3>1, <4>1, <4>2, <4>3 DEF CountInv, CountedBy
        <3> QED
            BY <3>2, <3>3, <3>4
    <2>6. ASSUME NEW a \in Asserts, AssertEnd(a)
          PROVE  CountInv'
        <3> DEFINE n == Len(accepted) + 1
        <3>1. /\ accepted' = Append(accepted, a) /\ plan' = plan /\ assert[a] = "checked"
              /\ assert' = [assert EXCEPT ![a] = "accepted"]
            BY <2>6 DEF AssertEnd
        <3>2. /\ accepted' \in Seq(Asserts) /\ DOMAIN accepted' = DOMAIN accepted \cup {n}
              /\ Len(accepted') = n /\ n \in Nat /\ accepted'[n] = a
              /\ \A i \in DOMAIN accepted : accepted'[i] = accepted[i] /\ i < n /\ i \in Nat
              /\ DOMAIN accepted = 1 .. n - 1 /\ Len(accepted) = n - 1
            BY <1>2, <3>1
        <3> SUFFICES ASSUME plan.threads = 1, ~plan.faults
                     PROVE  /\ CountersIncrease'
                            /\ \A key \in {Asserted[b].key : b \in Asserts} : CountedBy(key)'
                            /\ \A b \in Asserts : assert'[b] # "checked"
            BY <3>1, <3>2 DEF CountInv, CountedBy
        <3>3. /\ \A key : Rows(key)' = Rows(key)
              /\ Rows(Asserted[a].key) # {}
              /\ StoredCount(Asserted[a].key)' = Asserted[a].count
              /\ \A key : key # Asserted[a].key /\ Rows(key) # {} => StoredCount(key)' = StoredCount(key)
            BY <2>6, CountAccepted
        <3>4. \A b \in Asserts : assert'[b] # "checked"
            <4> SUFFICES ASSUME NEW b \in Asserts, assert'[b] = "checked"
                         PROVE  FALSE
                OBVIOUS
            <4>1. b # a /\ assert[b] = "checked"
                BY <1>1, <3>1 DEF CallTypes
            <4>2. a \in busy /\ b \in busy
                BY <1>1, <3>1, <4>1, InsideIs
            <4> QED
                BY <4>1, <4>2, OneThread
        <3>5. ASSUME NEW key \in {Asserted[b].key : b \in Asserts}
              PROVE  CountedBy(key)'
            <4> SUFFICES ASSUME NEW i \in DOMAIN accepted', IsNewestOf(i, key)'
                         PROVE  Rows(key)' # {} /\ StoredCount(key)' = Asserted[accepted'[i]].count
                BY DEF CountedBy
            <4>1. CASE i = n
                BY <3>2, <3>3, <4>1 DEF IsNewestOf
            <4>2. CASE i \in DOMAIN accepted
                <5>1. n \in (i + 1)..Len(accepted')
                    BY <3>2, <4>2
                <5>2. key # Asserted[a].key
                    BY <3>2, <5>1 DEF IsNewestOf
                <5>3. IsNewestOf(i, key)
                    BY <3>2, <4>2 DEF IsNewestOf
                <5>4. Rows(key) # {} /\ StoredCount(key) = Asserted[accepted[i]].count
                    BY <1>2, <4>2, <5>3 DEF CountedBy
                <5> QED
                    BY <3>2, <3>3, <4>2, <5>2, <5>4
            <4> QED
                BY <3>2, <4>1, <4>2
        <3>6. ASSUME NEW i \in DOMAIN accepted, Asserted[accepted[i]].key = Asserted[a].key,
                     Asserted[a].count # 0,
                     \A k \in (i + 1)..(n - 1) : Asserted[accepted'[k]].key # Asserted[a].key
              PROVE  Asserted[accepted[i]].count < Asserted[a].count
            <4>1. IsNewestOf(i, Asserted[a].key)
                BY <3>2, <3>6 DEF IsNewestOf
            <4>2. StoredCount(Asserted[a].key) = Asserted[accepted[i]].count
                BY <1>2, <3>6, <4>1 DEF CountedBy
            <4>3. counter_is_valid(StoredCount(Asserted[a].key), Asserted[a].count)
                BY <1>2, <3>1, <3>3 DEF Passes
            <4>4. Asserted[a].count \in Nat /\ Asserted[accepted[i]].count \in Nat
                BY <1>2, <3>2, AccessAssumption
            <4> QED
                BY <3>6, <4>2, <4>3, <4>4 DEF counter_is_valid
        <3>7. CountersIncrease'
            <4> SUFFICES ASSUME NEW i \in DOMAIN accepted', NEW j \in DOMAIN accepted', i < j,
                                Asserted[accepted'[i]].key = Asserted[accepted'[j]].key,
                                Asserted[accepted'[j]].count # 0,
                                \A k \in (i + 1)..(j - 1) :
                                  Asserted[accepted'[k]].key # Asserted[accepted'[i]].key
                         PROVE  Asserted[accepted'[i]].count < Asserted[accepted'[j]].count
                BY DEF CountersIncrease
            <4>1. i \in DOMAIN accepted
                BY <3>2
            <4>2. CASE j = n
                BY <3>2, <3>6, <4>1, <4>2
            <4>3. CASE j \in DOMAIN accepted
                <5>1. \A k \in (i + 1)..(j - 1) : k \in DOMAIN accepted /\ accepted'[k] = accepted[k]
                    BY <3>2, <4>1, <4>3
                <5>2. CountersIncrease
                    BY <1>2
                <5> QED
                    BY <3>2, <4>1, <4>3, <5>1, <5>2 DEF CountersIncrease
            <4> QED
                BY <3>2, <4>2, <4>3
        <3> QED
            BY <3>4, <3>5, <3>7
    <2> QED
        BY <1>4, <2>1, <2>2, <2>3, <2>4, <2>5, <2>6 DEF AccessStep
<1>5. CASE VaultStep
    BY <1>3, <1>5, VaultLeavesAccess DEF accessVars
<1>6. CASE Killed
    <2>1. UNCHANGED <<credential, accepted>>
        BY <1>6 DEF Killed
    <2>2. \A a \in Asserts : assert'[a] \in {"lost", assert[a]}
        BY <1>1, <1>6, KilledCalls
    <2> QED
        BY <1>3, <2>1, <2>2
<1>7. CASE UNCHANGED <<busy, accessVars, vaultVars>>
    BY <1>3, <1>7 DEF accessVars
<1> QED
    BY <1>4, <1>5, <1>6, <1>7, ProcessStep

LEMMA CountInit == Init => CountInv
<1> SUFFICES ASSUME Init
             PROVE  CountInv
    OBVIOUS
<1>1. accepted = <<>> /\ assert = [a \in Asserts |-> Due(a)]
    BY DEF Init, AccessInit
<1>2. \A a \in Asserts : assert[a] # "checked"
    BY <1>1 DEF Due
<1>3. CountersIncrease
    BY <1>1, NoIndex DEF CountersIncrease
<1> QED
    BY <1>1, <1>2, <1>3, NoIndex DEF CountInv

\* With one worker thread and no failing statement, the counter of an authenticator that
\* has one goes up with each assertion accepted (load_credential_counter,
\* counter_is_valid, update_credential_counter).
THEOREM CountersGoUp == Spec => []CountersIncrease
<1> DEFINE Inv == KeyInv /\ BusyInv /\ EnrolmentTypes /\ CountInv
<1>1. Init => Inv
    BY KeyInitKeeps, BusyInit, ChallengeInit, CountInit DEF Init, ChallengeInv, EnrolmentTypes
<1>2. Inv /\ [Next]_vars => Inv'
    BY KeyStep, BusyStep, EnrolmentStep, CountStep
<1>3. Inv => CountersIncrease
    BY DEF CountInv, CountersIncrease
<1> QED
    BY <1>1, <1>2, <1>3, PTL DEF Spec
-----------------------------------------------------------------------------
(* Entries of the log.                                                      *)

\* What a step may do to a call that it does not log.
QuietAsk(s) ==
    \/ ask'[s].at = ask[s].at
    \/ /\ ask[s].at # "ok"
       /\ ask'[s].at = "ok" => Asked[s].op \notin {"get", "agent"}
       /\ ask'[s].at = "rotating" => Asked[s].op = "rotate"

QuietCmd(c) ==
    \/ /\ cmd'[c] = cmd[c]
       /\ Enough /\ cmd[c].at \in {"post", "ran", "logged", "ok"} => pod'[c] = pod[c]
    \/ cmd'[c].at = "lost"
    \/ /\ cmd[c].at \notin {"ran", "logged", "ok", "502", "lost"}
       /\ cmd'[c].at \notin {"logged", "ok"}
       /\ Enough /\ cmd'[c].at \in {"post", "ran"} =>
            pod'[c] = [at |-> "ended", code |-> cmd'[c].code]

LEMMA QuietKeeps ==
    ASSUME CallTypes, SameBounds, LogInv, UNCHANGED entries,
           hub' \subseteq Commands,
           \A c \in hub' : c \in hub \/ cmd'[c].at \in {"ran", "502"},
           \A s \in Secrets : QuietAsk(s), \A c \in Commands : QuietCmd(c)
    PROVE  LogInv'
<1>1. Enough' <=> Enough
    BY DEF Enough, SameBounds
<1>2. \A c \in hub' : HubFine(c)'
    BY DEF LogInv, HubFine, QuietCmd
<1>3. ASSUME NEW i \in DOMAIN entries
      PROVE  EntryFine(i)'
    BY DEF LogInv, EntryFine, QuietAsk, QuietCmd
<1>4. \A s \in Secrets : ask'[s].at = "rotating" => Asked[s].op = "rotate"
    BY DEF LogInv, QuietAsk
<1>5. \A x : LoggedBy(x)' = LoggedBy(x)
    BY DEF LoggedBy
<1>6. ASSUME Enough, NEW s \in Secrets
      PROVE  AskFine(s)'
    BY <1>5, <1>6 DEF LogInv, AskFine, QuietAsk
<1>7. ASSUME Enough, NEW c \in Commands
      PROVE  CmdFine(c)'
    <2>1. CmdFine(c)
        BY <1>7 DEF LogInv
    <2>2. CASE cmd'[c] = cmd[c] /\ (cmd[c].at \in {"post", "ran", "logged", "ok"} => pod'[c] = pod[c])
        BY <1>5, <2>1, <2>2 DEF CmdFine, PodEnded, SameBounds
    <2>3. CASE cmd'[c].at = "lost"
        BY <2>3 DEF CmdFine
    <2>4. CASE /\ cmd'[c].at \notin {"logged", "ok"}
               /\ cmd'[c].at \in {"post", "ran"} => pod'[c] = [at |-> "ended", code |-> cmd'[c].code]
        BY <2>4 DEF CmdFine, PodEnded
    <2> QED
        BY <1>7, <2>2, <2>3, <2>4 DEF QuietCmd
<1> QED
    BY <1>1, <1>2, <1>3, <1>4, <1>6, <1>7 DEF LogInv

\* The connections that are held are those of calls inside a handler.
LEMMA ConnectionsLeft ==
    ASSUME BusyInv, KeyTypes, Enough
    PROVE  Free > 0
<1>1. Holding \subseteq busy
    BY DEF BusyInv, Holding, Inside, AsksInside
<1>2. /\ Cardinality(Holding) <= Cardinality(busy)
      /\ Cardinality(Holding) \in Nat /\ Cardinality(busy) \in Nat
    BY <1>1, FS_Subset, FS_CardinalityType DEF BusyInv
<1>3. plan.pool \in Nat /\ plan.threads \in Nat
    BY DEF KeyTypes, IsScenario
<1> QED
    BY <1>2, <1>3 DEF BusyInv, Enough, Free

LEMMA EntryAdded ==
    ASSUME CallTypes, NEW entry, Log(entry)
    PROVE  LET n == Len(entries) + 1
           IN  /\ DOMAIN entries' = DOMAIN entries \cup {n} /\ Len(entries') = n
               /\ n \in Nat /\ entries'[n] = entry /\ n \notin DOMAIN entries
               /\ \A i \in DOMAIN entries : entries'[i] = entries[i] /\ i < n /\ i \in Nat
               /\ LoggedBy(entry.by)' = LoggedBy(entry.by) \cup {n}
               /\ \A x : x # entry.by => LoggedBy(x)' = LoggedBy(x)
<1> DEFINE n == Len(entries) + 1
<1>1. /\ DOMAIN entries' = DOMAIN entries \cup {n} /\ Len(entries') = n
      /\ n \in Nat /\ entries'[n] = entry /\ n \notin DOMAIN entries
      /\ \A i \in DOMAIN entries : entries'[i] = entries[i] /\ i < n /\ i \in Nat
    BY DEF CallTypes, Log
<1>2. LoggedBy(entry.by)' = LoggedBy(entry.by) \cup {n}
    BY <1>1 DEF LoggedBy
<1>3. \A x : x # entry.by => LoggedBy(x)' = LoggedBy(x)
    BY <1>1 DEF LoggedBy
<1> QED
    BY <1>1, <1>2, <1>3

\* The parts of the log's invariant that an entry of another call leaves as they are.
LEMMA OthersKeep ==
    ASSUME CallTypes, SameBounds, LogInv, NEW entry, Log(entry), UNCHANGED <<hub, pod>>
    PROVE  /\ \A i \in DOMAIN entries, s \in Secrets :
                 entries[i].by = s /\ ask'[s].at = ask[s].at => EntryFine(i)'
           /\ \A i \in DOMAIN entries, c \in Commands :
                 entries[i].by = c /\ cmd'[c] = cmd[c] => EntryFine(i)'
           /\ \A s \in Secrets : s # entry.by /\ AskFine(s) /\ ask'[s] = ask[s] => AskFine(s)'
           /\ \A c \in Commands :
                /\ c # entry.by /\ CmdFine(c) /\ cmd'[c] = cmd[c]
                /\ plan.threads # 1 \/ cmd[c].at # "logged"
                => CmdFine(c)'
<1> DEFINE n == Len(entries) + 1
<1>1. /\ DOMAIN entries' = DOMAIN entries \cup {n} /\ Len(entries') = n
      /\ n \in Nat /\ entries'[n] = entry
      /\ \A i \in DOMAIN entries : entries'[i] = entries[i] /\ i < n /\ i \in Nat
      /\ \A x : x # entry.by => LoggedBy(x)' = LoggedBy(x)
    BY EntryAdded
<1>2. \A i \in DOMAIN entries : EntryFine(i)
    BY DEF LogInv
<1>3. \A i \in DOMAIN entries, s \in Secrets :
        entries[i].by = s /\ ask'[s].at = ask[s].at => EntryFine(i)'
    BY <1>1, <1>2, VaultAssumption DEF EntryFine
<1>4. \A i \in DOMAIN entries, c \in Commands :
        entries[i].by = c /\ cmd'[c] = cmd[c] => EntryFine(i)'
    BY <1>1, <1>2, VaultAssumption DEF EntryFine
<1>5. \A s \in Secrets : s # entry.by /\ AskFine(s) /\ ask'[s] = ask[s] => AskFine(s)'
    BY <1>1 DEF AskFine
<1>6. ASSUME NEW c \in Commands, c # entry.by, CmdFine(c), cmd'[c] = cmd[c],
             plan.threads # 1 \/ cmd[c].at # "logged"
      PROVE  CmdFine(c)'
    <2>1. LoggedBy(c)' = LoggedBy(c) /\ plan'.threads = plan.threads /\ pod' = pod
        BY <1>1, <1>6 DEF SameBounds
    <2>2. cmd[c].seq \in DOMAIN entries => entries'[cmd[c].seq] = entries[cmd[c].seq]
        BY <1>1
    <2>3. \A i \in DOMAIN entries : i \in DOMAIN entries'
        BY <1>1
    <2> QED
        BY <1>6, <2>1, <2>2, <2>3 DEF CmdFine, PodEnded
<1> QED
    BY <1>3, <1>4, <1>5, <1>6
\* A call about credentials that hands none out.
LEMMA AsksAreQuiet ==
    ASSUME KeyTypes, CallTypes, SameBounds, LogInv, NEW s \in Secrets,
           Create(s) \/ GetRead(s) \/ AgentRead(s) \/ Denied(s) \/ Sealed(s)
           \/ RotateRead(s) \/ RotateWrite(s) \/ Delete(s)
    PROVE  LogInv'
<1>1. UNCHANGED <<cmd, pod, hub, entries>>
    BY DEF Create, GetRead, AgentRead, Denied, Sealed, RotateRead, RotateWrite, Delete
<1>2. \A t \in Secrets \ {s} : ask'[t] = ask[t]
    BY StoredSteps
<1>3. QuietAsk(s)
    <2>1. CASE Create(s) \/ Denied(s) \/ Sealed(s) \/ RotateWrite(s) \/ Delete(s)
        <3>1. PICK at \in {"ok", "409", "denied", "sealed"} :
                /\ Goto(s, at) /\ ask[s].at # "ok"
                /\ at = "ok" => Asked[s].op \in {"create", "delete"} \/ ask[s].at = "rotating"
            BY <2>1 DEF Create, Denied, Sealed, RotateWrite, Delete
        <3>2. ask'[s].at = at
            BY <3>1 DEF Goto, CallTypes
        <3> QED
            BY <3>1, <3>2 DEF QuietAsk, LogInv
    <2>2. CASE GetRead(s) \/ AgentRead(s) \/ RotateRead(s)
        <3>1. PICK i \in DOMAIN stored, at \in {"held", "read", "rotating", "denied"} :
                /\ Read(s, i, at) \/ Goto(s, at)
                /\ ask[s].at = "new"
                /\ at = "rotating" => Asked[s].op = "rotate"
            BY <2>2 DEF GetRead, AgentRead, RotateRead, Live
        <3>2. ask'[s].at = at
            BY <3>1 DEF Goto, Read, CallTypes
        <3> QED
            BY <3>1, <3>2 DEF QuietAsk
    <2> QED
        BY <2>1, <2>2
<1>4. \A t \in Secrets : QuietAsk(t)
    BY <1>2, <1>3 DEF QuietAsk
<1>5. \A c \in Commands : QuietCmd(c)
    BY <1>1 DEF QuietCmd
<1> QED
    BY <1>1, <1>4, <1>5, QuietKeeps DEF LogInv

\* A command up to its entry.
LEMMA CmdsAreQuiet ==
    ASSUME CallTypes, SameBounds, LogInv, NEW c \in Commands,
           Exec(c) \/ Clone(c) \/ Branch(c) \/ Commit(c) \/ Push(c) \/ Status(c) \/ LogOf(c)
           \/ CreatePr(c) \/ CmdRun(c) \/ PodEnds(c) \/ CmdReply(c) \/ CmdTimeout(c) \/ PrPost(c)
    PROVE  LogInv'
<1>1. UNCHANGED <<ask, entries>>
    BY DEF Exec, Clone, Branch, Commit, Push, Status, LogOf, CreatePr, Accept, CmdRun, PodEnds,
           CmdReply, CmdTimeout, PrPost
<1>2. /\ pod \in [Commands -> [at : {"none", "running", "ended"}, code : {0, 1}]]
      /\ cmd \in [Commands -> [at : CmdPlaces, code : {0, 1}, seq : Nat]]
    BY DEF CallTypes
<1>3. Enough => CmdFine(c)
    BY DEF LogInv
<1>4. CASE Exec(c) \/ Clone(c) \/ Branch(c) \/ Commit(c) \/ Push(c) \/ Status(c) \/ LogOf(c)
           \/ CreatePr(c)
    <2>1. PICK at \in {"go", "400", "401", "500"} : To(c, at)
        BY <1>4 DEF Exec, Clone, Branch, Commit, Push, Status, LogOf, CreatePr, Accept
    <2>2. cmd[c].at = "new" /\ UNCHANGED <<pod, hub>>
        BY <1>4 DEF Exec, Clone, Branch, Commit, Push, Status, LogOf, CreatePr, Accept
    <2>3. cmd'[c].at = at /\ \A d \in Commands \ {c} : cmd'[d] = cmd[d]
        BY <1>2, <2>1 DEF To
    <2>4. \A d \in Commands : QuietCmd(d)
        BY <2>2, <2>3 DEF QuietCmd
    <2>5. \A s \in Secrets : QuietAsk(s)
        BY <1>1 DEF QuietAsk
    <2> QED
        BY <1>1, <2>2, <2>4, <2>5, QuietKeeps DEF LogInv
<1>5. CASE CmdRun(c) \/ CmdTimeout(c)
    <2>1. PICK at \in {"running", "502", "504"} : To(c, at)
        BY <1>5 DEF CmdRun, CmdTimeout
    <2>2. /\ cmd[c].at \in {"go", "running"} /\ hub' = hub
          /\ pod' = pod \/ pod' = [pod EXCEPT ![c].at = "running"]
        BY <1>5 DEF CmdRun, CmdTimeout
    <2>3. /\ cmd'[c].at = at
          /\ \A d \in Commands \ {c} : cmd'[d] = cmd[d] /\ pod'[d] = pod[d]
        BY <1>2, <2>1, <2>2 DEF To
    <2>4. \A d \in Commands : QuietCmd(d)
        BY <2>2, <2>3 DEF QuietCmd
    <2>5. \A s \in Secrets : QuietAsk(s)
        BY <1>1 DEF QuietAsk
    <2> QED
        BY <1>1, <2>2, <2>4, <2>5, QuietKeeps DEF LogInv
<1>6. CASE PodEnds(c)
    <2>1. /\ pod[c].at = "running" /\ UNCHANGED <<cmd, hub>>
          /\ \A d \in Commands \ {c} : pod'[d] = pod[d]
        BY <1>2, <1>6 DEF PodEnds
    <2>2. Enough => cmd[c].at \notin {"post", "ran", "logged", "ok"}
        BY <1>3, <2>1 DEF CmdFine, PodEnded
    <2>3. \A d \in Commands : QuietCmd(d)
        BY <2>1, <2>2 DEF QuietCmd
    <2>4. \A s \in Secrets : QuietAsk(s)
        BY <1>1 DEF QuietAsk
    <2> QED
        BY <1>1, <2>1, <2>3, <2>4, QuietKeeps DEF LogInv
<1>7. CASE CmdReply(c)
    <2>1. PICK code \in Reported(c), at \in {"502", "post", "ran"} :
            cmd' = [cmd EXCEPT ![c] = [cmd[c] EXCEPT !.code = code, !.at = at]]
        BY <1>7 DEF CmdReply
    <2>2. cmd[c].at = "running" /\ pod[c].at = "ended" /\ UNCHANGED <<pod, hub>>
        BY <1>7 DEF CmdReply
    <2>3. /\ cmd'[c].at = at /\ cmd'[c].code = code
          /\ \A d \in Commands \ {c} : cmd'[d] = cmd[d]
        BY <1>2, <2>1
    <2>4. Enough => code = pod[c].code
        BY <2>1 DEF Reported, Enough
    <2>5. pod[c] = [at |-> "ended", code |-> pod[c].code]
        BY <1>2, <2>2
    <2>6. \A d \in Commands : QuietCmd(d)
        BY <2>2, <2>3, <2>4, <2>5 DEF QuietCmd
    <2>7. \A s \in Secrets : QuietAsk(s)
        BY <1>1 DEF QuietAsk
    <2> QED
        BY <1>1, <2>2, <2>6, <2>7, QuietKeeps DEF LogInv
<1>8. CASE PrPost(c)
    <2>1. PICK at \in {"ran", "502", "422"} :
            /\ To(c, at)
            /\ hub' = hub \/ (hub' = hub \cup {c} /\ at \in {"ran", "502"})
        BY <1>8 DEF PrPost
    <2>2. cmd[c].at = "post" /\ pod' = pod
        BY <1>8 DEF PrPost
    <2>3. /\ cmd'[c].at = at /\ cmd'[c].code = cmd[c].code
          /\ \A d \in Commands \ {c} : cmd'[d] = cmd[d]
        BY <1>2, <2>1 DEF To
    <2>4. Enough => pod[c] = [at |-> "ended", code |-> cmd[c].code]
        BY <1>3, <2>2 DEF CmdFine, PodEnded
    <2>5. \A d \in Commands : QuietCmd(d)
        BY <2>2, <2>3, <2>4 DEF QuietCmd
    <2>6. \A s \in Secrets : QuietAsk(s)
        BY <1>1 DEF QuietAsk
    <2>7. hub' \subseteq Commands /\ \A d \in hub' : d \in hub \/ cmd'[d].at \in {"ran", "502"}
        BY <2>1, <2>3 DEF LogInv
    <2> QED
        BY <1>1, <2>5, <2>6, <2>7, QuietKeeps
<1> QED
    BY <1>4, <1>5, <1>6, <1>7, <1>8
\* A credential is handed out with its one entry.
LEMMA HandIsLogged ==
    ASSUME KeyTypes, BusyInv, SameBounds, LogInv, NEW s \in Secrets, Hand(s)
    PROVE  LogInv'
<1> DEFINE entry == Entry(stored[ask[s].row].tenant,
                          IF Asked[s].op = "get" THEN "" ELSE Asked[s].machine, s)
<1>1. /\ CallTypes /\ busy = Inside
      /\ ask[s].at \in {"held", "read"} /\ UNCHANGED <<cmd, pod, hub>>
      /\ \A t \in Secrets \ {s} : ask'[t] = ask[t]
      /\ ask'[s].at = "ok"
    BY DEF BusyInv, Hand, Goto, CallTypes
<1>2. entry.by = s
    BY DEF Entry
<1>3. \/ Log(entry)
      \/ entries' = entries /\ (Free <= 0 \/ plan.faults)
    BY DEF Hand
<1>4. \A i \in DOMAIN entries : entries[i].by # s
    BY <1>1, VaultAssumption DEF LogInv, EntryFine
<1>5. Enough' <=> Enough
    BY DEF Enough, SameBounds
<1>6. hub' \subseteq Commands /\ \A c \in hub' : HubFine(c)'
    BY <1>1 DEF LogInv, HubFine
<1>7. \A t \in Secrets : ask'[t].at = "rotating" => Asked[t].op = "rotate"
    BY <1>1 DEF LogInv
<1> HIDE DEF entry
<1>8. CASE entries' = entries /\ (Free <= 0 \/ plan.faults)
    <2>1. Free \in Int
        <3>1. Holding \subseteq busy /\ IsFiniteSet(busy)
            BY <1>1 DEF BusyInv, Holding, Inside, AsksInside
        <3>2. Cardinality(Holding) \in Nat /\ plan.pool \in Nat
            BY <3>1, FS_Subset, FS_CardinalityType DEF KeyTypes, IsScenario
        <3> QED
            BY <3>2 DEF Free
    <2>2. ~Enough
        BY <1>8, <2>1, ConnectionsLeft DEF Enough
    <2>3. \A i \in DOMAIN entries' : EntryFine(i)'
        BY <1>1, <1>4, <1>8 DEF LogInv, EntryFine
    <2> QED
        BY <1>5, <1>6, <1>7, <2>2, <2>3 DEF LogInv
<1>9. CASE Log(entry)
    <2> DEFINE n == Len(entries) + 1
    <2>1. /\ DOMAIN entries' = DOMAIN entries \cup {n}
          /\ n \in DOMAIN entries' /\ entries'[n] = entry
          /\ LoggedBy(s)' = LoggedBy(s) \cup {n}
        BY <1>1, <1>2, <1>9, EntryAdded
    <2>2. LoggedBy(s) = {}
        BY <1>4 DEF LoggedBy
    <2>3. /\ \A i \in DOMAIN entries, t \in Secrets :
               entries[i].by = t /\ ask'[t].at = ask[t].at => EntryFine(i)'
          /\ \A i \in DOMAIN entries, c \in Commands :
               entries[i].by = c /\ cmd'[c] = cmd[c] => EntryFine(i)'
          /\ \A t \in Secrets : t # entry.by /\ AskFine(t) /\ ask'[t] = ask[t] => AskFine(t)'
          /\ \A c \in Commands :
               /\ c # entry.by /\ CmdFine(c) /\ cmd'[c] = cmd[c]
               /\ plan.threads # 1 \/ cmd[c].at # "logged"
               => CmdFine(c)'
        BY <1>1, <1>9, OthersKeep
    <2>4. \A i \in DOMAIN entries : entries[i].by \in Secrets \/ entries[i].by \in Commands
        BY DEF LogInv, EntryFine
    <2>5. \A i \in DOMAIN entries : EntryFine(i)'
        BY <1>1, <1>4, <2>3, <2>4
    <2>6. ASSUME NEW i, i = n
          PROVE  EntryFine(i)'
        BY <2>6, <1>1, <1>2, <2>1 DEF EntryFine
    <2>7. \A i \in DOMAIN entries' : EntryFine(i)'
        BY <2>1, <2>5, <2>6
    <2>8. ASSUME Enough, NEW t \in Secrets
          PROVE  AskFine(t)'
        <3>1. CASE t = s
            BY <2>1, <2>2, <3>1 DEF AskFine
        <3>2. CASE t # s
            BY <1>1, <1>2, <2>3, <2>8, <3>2 DEF LogInv
        <3> QED
            BY <3>1, <3>2
    <2>9. ASSUME Enough, NEW c \in Commands
          PROVE  CmdFine(c)'
        <3>1. c # s /\ cmd' = cmd /\ CmdFine(c)
            BY <1>1, <2>9, VaultAssumption DEF LogInv
        <3>2. plan.threads # 1 \/ cmd[c].at # "logged"
            <4> SUFFICES ASSUME plan.threads = 1, cmd[c].at = "logged"
                         PROVE  FALSE
                OBVIOUS
            <4>1. s \in busy /\ c \in busy
                BY <1>1, InsideIs
            <4> QED
                BY <3>1, <4>1, OneThread
        <3> QED
            BY <1>2, <2>3, <3>1, <3>2
    <2> QED
        BY <1>5, <1>6, <1>7, <2>7, <2>8, <2>9 DEF LogInv
<1> QED
    BY <1>3, <1>8, <1>9

\* The entry of a command.
LEMMA CmdIsLogged ==
    ASSUME KeyTypes, BusyInv, SameBounds, LogInv, NEW c \in Commands, CmdLog(c)
    PROVE  LogInv'
<1> DEFINE entry == Entry(OwnerOf[Sent[c].machine], Sent[c].machine, c)
<1>1. /\ CallTypes /\ busy = Inside
      /\ cmd[c].at = "ran" /\ UNCHANGED <<ask, pod, hub>>
      /\ \A d \in Commands \ {c} : cmd'[d] = cmd[d]
      /\ cmd'[c].at = "logged" /\ cmd'[c].code = cmd[c].code
    BY DEF BusyInv, CmdLog, To, CallTypes
<1>2. /\ entry.by = c /\ entry.machine = Sent[c].machine
      /\ entry.tenant = OwnerOf[Sent[c].machine]
    BY DEF Entry
<1>3. \/ Log(entry)
      \/ entries' = entries /\ (Free <= 0 \/ plan.faults)
    BY DEF CmdLog
<1>4. \A i \in DOMAIN entries : entries[i].by # c
    BY <1>1, VaultAssumption DEF LogInv, EntryFine
<1>5. Enough' <=> Enough
    BY DEF Enough, SameBounds
<1>6. hub' \subseteq Commands /\ \A d \in hub' : HubFine(d)'
    BY <1>1 DEF LogInv, HubFine
<1>7. \A t \in Secrets : ask'[t].at = "rotating" => Asked[t].op = "rotate"
    BY <1>1 DEF LogInv
<1> HIDE DEF entry
<1>8. CASE entries' = entries /\ (Free <= 0 \/ plan.faults)
    <2>1. Free \in Int
        <3>1. Holding \subseteq busy /\ IsFiniteSet(busy)
            BY <1>1 DEF BusyInv, Holding, Inside, AsksInside
        <3>2. Cardinality(Holding) \in Nat /\ plan.pool \in Nat
            BY <3>1, FS_Subset, FS_CardinalityType DEF KeyTypes, IsScenario
        <3> QED
            BY <3>2 DEF Free
    <2>2. ~Enough
        BY <1>8, <2>1, ConnectionsLeft DEF Enough
    <2>3. \A i \in DOMAIN entries' : EntryFine(i)'
        BY <1>1, <1>4, <1>8 DEF LogInv, EntryFine
    <2> QED
        BY <1>5, <1>6, <1>7, <2>2, <2>3 DEF LogInv
<1>9. CASE Log(entry)
    <2> DEFINE n == Len(entries) + 1
    <2>1. /\ DOMAIN entries' = DOMAIN entries \cup {n} /\ Len(entries') = n
          /\ n \in DOMAIN entries' /\ entries'[n] = entry
          /\ LoggedBy(c)' = LoggedBy(c) \cup {n}
        BY <1>1, <1>2, <1>9, EntryAdded
    <2>2. LoggedBy(c) = {}
        BY <1>4 DEF LoggedBy
    <2>3. /\ \A i \in DOMAIN entries, t \in Secrets :
               entries[i].by = t /\ ask'[t].at = ask[t].at => EntryFine(i)'
          /\ \A i \in DOMAIN entries, d \in Commands :
               entries[i].by = d /\ cmd'[d] = cmd[d] => EntryFine(i)'
          /\ \A t \in Secrets : t # entry.by /\ AskFine(t) /\ ask'[t] = ask[t] => AskFine(t)'
          /\ \A d \in Commands :
               /\ d # entry.by /\ CmdFine(d) /\ cmd'[d] = cmd[d]
               /\ plan.threads # 1 \/ cmd[d].at # "logged"
               => CmdFine(d)'
        BY <1>1, <1>9, OthersKeep
    <2>4. \A i \in DOMAIN entries : entries[i].by \in Secrets \/ entries[i].by \in Commands
        BY DEF LogInv, EntryFine
    <2>5. \A i \in DOMAIN entries : EntryFine(i)'
        BY <1>1, <1>4, <2>3, <2>4
    <2>6. ASSUME NEW i, i = n
          PROVE  EntryFine(i)'
        BY <2>6, <1>1, <1>2, <2>1 DEF EntryFine
    <2>7. \A i \in DOMAIN entries' : EntryFine(i)'
        BY <2>1, <2>5, <2>6
    <2>8. ASSUME Enough, NEW t \in Secrets
          PROVE  AskFine(t)'
        <3>1. t # c
            BY VaultAssumption
        <3> QED
            BY <1>1, <1>2, <2>3, <2>8, <3>1 DEF LogInv
    <2>9. ASSUME Enough, NEW d \in Commands
          PROVE  CmdFine(d)'
        <3>1. CmdFine(d) /\ CmdFine(c)
            BY <2>9 DEF LogInv
        <3>2. CASE d = c
            <4>1. PodEnded(c)'
                BY <1>1, <3>1 DEF CmdFine, PodEnded
            <4>2. LoggedBy(c)' = {n}
                BY <2>1, <2>2
            <4> QED
                BY <1>1, <2>1, <3>2, <4>1, <4>2 DEF CmdFine
        <3>3. CASE d # c
            <4>1. plan.threads # 1 \/ cmd[d].at # "logged"
                <5> SUFFICES ASSUME plan.threads = 1, cmd[d].at = "logged"
                             PROVE  FALSE
                    OBVIOUS
                <5>1. d \in busy /\ Cardinality(busy) < 1
                    BY <1>1, InsideIs DEF CmdLog, Enter
                <5>2. IsFiniteSet(busy) /\ Cardinality(busy) = 0
                    BY <5>1, FS_CardinalityType DEF BusyInv
                <5> QED
                    BY <5>1, <5>2, FS_EmptySet
            <4> QED
                BY <1>1, <1>2, <2>3, <3>1, <3>3, <4>1
        <3> QED
            BY <3>2, <3>3
    <2> QED
        BY <1>5, <1>6, <1>7, <2>7, <2>8, <2>9 DEF LogInv
<1> QED
    BY <1>3, <1>8, <1>9
\* The number that a command is answered with.
LEMMA CmdIsAnswered ==
    ASSUME KeyTypes, BusyInv, SameBounds, LogInv, NEW c \in Commands, CmdSeq(c)
    PROVE  LogInv'
<1> DEFINE machine == Sent[c].machine
           newest == NewestSeq(machine)
<1>1. /\ CallTypes /\ cmd[c].at = "logged" /\ UNCHANGED <<ask, pod, hub, entries>>
      /\ \A d \in Commands \ {c} : cmd'[d] = cmd[d]
      /\ cmd'[c].at = "ok" /\ cmd'[c].code = cmd[c].code
    BY DEF BusyInv, CmdSeq, CallTypes
<1>2. Enough' <=> Enough
    BY DEF Enough, SameBounds
<1>3. hub' \subseteq Commands /\ \A d \in hub' : HubFine(d)'
    BY <1>1 DEF LogInv, HubFine
<1>4. \A t \in Secrets : ask'[t].at = "rotating" => Asked[t].op = "rotate"
    BY <1>1 DEF LogInv
<1>5. \A i \in DOMAIN entries' : EntryFine(i)'
    BY <1>1 DEF LogInv, EntryFine
<1>6. \A x : LoggedBy(x)' = LoggedBy(x)
    BY <1>1 DEF LoggedBy
<1>7. ASSUME Enough, NEW t \in Secrets
      PROVE  AskFine(t)'
    BY <1>1, <1>6, <1>7 DEF LogInv, AskFine
<1>8. ASSUME Enough
      PROVE  CmdFine(c)'
    <2>1. cmd'[c].seq = newest
        <3>1. Free > 0 /\ ~plan.faults
            BY <1>8, ConnectionsLeft DEF Enough
        <3>2. cmd' = [cmd EXCEPT ![c] = [cmd[c] EXCEPT !.at = "ok", !.seq = newest]]
            BY <3>1 DEF CmdSeq
        <3> HIDE DEF newest
        <3> QED
            BY <1>1, <3>2 DEF CallTypes
    <2>2. CmdFine(c)
        BY <1>8 DEF LogInv
    <2>3. PICK own \in DOMAIN entries : LoggedBy(c) = {own}
        BY <1>1, <2>2 DEF CmdFine
    <2>4. entries[own].by = c /\ own \in 1 .. Len(entries) /\ Len(entries) \in Nat
        BY <1>1, <2>3, RowsOf DEF LoggedBy
    <2>5. entries[own].machine = machine /\ entries[own].tenant = OwnerOf[machine]
        BY <2>4, VaultAssumption DEF LogInv, EntryFine
    <2>6. /\ newest \in DOMAIN entries /\ entries[newest].machine = machine
          /\ own <= newest
        BY <1>1, <2>5, NewestIs
    <2>7. newest \in 1 .. Len(entries)
        BY <1>1, <2>6, RowsOf
    <2>8. plan.threads = 1 => newest = own
        <3>1. plan.threads = 1 => own = Len(entries)
            BY <1>1, <2>2, <2>3 DEF CmdFine
        <3> HIDE DEF newest
        <3> QED
            BY <2>4, <2>6, <2>7, <3>1
    <2> HIDE DEF newest
    <2>9. PodEnded(c)'
        BY <1>1, <2>2 DEF CmdFine, PodEnded
    <2>10. plan'.threads = plan.threads
        BY DEF SameBounds
    <2> QED
        BY <1>1, <1>6, <2>1, <2>3, <2>6, <2>8, <2>9, <2>10 DEF CmdFine
<1>9. ASSUME Enough, NEW d \in Commands \ {c}
      PROVE  CmdFine(d)'
    <2>1. CmdFine(d) /\ plan'.threads = plan.threads
        BY <1>9 DEF LogInv, SameBounds
    <2> QED
        BY <1>1, <1>6, <1>9, <2>1 DEF CmdFine, PodEnded
<1> QED
    BY <1>2, <1>3, <1>4, <1>5, <1>7, <1>8, <1>9 DEF LogInv

LEMMA LogStep ==
    ASSUME KeyInv, BusyInv, LogInv, [Next]_vars
    PROVE  LogInv'
<1>1. /\ CallTypes /\ KeyTypes /\ busy = Inside /\ SameBounds
    BY KeyStep DEF BusyInv, KeyInv
<1>2. ASSUME UNCHANGED <<ask, cmd, pod, hub, entries>>
      PROVE  LogInv'
    <2>1. (\A s \in Secrets : QuietAsk(s)) /\ \A c \in Commands : QuietCmd(c)
        BY <1>2 DEF QuietAsk, QuietCmd
    <2>2. hub' \subseteq Commands
        BY <1>2 DEF LogInv
    <2> QED
        BY <1>1, <1>2, <2>1, <2>2, QuietKeeps
<1>3. CASE AccessStep /\ UNCHANGED <<vaultVars, keyVars>>
    BY <1>2, <1>3 DEF vaultVars
<1>4. CASE UNCHANGED <<busy, accessVars, vaultVars>>
    BY <1>2, <1>4 DEF vaultVars
<1>5. CASE Killed
    <2>1. UNCHANGED <<pod, hub, entries>>
        BY <1>5 DEF Killed
    <2>2. \A s \in Secrets : ask'[s].at = IF s \in Inside THEN "lost" ELSE ask[s].at
        BY <1>1, <1>5, KilledCalls
    <2>3. \A s \in Secrets : QuietAsk(s)
        BY <2>2, InsideIs DEF QuietAsk
    <2>4. \A c \in Commands : cmd'[c].at = "lost" \/ cmd'[c] = cmd[c]
        BY <1>1, <1>5, KilledCalls DEF Killed
    <2>5. \A c \in Commands : QuietCmd(c)
        BY <2>1, <2>4 DEF QuietCmd
    <2> QED
        BY <1>1, <2>1, <2>3, <2>5, QuietKeeps DEF LogInv
<1>6. CASE VaultStep
    <2>1. ASSUME NEW s \in Secrets, Create(s) \/ GetRead(s) \/ AgentRead(s) \/ Denied(s)
                                    \/ Sealed(s) \/ RotateRead(s) \/ RotateWrite(s) \/ Delete(s)
          PROVE  LogInv'
        BY <1>1, <2>1, AsksAreQuiet
    <2>2. ASSUME NEW s \in Secrets, Hand(s)
          PROVE  LogInv'
        BY <1>1, <2>2, HandIsLogged
    <2>3. ASSUME NEW c \in Commands,
                 Exec(c) \/ Clone(c) \/ Branch(c) \/ Commit(c) \/ Push(c) \/ Status(c) \/ LogOf(c)
                 \/ CreatePr(c) \/ CmdRun(c) \/ PodEnds(c) \/ CmdReply(c) \/ CmdTimeout(c)
                 \/ PrPost(c)
          PROVE  LogInv'
        BY <1>1, <2>3, CmdsAreQuiet
    <2>4. ASSUME NEW c \in Commands, CmdLog(c) \/ CmdSeq(c)
          PROVE  LogInv'
        BY <1>1, <2>4, CmdIsLogged, CmdIsAnswered
    <2>5. ASSUME NEW m \in Machines, Ends(m) \/ Spawn(m)
          PROVE  LogInv'
        BY <1>2, <2>5 DEF Ends, Spawn
    <2> QED
        BY <1>6, <2>1, <2>2, <2>3, <2>4, <2>5 DEF VaultStep
<1> QED
    BY <1>3, <1>4, <1>5, <1>6, ProcessStep

LEMMA LogInit == Init => LogInv
<1> SUFFICES ASSUME Init
             PROVE  LogInv
    OBVIOUS
<1>1. /\ ask = [s \in Secrets |-> [at |-> Due(s), row |-> 0, seal |-> 0]]
      /\ cmd = [c \in Commands |-> [at |-> Due(c), code |-> 0, seq |-> 0]]
      /\ hub = {} /\ entries = <<>>
    BY DEF Init, VaultInit
<1>2. \A s \in Secrets : ask[s].at \in {"new", "absent"}
    BY <1>1 DEF Due
<1>3. \A c \in Commands : cmd[c].at \in {"new", "absent"}
    BY <1>1 DEF Due
<1>4. \A i \in DOMAIN entries : FALSE
    BY <1>1, NoIndex
<1>5. \A s \in Secrets : AskFine(s)
    BY <1>2 DEF AskFine
<1>6. \A c \in Commands : CmdFine(c)
    BY <1>3 DEF CmdFine
<1> QED
    BY <1>1, <1>2, <1>4, <1>5, <1>6 DEF LogInv

LEMMA LogInvAccounts == LogInv => Accounted
<1> SUFFICES ASSUME LogInv, ~plan.faults, plan.pool > plan.threads
             PROVE  ReadsAreLogged /\ AnswersAreTrue /\ PullRequestsAreLogged
    BY DEF Accounted, ReadsAreLogged, AnswersAreTrue, PullRequestsAreLogged
<1>1. (\A s \in Secrets : AskFine(s)) /\ \A c \in Commands : CmdFine(c)
    BY DEF LogInv, Enough
<1>2. ASSUME NEW S, \E i \in DOMAIN entries : S = {i}
      PROVE  Cardinality(S) = 1
    BY <1>2, FS_Singleton
<1>3. ReadsAreLogged
    BY <1>1, <1>2 DEF ReadsAreLogged, AskFine
<1>4. AnswersAreTrue
    <2> SUFFICES ASSUME NEW c \in Commands, cmd[c].at = "ok"
                 PROVE  /\ pod[c] = [at |-> "ended", code |-> cmd[c].code]
                        /\ Cardinality(LoggedBy(c)) = 1
                        /\ \A own \in LoggedBy(c) :
                             /\ own <= cmd[c].seq
                             /\ entries[cmd[c].seq].machine = Sent[c].machine
                             /\ plan.threads = 1 => cmd[c].seq = own
        BY DEF AnswersAreTrue
    <2>1. CmdFine(c)
        BY <1>1
    <2>2. Cardinality(LoggedBy(c)) = 1
        BY <1>2, <2>1 DEF CmdFine
    <2> QED
        BY <2>1, <2>2 DEF CmdFine, PodEnded
<1>5. PullRequestsAreLogged
    <2> SUFFICES ASSUME NEW c \in hub
                 PROVE  LoggedBy(c) # {} \/ cmd[c].at \in {"ran", "502", "lost"}
        BY DEF PullRequestsAreLogged
    <2>1. CmdFine(c) /\ HubFine(c)
        BY <1>1 DEF LogInv
    <2> QED
        BY <2>1 DEF CmdFine, HubFine
<1> QED
    BY <1>3, <1>4, <1>5

\* With more connections than worker threads and no failing statement, every credential
\* handed out, every command answered and every pull request opened has its entry, and the
\* answer tells the truth about the command and its entry (get_credential,
\* agent_get_credential, exec, the routes of git.rs, write_audit_and_get_seq).
THEOREM AllIsAccounted == Spec => []Accounted
<1> DEFINE Inv == KeyInv /\ BusyInv /\ LogInv
<1>1. Init => Inv
    BY KeyInitKeeps, BusyInit, LogInit DEF Init
<1>2. Inv /\ [Next]_vars => Inv'
    BY KeyStep, BusyStep, LogStep
<1>3. Inv => Accounted
    BY LogInvAccounts
<1> QED
    BY <1>1, <1>2, <1>3, PTL DEF Spec
=============================================================================
