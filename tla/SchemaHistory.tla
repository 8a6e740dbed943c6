---------------------------- MODULE SchemaHistory ----------------------------
(***************************************************************************)
(* The life of a database under scripts/migration.ts: up, down, reset,      *)
(* fresh and run, each of which may fail and is then rolled back, and the   *)
(* rows of the table migrations by which TypeORM knows what has run.        *)
(*                                                                          *)
(* No migration creates tiers and site_managers, and some early migrations  *)
(* create what earlier ones created: the databases in use got past those by *)
(* hand.  A run starts from one of them.                                    *)
(***************************************************************************)
EXTENDS Entities, Integers, FiniteSets

CONSTANTS
  First,     \* the databases in use have at least that many migrations
  Bottom,    \* bound of the model: that many migrations are not undone
  RunFrom,   \* bound of the model: files are run by name after that many
  Runnable   \* bound of the model: migrations whose file is run by name

ASSUME BottomIsBelow == Bottom \in 0..First
ASSUME FirstIsPastTheEarly == First \in 20..Len(All)
ASSUME RunnableHasNames == Runnable \subseteq {Names[i] : i \in 1..Len(Names)}

VARIABLES
  schema,     \* the objects of the database
  executed,   \* the rows of the table migrations, in the order of their ids
  resetting   \* "npm run migration reset" is at work

vars == <<schema, executed, resetting>>

Failed == {<<"failed">>}

\* The migration of a class.
Migration(name) == All[CHOOSE i \in 1..Len(Names) : Names[i] = name]

\* One change, or a sequence of them, in a transaction.
Change(c, s) == IF Fails(c, s) THEN Failed ELSE Effect(c, s)

Run(indices, s) ==
  FoldLeft(LAMBDA t, i : IF t = Failed THEN Failed ELSE Change(All[i].up, t), s, indices)

\* A row whose name is that of a class, or a name no class has.
Known(name) == [name |-> name, class |-> TRUE]
Stray(name) == [name |-> name, class |-> FALSE]

Rows(indices) == [j \in DOMAIN indices |-> Known(Names[indices[j]])]

Upto(k) == [i \in 1..k |-> i]

ByHand ==
  ColumnsOf([tiers |-> {"id", "name", "description", "order", "color",
                        "created_at", "updated_at"},
             site_managers |-> {"id", "site_id", "user_id", "role", "is_active",
                                "created_at", "updated_at"}])
  \cup Tables({"tiers", "site_managers"})
  \cup {Row("roles", "site-owner"), Row("user_roles", "site-owner")}

\* The first k migrations, the errors of the early ones passed over by hand.
Deployed ==
  LET D[k \in 0..Len(All)] == IF k = 0 THEN ByHand ELSE Effect(All[k].up, D[k - 1])
  IN  [k \in 0..Len(All) |-> D[k]]

Init ==
  /\ \E k \in First..Len(All) : schema = Deployed[k] /\ executed = Rows(Upto(k))
  /\ resetting = FALSE

-----------------------------------------------------------------------------

Pending ==
  LET ran == {executed[j].name : j \in {j \in DOMAIN executed : executed[j].class}}
  IN  SelectSeq(Upto(Len(All)), LAMBDA i : Names[i] \notin ran)

UpWorks == Run(Pending, schema) # Failed

\* All pending migrations, in one transaction; on an error nothing changes.
Up ==
  /\ ~resetting
  /\ UpWorks
  /\ schema' = Run(Pending, schema)
  /\ executed' = executed \o Rows(Pending)
  /\ UNCHANGED resetting

\* What undoLastMigration makes of the schema: it undoes the latest row, whose
\* class must be there.  It fails if there is none.
Undone ==
  LET row == Last(executed)
  IN  IF executed # <<>> /\ row.class THEN Change(Migration(row.name).down, schema)
                                      ELSE Failed

\* Mutant: the row of the migration stays.
UndoKeepingRow ==
  /\ Len(executed) > Bottom
  /\ Undone # Failed
  /\ schema' = Undone
  /\ UNCHANGED executed

UndoLast ==
  /\ Len(executed) > Bottom
  /\ Undone # Failed
  /\ schema' = Undone
  /\ executed' = Front(executed)

\* On no row or an error nothing changes.
Down == ~resetting /\ UndoLast /\ UNCHANGED resetting

Reset == ~resetting /\ resetting' = TRUE /\ UNCHANGED <<schema, executed>>

\* One migration after the other, each in a transaction of its own.
ResetNext == resetting /\ UndoLast /\ UNCHANGED resetting

\* None is left, or an error.
ResetEnd ==
  /\ resetting
  /\ Undone = Failed
  /\ resetting' = FALSE
  /\ UNCHANGED <<schema, executed>>

Interrupt == resetting /\ resetting' = FALSE /\ UNCHANGED <<schema, executed>>

\* dropDatabase, then all migrations in one transaction.
Fresh ==
  /\ ~resetting
  /\ LET result == Run(Upto(Len(All)), {})
     IN  IF result = Failed
         THEN schema' = {} /\ executed' = <<>>
         ELSE schema' = result /\ executed' = Rows(Upto(Len(All)))
  /\ UNCHANGED resetting

\* The row's name is made of the part of the file name between its first two
\* hyphens: only a file with one hyphen gets the name of its class.
Recorded(name) == IF name \in NamedAsTheirClass THEN Known(name) ELSE Stray(name)

\* Mutant: the table migrations is not looked at.
RunFileAgain(name) ==
  /\ ~resetting
  /\ Len(executed) >= RunFrom
  /\ Change(Migration(name).up, schema) # Failed
  /\ schema' = Change(Migration(name).up, schema)
  /\ executed' = Append(executed, Recorded(name))
  /\ UNCHANGED resetting

RunFile(name) ==
  /\ ~resetting
  /\ Len(executed) >= RunFrom
  /\ \A j \in DOMAIN executed : executed[j] # Recorded(name)
  /\ Change(Migration(name).up, schema) # Failed
  /\ schema' = Change(Migration(name).up, schema)
  /\ executed' = Append(executed, Recorded(name))
  /\ UNCHANGED resetting

Next ==
  \/ Up \/ Down \/ Fresh
  \/ Reset \/ ResetNext \/ ResetEnd \/ Interrupt
  \/ \E name \in Runnable : RunFile(name)

Spec == Init /\ [][Next]_vars

-----------------------------------------------------------------------------
(* Properties *)

\* The first migrations have run, and nothing else has.
AtVersion ==
  /\ Len(executed) \in First..Len(All)
  /\ executed = Rows(Upto(Len(executed)))

\* Every variable has its type.
TypeOK ==
  /\ \A o \in schema : o[1] \in OfTables => Table(o[2]) \in schema
  /\ IsInjective(executed)
  /\ resetting \in BOOLEAN

\* What the other modules of this project rely on to stop a second writer.
Guards ==
  IndexesOf([sites |-> {"UQ_sites_slug"}, site_domains |-> {"UQ_domain"},
             site_managers |-> {"unique_site_user"},
             site_manager_applications |-> {"unique_pending"},
             partner_requests |-> {"user_id_pending"},
             attendances |-> {"unique_user_date"},
             users |-> {"UQ_email"}, posts |-> {"UQ_posts_slug"},
             post_reactions |-> {"unique"}, site_reviews |-> {"unique"},
             otp_requests |-> {"UQ_otp_requests_phone_active"}])

EntityColumns ==
  UNION {{Column(e.table, c) : c \in e.columns} : e \in Entities}

\* Whichever way a database came to have every migration, through downs and
\* ups, interrupted resets and files run by name, it has the columns of every
\* entity and the unique indexes the code counts on.
AtHeadServesTheCode ==
  (Pending = <<>> /\ \A j \in DOMAIN executed : executed[j].class) =>
    /\ Guards \subseteq schema
    /\ EntityColumns \subseteq schema

\* What no down() brings back: three tables of the old support system, a value
\* of an enum and the users who had been site owners.
Irreversible ==
  {o \in UNION {Deployed[k] : k \in DOMAIN Deployed} :
     \/ o[2] \in {"feedbacks", "bug_reports", "advertising_contacts"}
     \/ o \in {Value("gifticon_redemption_status_enum", "rejected"),
               Row("user_roles", "site-owner")}}

\* Going down takes a database back to what it was at that version, but for
\* the objects named above: what every later up() builds on.
DownRestoresTheVersion ==
  AtVersion => schema \ Irreversible = Deployed[Len(executed)] \ Irreversible

\* From any version, however it was reached, the pending migrations all run.
VersionsReachHead == AtVersion => UpWorks

\* MIGRATIONS.md, 5: reset "Reverts migrations one-by-one until none remain
\* executed."
ResetRevertsAll == [][ResetEnd => executed' = <<>>]_vars
=============================================================================
