------------------------- MODULE CollectionMigration -------------------------
(***************************************************************************)
(* The operator's migration of one private collection to its hashed name,  *)
(* recorded in an append-only audit log, resumed after a crash, verified   *)
(* and rolled back logically (builder/milvus_collection_migration.py).     *)
(***************************************************************************)
EXTENDS Naturals, Sequences, SequencesExt, FiniteSets, FiniteSetsExt

CONSTANTS Rows,         \* rows of the legacy collection, then rows added to it
          Strays,       \* rows of other primary IDs in the target
          Inventories,  \* authenticated-subject inventories an operator may supply
          Ambiguous,    \* those that list two owners of the legacy collection
          AutoId,       \* the collection generates its primary IDs
          MaxCommands,  \* commands run
          MaxCrashes

VARIABLES
  source,   \* legacy collection: rows, schema
  target,   \* hashed collection: exists, rows, schema, policy (allow_insert_auto_id)
  audit,    \* events of the log
  torn,     \* an event was written in part
  op,       \* the command that owns the audit lock: stage and what it carries
  left,     \* rows the iterator has not returned yet
  commands, crashes,
  marked    \* history: source and target rows at the last verification

migrationVars == <<source, target, audit, torn, op, left, commands, crashes, marked>>

Idle == [stage |-> "idle", inv |-> "none", id |-> 0, count |-> 0, policy |-> FALSE]

Event(kind, o, strategy) ==
  [event |-> kind, id |-> o.id, inv |-> o.inv, count |-> o.count,
   target |-> Cardinality(target.rows), policy |-> o.policy, strategy |-> strategy]

Strategy == IF AutoId THEN "insert-missing" ELSE "upsert"

(* The log may already hold a migration that an earlier version started,    *)
(* with a copy that generated new primary IDs for an AutoID collection.     *)
MigrationInit ==
  /\ \E n \in {1, Cardinality(Rows) - 1} : \E rows \in kSubset(n, Rows) :
       source = [rows |-> rows, schema |-> "a"]
  /\ \E exists, allow \in BOOLEAN, strays \in {{}, Strays}, old \in BOOLEAN :
       /\ strays # {} => exists
       /\ target = [exists |-> exists, rows |-> strays, schema |-> "a",
                    policy |-> exists /\ allow]
       /\ audit = IF old THEN <<[event |-> "migration_started", id |-> 1, inv |-> "full",
                                 count |-> Cardinality(source.rows), target |-> 0,
                                 policy |-> exists /\ allow, strategy |-> "upsert"]>>
                  ELSE <<>>
  /\ torn = FALSE /\ op = Idle /\ left = {} /\ commands = 0 /\ crashes = 0
  /\ marked = [source |-> {}, target |-> {}, policy |-> target.policy]

Latest == IF audit = <<>> THEN "none" ELSE Last(audit).event

(* The migration_started event of the migration that is under way: the last *)
(* one, with the id of the latest event.                                    *)
StartedAt ==
  {i \in DOMAIN audit : audit[i].event = "migration_started" /\ audit[i].id = Last(audit).id}
Started == audit[Max(StartedAt)]

(* _authorize, _read_operator_token, load_subject_inventory: an operator    *)
(* credential and an inventory that gives the collection one owner.         *)
Authorized(inv) == inv \notin Ambiguous

SourceMatches(e) == Cardinality(source.rows) = e.count /\ source.schema = "a"
TargetMatches(e) ==
  /\ target.exists /\ Cardinality(target.rows) >= e.target
  /\ target.schema = "a" /\ target.policy = e.policy

Refuse == op' = Idle

(* Mutant: the policy to restore is the one found in the target.            *)
PolicyOfTarget == target.policy

(* The policy recorded before the first write.                              *)
RecordedPolicy == Started.policy

(* The command line: reads the operator token and the inventory and runs    *)
(* one command, which takes the audit lock or is refused (operation_lock).  *)
Command ==
  /\ op.stage = "idle" /\ commands < MaxCommands /\ commands' = commands + 1

(* migrate: a log that does not     *)
(* decode, a rolled-back migration, another inventory or a changed source   *)
(* end it; a verified migration is only checked again.                      *)
Migrate(inv) ==
  /\ Command
  /\ LET o == [stage |-> "preparing", inv |-> inv, count |-> Cardinality(source.rows),
               id |-> Len(audit) + 1, policy |-> target.policy]
         refused == ~Authorized(inv) \/ torn
                    \/ Latest \in {"migration_rolled_back", "migration_verified"}
     IN  CASE refused -> Refuse /\ UNCHANGED audit
           [] ~refused /\ audit # <<>> ->
                /\ IF Started.inv = inv /\ SourceMatches(Started)
                   THEN op' = [o EXCEPT !.id = Started.id, !.policy = RecordedPolicy]
                   ELSE Refuse
                /\ UNCHANGED audit
           [] OTHER ->
                IF target.exists /\ (target.rows # {} \/ target.schema # "a")
                THEN Refuse /\ UNCHANGED audit
                ELSE op' = o /\ audit' = Append(audit, Event("migration_started", o, Strategy))
  /\ UNCHANGED <<source, target, torn, left, crashes, marked>>

(* The exception handler: the failure is recorded, and the next command may *)
(* resume.                                                                  *)
Fail ==
  /\ op' = Idle /\ audit' = Append(audit, Event("migration_failed", op, "none"))
  /\ UNCHANGED <<source, torn, left, commands, crashes, marked>>

(* A partial copy whose primary IDs cannot be trusted needs a review.       *)
NeedsReview == AutoId /\ Started.strategy # Strategy /\ target.rows # {}

(* The target differs from the legacy schema, or holds more rows.           *)
Unfit == target.schema # "a" \/ Cardinality(target.rows) > op.count

(* _clone_collection when missing; AutoID values are allowed for the copy.  *)
Cloned == [target EXCEPT !.exists = TRUE, !.policy = IF AutoId THEN TRUE ELSE @]

(* The target is awaited until its indexes are ready, and compared; an      *)
(* empty target of the earlier strategy is marked anew.                     *)
PrepareTarget ==
  /\ op.stage = "preparing"
  /\ \/ (Unfit \/ NeedsReview) /\ Fail /\ UNCHANGED target
     \/ /\ ~Unfit /\ ~NeedsReview /\ target' = Cloned
        /\ audit' = IF Started.strategy = Strategy THEN audit
                    ELSE Append(audit, [Started EXCEPT !.strategy = Strategy])
        /\ op' = [op EXCEPT !.stage = "copying"] /\ left' = source.rows
        /\ UNCHANGED <<source, torn, commands, crashes, marked>>

Restored(rows) == [target EXCEPT !.rows = rows, !.policy = IF AutoId THEN op.policy ELSE @]

(* _copy_batches: rows already there are not inserted again, and each batch *)
(* is read back. A reply that is lost after the commit fails the migration. *)
CopyBatch ==
  /\ op.stage = "copying"
  /\ \/ \E r \in left : /\ left' = left \ {r}
                        /\ target' = [target EXCEPT !.rows = @ \cup {r}]
                        /\ UNCHANGED <<source, audit, torn, op, commands, crashes, marked>>
     \/ /\ left = {} /\ op' = [op EXCEPT !.stage = "verifying"] /\ target' = Restored(target.rows)
        /\ UNCHANGED <<source, audit, torn, left, commands, crashes, marked>>
     \/ /\ \E r \in {{}} \cup {{x} : x \in left} : target' = Restored(target.rows \cup r)
        /\ Fail

(* Mutant: counts are not compared after the copy.                          *)
StructureOnly == source.schema = "a" /\ target.schema = "a"

(* _wait_for_post_copy_verification.                                        *)
Verified ==
  /\ Cardinality(source.rows) = op.count /\ Cardinality(target.rows) = op.count
  /\ source.schema = "a" /\ target.schema = "a" /\ target.policy = op.policy

Verify ==
  /\ op.stage = "verifying" /\ UNCHANGED target
  /\ \/ /\ Verified /\ op' = Idle
        /\ audit' = Append(audit, Event("migration_verified", op, Strategy))
        /\ marked' = [marked EXCEPT !.source = source.rows, !.target = target.rows]
        /\ UNCHANGED <<source, torn, left, commands, crashes>>
     \/ Fail

(* rollback: a logical marker over a verified migration whose collections   *)
(* still match it.                                                          *)
Rollback(inv) ==
  /\ Command
  /\ audit' = IF /\ Authorized(inv) /\ ~torn /\ Latest = "migration_verified"
                 /\ SourceMatches(Last(audit)) /\ TargetMatches(Last(audit))
              THEN Append(audit, [Last(audit) EXCEPT !.event = "migration_rolled_back"])
              ELSE audit
  /\ UNCHANGED <<source, target, torn, op, left, crashes, marked>>

(* The command is killed; an append may have written only part of its line. *)
MigrationCrash ==
  /\ op.stage # "idle" /\ crashes < MaxCrashes /\ crashes' = crashes + 1 /\ op' = Idle
  /\ torn' \in {torn, TRUE}
  /\ UNCHANGED <<source, target, audit, left, commands, marked>>

(* Writers that were not stopped, and an operator who alters the target.    *)
SourceGrows ==
  /\ \E r \in Rows \ (source.rows \cup target.rows) : source' = [source EXCEPT !.rows = @ \cup {r}]
  /\ UNCHANGED <<target, audit, torn, op, left, commands, crashes, marked>>
TargetGrows ==
  /\ target.exists /\ \E r \in Strays : target' = [target EXCEPT !.rows = @ \cup {r}]
  /\ UNCHANGED <<source, audit, torn, op, left, commands, crashes, marked>>
TargetAltered ==
  /\ target.exists /\ target' = [target EXCEPT !.schema = "b"]
  /\ UNCHANGED <<source, audit, torn, op, left, commands, crashes, marked>>

MigrationNext ==
  \/ \E inv \in Inventories : Migrate(inv) \/ Rollback(inv)
  \/ PrepareTarget \/ CopyBatch \/ Verify \/ MigrationCrash
  \/ SourceGrows \/ TargetGrows \/ TargetAltered

(* A migration is marked verified only when the target held exactly the     *)
(* rows of the source, with their primary IDs, however often the copy was   *)
(* interrupted and whatever writers did meanwhile; and what was marked      *)
(* stays in the target (_wait_for_post_copy_verification, _copy_batches).   *)
VerifiedIsExact ==
  Latest \in {"migration_verified", "migration_rolled_back"} =>
    /\ marked.source = marked.target
    /\ marked.source \subseteq target.rows

(* A verified target has its own insertion policy again, though a crash in  *)
(* the copy left it open and another command resumed (_preserve_auto_ids).  *)
PolicyRestored ==
  Latest \in {"migration_verified", "migration_rolled_back"} => target.policy = marked.policy
=============================================================================
