------------------------------ MODULE Manifest ------------------------------
(***************************************************************************)
(* The organ manifest and the start of the process: the seeding of the     *)
(* database in db/init.js, manifest/manifest.js, the provisioning routes   *)
(* POST /manifest/:organ_id and POST /mailbox/:organ_name, and the         *)
(* adapter's addManifestEntry.                                             *)
(*                                                                         *)
(* An organ needs a manifest row and a mailbox, which are inserted by two  *)
(* statements, each of which commits by itself.  The manifest is kept a    *)
(* second time in memory, and lookups read that copy.  The process may     *)
(* crash between any two statements, of a route or of the seeding; when    *)
(* it starts again, it seeds again.                                        *)
(*                                                                         *)
(* The variable task is what the main thread still has to do in the event  *)
(* under way.  It is shared with the module that extends this one: the     *)
(* main thread starts nothing new before the task is done.                 *)
(***************************************************************************)
EXTENDS Naturals, Sequences, FiniteSets

CONSTANTS
  Organs,       \* names of organs, in the manifest or not
  Seeds,        \* DIO_OS_ORGANS: sequence of [organ, required]
  MessageTypes, \* number of message types, each with a changelog entry
  MaxFaults     \* bound: failing statements, and crashes of the process, each
                \* followed by a restart

ASSUME SeedsAssumption == Seeds \in Seq([organ : Organs, required : BOOLEAN])
ASSUME ManifestBounds == MessageTypes \in Nat \ {0} /\ MaxFaults \in Nat

VARIABLES
  manifest,   \* table organ_manifest: a function from organs to "required"
  mailboxes,  \* table mailboxes: the organs that have a row
  changelog,  \* table schema_changelog: how many rows of version 1 it has
  known,      \* manifestMap
  task,       \* what the main thread still has to do in this event
  failures, restarts

provisioning == <<manifest, mailboxes, changelog, known>>
faults == <<failures, restarts>>
manifestVars == <<provisioning, task, faults>>

MayFail == failures + restarts < MaxFaults

Idle == [kind |-> "idle"]
BootTasks == [kind : {"changelog"}] \cup
             [kind : {"seed", "seedMailbox"}, next : 1 .. Len(Seeds) + 1]
ProvisioningTasks == [kind : {"addMailbox"}, organ : Organs]

\* A Map from organs to manifest entries, of which required is all that counts.
Maps == UNION {[some -> BOOLEAN] : some \in SUBSET Organs}
With(map, o, required) ==
  [p \in DOMAIN map \cup {o} |-> IF p = o THEN required ELSE map[p]]

-----------------------------------------------------------------------------
(* The start: changelog, then manifest, then the copy in memory.           *)

Seed(n) == [kind |-> "seed", next |-> n]

\* The changelog is seeded only when it has no row of version 1 at all.
InitDatabase == IF changelog = 0 THEN [kind |-> "changelog"] ELSE Seed(1)

ManifestInit ==
  /\ manifest = <<>> /\ mailboxes = {} /\ changelog = 0
  /\ known = <<>>
  /\ task = InitDatabase /\ failures = 0 /\ restarts = 0

SeedChangelog ==
  /\ task.kind = "changelog"
  /\ changelog' = changelog + 1
  /\ task' = IF changelog' = MessageTypes THEN Seed(1) ELSE task
  /\ UNCHANGED <<manifest, mailboxes, known, faults>>

\* Mutant: the mailbox is taken to be there when the row is.
SeedOrganRowOnly ==
  /\ task.kind = "seed" /\ task.next \in DOMAIN Seeds
  /\ LET seed == Seeds[task.next]
     IN manifest' = With(manifest, seed.organ, seed.required)
  /\ task' = Seed(task.next + 1)
  /\ UNCHANGED <<mailboxes, changelog, known, faults>>

\* INSERT OR IGNORE: the mailbox follows only if the row is new.
SeedOrgan ==
  /\ task.kind = "seed" /\ task.next \in DOMAIN Seeds
  /\ LET seed == Seeds[task.next] IN
     IF seed.organ \in DOMAIN manifest
     THEN task' = Seed(task.next + 1) /\ UNCHANGED manifest
     ELSE /\ manifest' = With(manifest, seed.organ, seed.required)
          /\ task' = [task EXCEPT !.kind = "seedMailbox"]
  /\ UNCHANGED <<mailboxes, changelog, known, faults>>

SeedMailbox ==
  /\ task.kind = "seedMailbox"
  /\ mailboxes' = mailboxes \cup {Seeds[task.next].organ}
  /\ task' = Seed(task.next + 1)
  /\ UNCHANGED <<manifest, changelog, known, faults>>

\* createManifest loads the map; the process serves requests from then on.
LoadManifest ==
  /\ task.kind = "seed" /\ task.next \notin DOMAIN Seeds
  /\ known' = manifest
  /\ task' = Idle
  /\ UNCHANGED <<manifest, mailboxes, changelog, faults>>

-----------------------------------------------------------------------------
(* Provisioning at run time.                                               *)

\* POST /manifest/:organ_id up to the first statement.  An organ that has a
\* row is answered with it, and nothing changes.
AddOrgan(o, required) ==
  /\ task = Idle
  /\ o \notin DOMAIN manifest
  /\ manifest' = With(manifest, o, required)
  /\ task' = [kind |-> "addMailbox", organ |-> o]
  /\ UNCHANGED <<mailboxes, changelog, known, faults>>

\* Mutant: the map in memory is left to the next start.
AddMailboxOnly ==
  /\ task.kind = "addMailbox"
  /\ mailboxes' = mailboxes \cup {task.organ}
  /\ task' = Idle
  /\ UNCHANGED <<manifest, changelog, known, faults>>

\* The second statement, and the entry of the map.
AddMailbox ==
  /\ task.kind = "addMailbox"
  /\ mailboxes' = mailboxes \cup {task.organ}
  /\ known' = With(known, task.organ, manifest[task.organ])
  /\ task' = Idle
  /\ UNCHANGED <<manifest, changelog, faults>>

\* The second statement throws: the route answers 500, the row stays, and the
\* map is not changed.
AddMailboxFails ==
  /\ MayFail
  /\ task.kind = "addMailbox"
  /\ failures' = failures + 1
  /\ task' = Idle
  /\ UNCHANGED <<provisioning, restarts>>

\* POST /mailbox/:organ_name, for any name; an organ that has a mailbox keeps
\* it.
RegisterMailbox(o) ==
  /\ task = Idle
  /\ o \notin mailboxes
  /\ mailboxes' = mailboxes \cup {o}
  /\ UNCHANGED <<manifest, changelog, known, task, faults>>

\* The process dies and is started again: the tables are left as they are.
ManifestRestart ==
  /\ MayFail
  /\ restarts' = restarts + 1
  /\ known' = <<>>
  /\ task' = InitDatabase
  /\ UNCHANGED <<manifest, mailboxes, changelog, failures>>

\* The steps in which no connection and no subscription takes part.
Provision ==
  \/ SeedChangelog \/ SeedOrgan \/ SeedMailbox
  \/ \E o \in Organs, required \in BOOLEAN : AddOrgan(o, required)
  \/ AddMailbox \/ AddMailboxFails
  \/ \E o \in Organs : RegisterMailbox(o)

-----------------------------------------------------------------------------
(* Properties.                                                             *)

ManifestTypeOK ==
  /\ manifest \in Maps /\ known \in Maps
  /\ mailboxes \subseteq Organs
  /\ changelog \in 0 .. MessageTypes
  /\ {failures, restarts} \subseteq 0 .. MaxFaults

\* Whenever an event is over, the map that decides who may register and who can
\* be written to holds what the table holds, after seeding, provisioning and
\* crashes in between (manifest.js:68-75).  Each failed provisioning hides one
\* organ from it, for which a second attempt is answered "already_exists".
KnownMirrorsManifest ==
  task = Idle =>
    /\ \A o \in DOMAIN known : o \in DOMAIN manifest /\ known[o] = manifest[o]
    /\ Cardinality(DOMAIN manifest \ DOMAIN known) <= failures

\* "Also creates a mailbox entry for the organ" (manifest.js:65) and "Seed ...
\* (idempotent)" (init.js:215, 224): an organ of the manifest that has no
\* mailbox, and a changelog that lacks entries, are being written or are the
\* work of a fault, each of which leaves at most one such gap.
Underway ==
  IF task.kind = "addMailbox" THEN {task.organ}
  ELSE IF task.kind = "seedMailbox" THEN {Seeds[task.next].organ} ELSE {}
MailboxGaps == DOMAIN manifest \ (mailboxes \cup Underway)
ChangelogGap == changelog < MessageTypes /\ task.kind # "changelog"
GapsByFaultOnly ==
  Cardinality(MailboxGaps) + (IF ChangelogGap THEN 1 ELSE 0)
    <= failures + restarts
=============================================================================
