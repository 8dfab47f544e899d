------------------------------- MODULE Mounting -------------------------------
(***************************************************************************)
(* From the reset of the SD card to the command line: the partition table  *)
(* is read, the volume of each FAT32 partition asked for its label, a      *)
(* filesystem made and registered for each, the one of the first partition *)
(* found again, and the command line started on it.                        *)
(*                                                                         *)
(* The card may fail at any time.  A label is the name and the alias of    *)
(* its filesystem, and the registry refuses an entity with the name or the *)
(* alias of another: of another filesystem, of the console, or of the      *)
(* command line, which is registered last.                                 *)
(***************************************************************************)
EXTENDS Integers, Sequences, FiniteSets

CONSTANTS
  PartitionEntries, \* MBR_NUMBER_OF_PARTITION_ENTRIES
  VolumeLabels,
  NoVolumeLabel,    \* of a volume without a volume entry
  NoFilesystem,
  ConsoleName, ConsoleAlias, CLIName, CLIAlias

ASSUME MountingAssumption ==
  /\ PartitionEntries \in Nat /\ NoVolumeLabel \notin VolumeLabels
  /\ NoFilesystem \notin 0 .. PartitionEntries - 1
  /\ ConsoleName # CLIName /\ ConsoleAlias # CLIAlias

VARIABLES
  partition_table,    \* on the card: which entries are of FAT32, and the labels
  boot_signature,     \* on the card: whether the partition table has its signature
  boot_step,          \* where in kernel_main the system is
  partition_entry,    \* i of GetPartitions
  found_partitions,   \* partitions, less those mounted
  entities,           \* in the registry
  cli_filesystem,     \* current_filesystem_id_ of the command line
  device_failed       \* history: whether the card failed at anything

mountingVars ==
  <<partition_table, boot_signature, boot_step, partition_entry, found_partitions, entities,
    cli_filesystem, device_failed>>

TableEntries == 0 .. PartitionEntries - 1

\* Called by the partition of its volume, if it is a filesystem.
OSEntity(name, alias, filesystem, boot) ==
  [name |-> name, alias |-> alias, filesystem |-> filesystem, boot |-> boot]

Console == OSEntity(ConsoleName, ConsoleAlias, NoFilesystem, FALSE)

MountingInit ==
  /\ partition_table \in [TableEntries -> [fat32 : BOOLEAN, label : VolumeLabels \cup {NoVolumeLabel}]]
  /\ boot_signature \in BOOLEAN
  /\ boot_step = "initialize" /\ partition_entry = 0 /\ found_partitions = << >>
  /\ entities = {Console}
  /\ cli_filesystem = NoFilesystem /\ device_failed = FALSE

\* The card fails at what it is asked for.
DeviceFails == device_failed' = TRUE

DeviceAnswers == UNCHANGED device_failed

GoTo(step) == boot_step' = step

\* SDCardController::Initialize.  kernel_main does not look at what becomes of the mounting.
InitializeCard ==
  /\ boot_step = "initialize"
  /\ \/ DeviceFails /\ GoTo("find boot filesystem")
     \/ DeviceAnswers /\ GoTo("master boot record")
  /\ UNCHANGED <<partition_table, boot_signature, partition_entry, found_partitions, entities,
                 cli_filesystem>>

ReadMasterBootRecord ==
  /\ boot_step = "master boot record"
  /\ \/ DeviceFails /\ GoTo("find boot filesystem")
     \/ DeviceAnswers /\ GoTo(IF boot_signature THEN "partitions" ELSE "find boot filesystem")
  /\ UNCHANGED <<partition_table, boot_signature, partition_entry, found_partitions, entities,
                 cli_filesystem>>

Partition(i) == [entry |-> i, name |-> partition_table[i].label, boot |-> i = 0]

\* Mutant: the last entry is not looked at.
TableIsNearlyRead == partition_entry >= PartitionEntries - 1

TableIsRead == partition_entry >= PartitionEntries

\* One turn of the loop of GetPartitions: what it finds is lost when one volume cannot be read.
GetPartition ==
  /\ boot_step = "partitions" /\ ~TableIsRead
  /\ \/ /\ partition_table[partition_entry].fat32
        /\ DeviceFails /\ GoTo("find boot filesystem")
        /\ found_partitions' = << >>
        /\ UNCHANGED partition_entry
     \/ /\ DeviceAnswers
        /\ partition_entry' = partition_entry + 1
        /\ found_partitions' =
             IF partition_table[partition_entry].fat32
                /\ partition_table[partition_entry].label # NoVolumeLabel
             THEN Append(found_partitions, Partition(partition_entry)) ELSE found_partitions
        /\ UNCHANGED boot_step
  /\ UNCHANGED <<partition_table, boot_signature, entities, cli_filesystem>>

HavePartitions ==
  /\ boot_step = "partitions" /\ TableIsRead
  /\ GoTo("filesystems")
  /\ UNCHANGED <<partition_table, boot_signature, partition_entry, found_partitions, entities,
                 cli_filesystem, device_failed>>

\* Mutant: an alias may be in use.
MayRegisterName(entity) == \A other \in entities : other.name # entity.name

\* AddEntity of the registry: whether no other has the name or the alias.
MayRegister(entity) ==
  \A other \in entities : other.name # entity.name /\ other.alias # entity.alias

\* One turn of the loop of MountSDCardFilesystems: a volume that cannot be read any more is
\* passed over, and so is one with a name in use.
MountFilesystem ==
  /\ boot_step = "filesystems" /\ found_partitions # << >>
  /\ LET partition == Head(found_partitions)
         filesystem == OSEntity(partition.name, partition.name, partition.entry, partition.boot)
     IN \/ DeviceFails /\ UNCHANGED entities
        \/ DeviceAnswers /\ entities' = IF MayRegister(filesystem) THEN entities \cup {filesystem}
                                        ELSE entities
  /\ found_partitions' = Tail(found_partitions)
  /\ UNCHANGED <<partition_table, boot_signature, boot_step, partition_entry, cli_filesystem>>

Mounted ==
  /\ boot_step = "filesystems" /\ found_partitions = << >>
  /\ GoTo("find boot filesystem")
  /\ UNCHANGED <<partition_table, boot_signature, partition_entry, found_partitions, entities,
                 cli_filesystem, device_failed>>

\* The first filesystem marked as boot among those registered.
BootFilesystems == {entity \in entities : entity.filesystem # NoFilesystem /\ entity.boot}

HaltWithoutBootFilesystem ==
  /\ boot_step = "find boot filesystem" /\ BootFilesystems = {}
  /\ GoTo("halted")
  /\ UNCHANGED <<partition_table, boot_signature, partition_entry, found_partitions, entities,
                 cli_filesystem, device_failed>>

StartCommandLineInterface ==
  /\ boot_step = "find boot filesystem"
  /\ \E boot_filesystem \in BootFilesystems :
       LET cli == OSEntity(CLIName, CLIAlias, NoFilesystem, FALSE)
       IN IF MayRegister(cli)
          THEN /\ entities' = entities \cup {cli}
               /\ cli_filesystem' = boot_filesystem.filesystem
               /\ GoTo("command line")
          ELSE GoTo("halted") /\ UNCHANGED <<entities, cli_filesystem>>
  /\ UNCHANGED <<partition_table, boot_signature, partition_entry, found_partitions, device_failed>>

MountingNext ==
  \/ InitializeCard \/ ReadMasterBootRecord
  \/ GetPartition \/ HavePartitions \/ MountFilesystem \/ Mounted
  \/ HaltWithoutBootFilesystem \/ StartCommandLineInterface

MountingSpec == MountingInit /\ [][MountingNext]_mountingVars

-----------------------------------------------------------------------------
(* Properties.                                                             *)

HasVolume(i) == partition_table[i].fat32 /\ partition_table[i].label # NoVolumeLabel

IsRegistered(i) == \E entity \in entities : entity.filesystem = i

\* The command line works on a filesystem that is registered and is that of the first entry
\* of the partition table, whichever other volumes were found, could not be read or were
\* refused.
CommandLineIsOnBoot ==
  boot_step = "command line" =>
    /\ cli_filesystem = 0 /\ HasVolume(0)
    /\ \E entity \in entities : entity.filesystem = 0 /\ entity.boot

\* Every filesystem of the registry is of a FAT32 volume and under its label, and a name or an
\* alias leads to one entity only.
FilesystemsAreVolumes ==
  /\ \A entity \in entities :
       entity.filesystem # NoFilesystem =>
         /\ entity.filesystem \in TableEntries /\ HasVolume(entity.filesystem)
         /\ entity.name = partition_table[entity.filesystem].label /\ entity.alias = entity.name
  /\ \A one, other \in entities :
       one.name = other.name \/ one.alias = other.alias => one = other

\* The label of a volume is that of one before it, or that of the console.
LabelIsTaken(i) ==
  \/ partition_table[i].label \in {ConsoleName, ConsoleAlias}
  \/ \E j \in 0 .. i - 1 : HasVolume(j) /\ partition_table[j].label = partition_table[i].label

MountingIsOver == boot_step \in {"find boot filesystem", "command line", "halted"}

\* Unless the card fails, every volume with a label of its own has its filesystem once the
\* mounting is over; and the system halts only without a partition table, without a volume in
\* its first entry, or for a name in use: the label of that volume or that of the command line.
EveryVolumeIsMounted ==
  ~device_failed /\ boot_signature =>
    /\ MountingIsOver => \A i \in TableEntries : HasVolume(i) /\ ~LabelIsTaken(i) => IsRegistered(i)
    /\ boot_step = "halted" =>
         \/ 0 \notin TableEntries \/ ~HasVolume(0) \/ LabelIsTaken(0)
         \/ \E i \in TableEntries : HasVolume(i) /\ partition_table[i].label \in {CLIName, CLIAlias}

\* What the registry holds is on the card, each under its label, and the command line works on
\* the one of them that is to be booted from.
StartIsSound == FilesystemsAreVolumes /\ CommandLineIsOnBoot

=============================================================================
