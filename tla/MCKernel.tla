------------------------------- MODULE MCKernel -------------------------------
(***************************************************************************)
(* The parts of the kernel below and beside the filesystem, its start and  *)
(* its command line, which share no state: each is checked by itself.  A   *)
(* behaviour is one of the part that `part' names, the others rest in a    *)
(* first state.                                                            *)
(***************************************************************************)
EXTENDS SDCardController, Mailbox, SystemTimer, MCRegistry, MemoryHeap, ListOperations,
        LRUCache, FAT32Filenames, FilesystemPath, Mounting, CommandLine, Vector, ForwardList

VARIABLE part

MCTagWords == <<1, 2, 3>>

\* One command with a parent, one without; "a" a letter.
MCCommands ==
  {[path |-> <<<<"a">>, <<"a">>>>, arguments |-> 1], [path |-> <<<<"a", "a">>>>, arguments |-> 2]}

NoPartition == [fat32 |-> FALSE, label |-> NoVolumeLabel]

vars == <<sdVars, mbVars, tmVars, registryVars, heapVars, listVars, lruVars, long_name, path_string,
          mountingVars, commandVars, vectorVars, forwardVars, part>>

Init ==
  /\ part \in {"sd_card", "mailbox", "timer", "registry", "heap", "list", "lru", "names", "path",
               "mounting", "command line", "vector", "forward list"}
  /\ SDInit /\ MBInit /\ TMInit
  /\ part # "sd_card" => ~card.v2 /\ card.blocks = NoSDCall.before
  /\ RegistryInit /\ HeapInit /\ ListInit /\ LRUInit /\ FilenamesInit /\ PathInit
  /\ MountingInit /\ CommandLineInit /\ VectorInit /\ ForwardInit
  /\ part # "mounting" =>
       partition_table = [i \in TableEntries |-> NoPartition] /\ boot_signature
  /\ part # "command line" => input[1] = EndOfString

Next ==
  /\ UNCHANGED part
  /\ IF part = "sd_card" THEN SDNext ELSE UNCHANGED sdVars
  /\ IF part = "mailbox" THEN MBNext ELSE UNCHANGED mbVars
  /\ IF part = "timer" THEN TMNext ELSE UNCHANGED tmVars
  /\ IF part = "registry" THEN RegistryNext ELSE UNCHANGED registryVars
  /\ IF part = "heap" THEN HeapNext ELSE UNCHANGED heapVars
  /\ IF part = "list" THEN ListNext ELSE UNCHANGED listVars
  /\ IF part = "lru" THEN LRUNext ELSE UNCHANGED lruVars
  /\ IF part = "names" THEN FilenamesNext ELSE UNCHANGED long_name
  /\ IF part = "path" THEN PathNext ELSE UNCHANGED path_string
  /\ IF part = "mounting" THEN MountingNext ELSE UNCHANGED mountingVars
  /\ IF part = "command line" THEN CommandLineNext ELSE UNCHANGED commandVars
  /\ IF part = "vector" THEN VectorNext ELSE UNCHANGED vectorVars
  /\ IF part = "forward list" THEN ForwardNext ELSE UNCHANGED forwardVars

Spec == Init /\ [][Next]_vars /\ (part = "timer" => TMFairness)

=============================================================================
