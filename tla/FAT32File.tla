------------------------------ MODULE FAT32File ------------------------------
(***************************************************************************)
(* The open files of a FAT32 volume: the class FAT32File, with the FAT of  *)
(* FAT32BlockIOAdapter, the data region of the device and the two fields   *)
(* of a directory entry that a file changes.                               *)
(*                                                                         *)
(* The kernel runs one thread, so one call is in progress at a time.  A    *)
(* call is a sequence of device accesses.  Each of them may fail, or be    *)
(* the last one before the power is lost: an action makes at most one      *)
(* write to the device, and the loops of Seek, Read and Write take their   *)
(* iterations one action at a time.                                        *)
(***************************************************************************)
EXTENDS FAT32BlockIOAdapter, Sequences

CONSTANTS
  Files,             \* the files of the volume, each with its directory entry
  NoFile,            \* the file of no call
  DirectoryClusters, \* clusters that belong to directories, each a chain of one
  BytesPerCluster,
  Bytes,             \* the byte values that callers write
  Uninitialised,     \* a byte nobody wrote: a fresh cluster, the stack of Write
  UInt32Modulus,     \* 2^32 in the code
  MaxWriteLength,    \* bound: the longest buffer handed to a call
  MaxFileSize,       \* bound: no call is made that would write past it
  MaxFaults          \* bound: device errors and power losses together

ASSUME FileAssumption ==
  /\ DirectoryClusters \subseteq Cluster
  /\ RootDirectoryCluster \in DirectoryClusters
  /\ NoFile \notin Files
  /\ BytesPerCluster \in Nat \ {0}
  /\ UInt32Modulus \in Nat \ {0}
  /\ MaxWriteLength \in Nat
  /\ MaxFileSize \in Nat
  /\ MaxFaults \in Nat

(* Offsets into a file are 32-bit numbers in the code and do not wrap here,*)
(* where only their differences do: no chain is as long as that.           *)
ASSUME OffsetsFit == MaximumClusterNumber * BytesPerCluster <= UInt32Modulus

VARIABLES
  cluster_data, \* the data region of the device: the bytes of each cluster
  directory,    \* the directory entries on the device: first cluster and size
  open,         \* the files that have a FAT32File object, whose fields are:
  size_,        \*   directory_entry_.Size(), cached
  first_cluster_, current_cluster_, byte_offset_into_cluster_, byte_offset_into_file_,
  pc,           \* where the call in progress is, "idle" between calls
  call,         \* the call in progress: its kind, file and arguments
  transferred,  \* offset_into_buffer of Write
  new_cluster,  \* new_cluster_index, next_empty_cluster of Write
  block_buffer, \* block_buffer of Write
  returned,     \* the result code and bytes the last call gave its caller
  faults        \* device errors and power losses so far

positionVars == <<current_cluster_, byte_offset_into_cluster_, byte_offset_into_file_>>
objectVars == <<open, size_, first_cluster_, positionVars>>
localVars == <<transferred, new_cluster, block_buffer>>
vars == <<adapterVars, cluster_data, directory, objectVars, pc, call, localVars,
          returned, faults>>

Offsets == 0 .. (BytesPerCluster - 1)
AnyByte == Bytes \cup {Uninitialised}
Blank == [i \in Offsets |-> Uninitialised]
Buffers == UNION {[1 .. n -> Bytes] : n \in 0 .. MaxWriteLength}

UIntMinus(a, b) == (a - b) % UInt32Modulus \* uint32_t: wraps when b exceeds a
Smaller(a, b) == IF a <= b THEN a ELSE b

(* `target' is the position a seek or an append seeks, or the space in the *)
(* buffer a read fills.  `from' is a history field: the position when the  *)
(* call began, which no action looks at.                                   *)
Calls == [kind : {"none", "seek", "append", "write", "read"}, file : Files \cup {NoFile},
          buffer : Seq(AnyByte), target : Nat, from : Nat]

Responses == [code : {"SUCCESS", "DEVICE_FULL", "DEVICE_ERROR", "POWER_LOST"},
              bytes : Seq(AnyByte)]

NoCall == [kind |-> "none", file |-> NoFile,
           buffer |-> <<>>, target |-> 0, from |-> 0]

Init ==
  /\ fat = [c \in Cluster |-> IF c \in DirectoryClusters
                              THEN FAT32EntryAllocatedAndEndOfFile ELSE FAT32EntryFree]
  /\ last_empty_cluster_found = 0
  /\ cluster_data = [c \in Cluster |-> Blank]
  /\ directory = [f \in Files |-> [first |-> 0, size |-> 0]]
  /\ open = {}
  /\ size_ = [f \in Files |-> 0]
  /\ first_cluster_ = [f \in Files |-> 0]
  /\ current_cluster_ = [f \in Files |-> 0]
  /\ byte_offset_into_cluster_ = [f \in Files |-> 0]
  /\ byte_offset_into_file_ = [f \in Files |-> 0]
  /\ pc = "idle"
  /\ call = NoCall
  /\ transferred = 0
  /\ new_cluster = 0
  /\ block_buffer = Blank
  /\ returned = [code |-> "SUCCESS", bytes |-> <<>>]
  /\ faults = 0

-----------------------------------------------------------------------------
(* The start and the end of a call.                                        *)

Call(kind, f, buffer, target) ==
  [kind |-> kind, file |-> f, buffer |-> buffer, target |-> target,
   from |-> byte_offset_into_file_[f]]

Begin(c, label) ==
  /\ pc = "idle"
  /\ c.file \in open
  /\ call' = c
  /\ pc' = label
  /\ UNCHANGED <<adapterVars, cluster_data, directory, objectVars, localVars, returned, faults>>

\* The call returns; its locals are gone.
Return(code, bytes) ==
  /\ pc' = "idle"
  /\ call' = NoCall
  /\ transferred' = 0
  /\ new_cluster' = 0
  /\ block_buffer' = Blank
  /\ returned' = [code |-> code, bytes |-> bytes]

Goto(label) == pc' = label /\ UNCHANGED <<call, returned>>

\* Mutant: the file is always taken for an empty one.
WriteEntryAllocating(cluster, buffer) == "allocate"

\* Where Write begins, with the file at `cluster'.
WriteEntry(cluster, buffer) ==
  CASE cluster = 0                   -> "allocate"
    [] cluster # 0 /\ buffer # <<>>  -> "copy"
    [] cluster # 0 /\ buffer = <<>>  -> "resize"

-----------------------------------------------------------------------------
(* Opening: a FAT32File is made from the directory entry on the device.    *)

OpenFile(f) ==
  /\ pc = "idle"
  /\ f \notin open
  /\ open' = open \cup {f}
  /\ size_' = [size_ EXCEPT ![f] = directory[f].size]
  /\ first_cluster_' = [first_cluster_ EXCEPT ![f] = directory[f].first]
  /\ current_cluster_' = [current_cluster_ EXCEPT ![f] = directory[f].first]
  /\ byte_offset_into_cluster_' = [byte_offset_into_cluster_ EXCEPT ![f] = 0]
  /\ byte_offset_into_file_' = [byte_offset_into_file_ EXCEPT ![f] = 0]
  /\ UNCHANGED <<adapterVars, cluster_data, directory, pc, call, localVars, returned, faults>>

\* The object is destroyed, its fields go with it.
CloseFile(f) ==
  /\ pc = "idle"
  /\ f \in open
  /\ open' = open \ {f}
  /\ size_' = [size_ EXCEPT ![f] = 0]
  /\ first_cluster_' = [first_cluster_ EXCEPT ![f] = 0]
  /\ current_cluster_' = [current_cluster_ EXCEPT ![f] = 0]
  /\ byte_offset_into_cluster_' = [byte_offset_into_cluster_ EXCEPT ![f] = 0]
  /\ byte_offset_into_file_' = [byte_offset_into_file_ EXCEPT ![f] = 0]
  /\ UNCHANGED <<adapterVars, cluster_data, directory, pc, call, localVars, returned, faults>>

(* The two updates a file makes to its directory entry.                    *)

\* Mutant: the size is saved before there are clusters for it.
SetDirectoryEntryEarly(f, cluster) ==
  directory' = [directory EXCEPT ![f] = [first |-> cluster, size |-> Len(call.buffer)]]

SetDirectoryEntryFirstCluster(f, cluster) ==
  directory' = [directory EXCEPT ![f].first = cluster]

UpdateDirectoryEntrySize(f, size) ==
  directory' = [directory EXCEPT ![f].size = size]

-----------------------------------------------------------------------------
(* Seek, and the SeekEnd that Append begins with.                          *)

\* Mutant: the offset into the cluster is forgotten.
RewindPartly(f) ==
  /\ current_cluster_' = [current_cluster_ EXCEPT ![f] = first_cluster_[f]]
  /\ byte_offset_into_file_' = [byte_offset_into_file_ EXCEPT ![f] = 0]
  /\ UNCHANGED byte_offset_into_cluster_

Rewind(f) ==
  /\ current_cluster_' = [current_cluster_ EXCEPT ![f] = first_cluster_[f]]
  /\ byte_offset_into_cluster_' = [byte_offset_into_cluster_ EXCEPT ![f] = 0]
  /\ byte_offset_into_file_' = [byte_offset_into_file_ EXCEPT ![f] = 0]

\* Seek has nothing left to do, the file is at cluster `at'.
SeekFinished(at) ==
  IF call.kind = "append"
  THEN Goto(WriteEntry(at, call.buffer)) /\ UNCHANGED localVars
  ELSE Return("SUCCESS", <<>>)

SeekCall(f, position) == Begin(Call("seek", f, <<>>, position), "seek_from")

AppendCall(f, buffer) ==
  /\ size_[f] + Len(buffer) <= MaxFileSize
  /\ Begin(Call("append", f, buffer, size_[f]), "seek_from")

SeekFrom ==
  LET f == call.file IN
  /\ pc = "seek_from"
  /\ \/ /\ current_cluster_[f] = 0 \* an empty file: already at its end
        /\ UNCHANGED positionVars
        /\ SeekFinished(0)
     \/ /\ current_cluster_[f] # 0
        /\ call.target = 0
        /\ Rewind(f)
        /\ SeekFinished(first_cluster_[f])
     \/ /\ current_cluster_[f] # 0
        /\ call.target # 0
        /\ call' = [call EXCEPT !.target = Smaller(@, size_[f])]
        /\ pc' = "seek"
        /\ UNCHANGED <<positionVars, localVars, returned>>
  /\ UNCHANGED <<adapterVars, cluster_data, directory, open, size_, first_cluster_, faults>>

\* The subtraction wraps when the file is already past the position sought.
SeekBlock ==
  LET f == call.file
      bytes_to_read == Smaller(BytesPerCluster - byte_offset_into_cluster_[f],
                               UIntMinus(call.target, byte_offset_into_file_[f]))
  IN
  /\ pc = "seek"
  /\ byte_offset_into_file_' = [byte_offset_into_file_ EXCEPT ![f] = @ + bytes_to_read]
  /\ byte_offset_into_cluster_' = [byte_offset_into_cluster_ EXCEPT ![f] = @ + bytes_to_read]
  /\ IF byte_offset_into_file_[f] + bytes_to_read >= call.target
     THEN SeekFinished(current_cluster_[f])
     ELSE Goto("seek_next") /\ UNCHANGED localVars
  /\ UNCHANGED <<adapterVars, cluster_data, directory, open, size_, first_cluster_,
                 current_cluster_, faults>>

\* The loop ends without reaching the position when the chain ends first.
SeekNext ==
  LET f == call.file
      next == NextClusterInChain(current_cluster_[f])
  IN
  /\ pc = "seek_next"
  /\ current_cluster_[f] \in Cluster
  /\ IF IsEndOfChain(next)
     THEN SeekFinished(current_cluster_[f]) /\ UNCHANGED positionVars
     ELSE /\ current_cluster_' = [current_cluster_ EXCEPT ![f] = next]
          /\ byte_offset_into_cluster_' = [byte_offset_into_cluster_ EXCEPT ![f] = 0]
          /\ Goto("seek")
          /\ UNCHANGED <<byte_offset_into_file_, localVars>>
  /\ UNCHANGED <<adapterVars, cluster_data, directory, open, size_, first_cluster_, faults>>

-----------------------------------------------------------------------------
(* Read: the buffer has `space' bytes left and takes what is read.         *)

ReadCall(f, space) == Begin(Call("read", f, <<>>, space), "read")

BufferOverfull == call.target < Len(call.buffer) \* mutant: one loop too many
BufferFull == call.target <= Len(call.buffer)

ReadFinished ==
  /\ pc = "read"
  /\ current_cluster_[call.file] = 0 \/ BufferFull
  /\ Return("SUCCESS", call.buffer)
  /\ UNCHANGED <<adapterVars, cluster_data, directory, objectVars, faults>>

ReadBlock ==
  LET f == call.file
      offset == byte_offset_into_cluster_[f]
      bytes_to_read == Smaller(BytesPerCluster - offset,
                               UIntMinus(size_[f], byte_offset_into_file_[f]))
      bytes_appended == Smaller(bytes_to_read, call.target - Len(call.buffer))
      appended == call.buffer \o [i \in 1 .. bytes_appended |->
                                    cluster_data[current_cluster_[f]][offset + i - 1]]
  IN
  /\ pc = "read"
  /\ current_cluster_[f] \in Cluster
  /\ ~BufferFull
  /\ byte_offset_into_file_' = [byte_offset_into_file_ EXCEPT ![f] = @ + bytes_appended]
  /\ byte_offset_into_cluster_' = [byte_offset_into_cluster_ EXCEPT ![f] = @ + bytes_appended]
  /\ IF byte_offset_into_file_[f] + bytes_appended >= size_[f]
     THEN Return("SUCCESS", appended)
     ELSE /\ call' = [call EXCEPT !.buffer = appended]
          /\ pc' = IF offset + bytes_appended >= BytesPerCluster THEN "read_next" ELSE "read"
          /\ UNCHANGED <<localVars, returned>>
  /\ UNCHANGED <<adapterVars, cluster_data, directory, open, size_, first_cluster_,
                 current_cluster_, faults>>

ReadNext ==
  LET f == call.file
      next == NextClusterInChain(current_cluster_[f])
  IN
  /\ pc = "read_next"
  /\ current_cluster_[f] \in Cluster
  /\ IF IsEndOfChain(next)
     THEN Return("SUCCESS", call.buffer) /\ UNCHANGED positionVars
     ELSE /\ current_cluster_' = [current_cluster_ EXCEPT ![f] = next]
          /\ byte_offset_into_cluster_' = [byte_offset_into_cluster_ EXCEPT ![f] = 0]
          /\ Goto("read")
          /\ UNCHANGED <<byte_offset_into_file_, localVars>>
  /\ UNCHANGED <<adapterVars, cluster_data, directory, open, size_, first_cluster_, faults>>

-----------------------------------------------------------------------------
(* Write: at the position of the file, which it leaves behind the bytes    *)
(* written.  Append continues here once it has sought the end.             *)

WriteCall(f, buffer) ==
  /\ byte_offset_into_file_[f] + Len(buffer) <= MaxFileSize
  /\ Begin(Call("write", f, buffer, 0), WriteEntry(current_cluster_[f], buffer))

DeviceFull ==
  /\ \/ pc = "allocate" /\ NoEmptyCluster(0)
     \/ /\ pc = "advance"
        /\ byte_offset_into_file_[call.file] >= size_[call.file]
        /\ NoEmptyCluster(current_cluster_[call.file] + 1)
  /\ Return("DEVICE_FULL", <<>>)
  /\ UNCHANGED <<adapterVars, cluster_data, directory, objectVars, faults>>

\* The first cluster of an empty file: found and marked ...
AllocateFirstCluster ==
  /\ pc = "allocate"
  /\ \E c \in Cluster :
       /\ FindNextEmptyCluster(0, c)
       /\ UpdateFATTableEntry(c, FAT32EntryAllocatedAndEndOfFile)
       /\ new_cluster' = c
  /\ Goto("publish")
  /\ UNCHANGED <<cluster_data, directory, objectVars, transferred, block_buffer, faults>>

\* ... then entered in the directory (SetDirectoryEntryFirstCluster).
PublishFirstCluster ==
  LET f == call.file IN
  /\ pc = "publish"
  /\ SetDirectoryEntryFirstCluster(f, new_cluster)
  /\ first_cluster_' = [first_cluster_ EXCEPT ![f] = new_cluster]
  /\ current_cluster_' = [current_cluster_ EXCEPT ![f] = new_cluster]
  /\ Goto(IF call.buffer = <<>> THEN "resize" ELSE "copy")
  /\ UNCHANGED <<adapterVars, cluster_data, open, size_, byte_offset_into_cluster_,
                 byte_offset_into_file_, localVars, faults>>

\* The cluster is read first only if the position is not at its start.
BlockUnread(cluster, offset) == block_buffer \* mutant: it is never read
BlockBefore(cluster, offset) == IF offset > 0 THEN cluster_data[cluster] ELSE block_buffer

CopyBlock ==
  LET f == call.file
      cluster == current_cluster_[f]
      offset == byte_offset_into_cluster_[f]
      before == BlockBefore(cluster, offset)
      bytes_to_copy == Smaller(BytesPerCluster - offset, Len(call.buffer) - transferred)
      after == [i \in Offsets |->
                  IF offset <= i /\ i < offset + bytes_to_copy
                  THEN call.buffer[transferred + i - offset + 1]
                  ELSE before[i]]
  IN
  /\ pc = "copy"
  /\ cluster \in Cluster
  /\ cluster_data' = [cluster_data EXCEPT ![cluster] = after]
  /\ block_buffer' = after
  /\ byte_offset_into_file_' = [byte_offset_into_file_ EXCEPT ![f] = @ + bytes_to_copy]
  /\ byte_offset_into_cluster_' = [byte_offset_into_cluster_ EXCEPT ![f] = @ + bytes_to_copy]
  /\ transferred' = transferred + bytes_to_copy
  /\ Goto(IF transferred + bytes_to_copy >= Len(call.buffer) THEN "resize" ELSE "advance")
  /\ UNCHANGED <<adapterVars, directory, open, size_, first_cluster_, current_cluster_,
                 new_cluster, faults>>

\* Within the file, the next cluster of the chain: whatever the entry holds.
FollowChain ==
  LET f == call.file IN
  /\ pc = "advance"
  /\ byte_offset_into_file_[f] < size_[f]
  /\ current_cluster_[f] \in Cluster
  /\ current_cluster_' = [current_cluster_ EXCEPT ![f] = NextClusterInChain(current_cluster_[f])]
  /\ byte_offset_into_cluster_' = [byte_offset_into_cluster_ EXCEPT ![f] = 0]
  /\ Goto("copy")
  /\ UNCHANGED <<adapterVars, cluster_data, directory, open, size_, first_cluster_,
                 byte_offset_into_file_, localVars, faults>>

\* At its end, a new cluster: linked from the current one ...
LinkNewCluster ==
  LET f == call.file IN
  /\ pc = "advance"
  /\ byte_offset_into_file_[f] >= size_[f]
  /\ current_cluster_[f] \in Cluster
  /\ \E c \in Cluster :
       /\ FindNextEmptyCluster(current_cluster_[f] + 1, c)
       /\ UpdateFATTableEntry(current_cluster_[f], c)
       /\ new_cluster' = c
  /\ Goto("mark")
  /\ UNCHANGED <<cluster_data, directory, objectVars, transferred, block_buffer, faults>>

\* ... then marked as the end of the chain.
MarkNewCluster ==
  LET f == call.file IN
  /\ pc = "mark"
  /\ UpdateFATTableEntry(new_cluster, FAT32EntryAllocatedAndEndOfFile)
  /\ current_cluster_' = [current_cluster_ EXCEPT ![f] = new_cluster]
  /\ byte_offset_into_cluster_' = [byte_offset_into_cluster_ EXCEPT ![f] = 0]
  /\ Goto("copy")
  /\ UNCHANGED <<last_empty_cluster_found, cluster_data, directory, open, size_,
                 first_cluster_, byte_offset_into_file_, localVars, faults>>

\* Finally the size, in the object and in the directory (UpdateDirectoryEntrySize).
Resize ==
  LET f == call.file IN
  /\ pc = "resize"
  /\ IF byte_offset_into_file_[f] > size_[f]
     THEN /\ size_' = [size_ EXCEPT ![f] = byte_offset_into_file_[f]]
          /\ UpdateDirectoryEntrySize(f, byte_offset_into_file_[f])
     ELSE UNCHANGED <<size_, directory>>
  /\ Return("SUCCESS", <<>>)
  /\ UNCHANGED <<adapterVars, cluster_data, open, first_cluster_, positionVars, faults>>

-----------------------------------------------------------------------------
(* What may go wrong between two actions of a call.                        *)

\* A device access fails and the call returns at once.  What the step did
\* in memory before that access stays: the search for a cluster raised the
\* hint, the size in the object was updated.
DeviceError ==
  LET f == call.file IN
  /\ faults < MaxFaults
  /\ faults' = faults + 1
  /\ \/ /\ pc \notin {"idle", "seek_from", "seek", "resize"}
        /\ UNCHANGED <<last_empty_cluster_found, size_>>
     \/ /\ pc \in {"allocate", "advance"}
        /\ pc = "advance" => byte_offset_into_file_[f] >= size_[f]
        /\ \E c \in Cluster :
             FindNextEmptyCluster(IF pc = "allocate" THEN 0 ELSE current_cluster_[f] + 1, c)
        /\ UNCHANGED size_
     \/ /\ pc = "resize"
        /\ byte_offset_into_file_[f] > size_[f]
        /\ size_' = [size_ EXCEPT ![f] = byte_offset_into_file_[f]]
        /\ UNCHANGED last_empty_cluster_found
  /\ Return("DEVICE_ERROR", <<>>)
  /\ UNCHANGED <<fat, cluster_data, directory, open, first_cluster_, positionVars>>

\* Everything in memory is lost, the volume is mounted again.
PowerLoss ==
  /\ faults < MaxFaults
  /\ faults' = faults + 1
  /\ last_empty_cluster_found' = 0
  /\ open' = {}
  /\ size_' = [f \in Files |-> 0]
  /\ first_cluster_' = [f \in Files |-> 0]
  /\ current_cluster_' = [f \in Files |-> 0]
  /\ byte_offset_into_cluster_' = [f \in Files |-> 0]
  /\ byte_offset_into_file_' = [f \in Files |-> 0]
  /\ Return("POWER_LOST", <<>>)
  /\ UNCHANGED <<fat, cluster_data, directory>>

-----------------------------------------------------------------------------
(* Specifications.                                                         *)

\* The call in progress takes its next step.
Continue ==
  \/ SeekFrom \/ SeekBlock \/ SeekNext
  \/ ReadFinished \/ ReadBlock \/ ReadNext
  \/ AllocateFirstCluster \/ PublishFirstCluster
  \/ CopyBlock \/ FollowChain \/ LinkNewCluster \/ MarkNewCluster \/ Resize
  \/ DeviceFull

BeginCall ==
  \E f \in Files :
    \/ OpenFile(f)
    \/ CloseFile(f)
    \/ \E position \in 0 .. MaxFileSize : SeekCall(f, position)
    \/ \E space \in 0 .. MaxFileSize : ReadCall(f, space)
    \/ \E buffer \in Buffers : WriteCall(f, buffer) \/ AppendCall(f, buffer)

Next == BeginCall \/ Continue \/ DeviceError \/ PowerLoss

\* A call is a loop of the one thread of the kernel: it keeps running.
Spec == Init /\ [][Next]_vars /\ WF_vars(Continue)

(* The calls of a program that reads, rewinds, seeks forward and extends:  *)
(* it never overwrites and never seeks back but to the beginning.          *)
BeginSequentialCall ==
  \E f \in Files :
    \/ OpenFile(f)
    \/ CloseFile(f)
    \/ \E position \in {0} \cup byte_offset_into_file_[f] .. MaxFileSize : SeekCall(f, position)
    \/ \E space \in 0 .. MaxFileSize : ReadCall(f, space)
    \/ \E buffer \in Buffers :
         \/ byte_offset_into_file_[f] = size_[f] /\ WriteCall(f, buffer)
         \/ AppendCall(f, buffer)

SequentialNext == BeginSequentialCall \/ Continue

SequentialSpec == Init /\ [][SequentialNext]_vars /\ WF_vars(Continue)

-----------------------------------------------------------------------------
(* Properties.                                                             *)

DeviceTypeOK ==
  /\ fat \in [Cluster -> FATEntry]
  /\ cluster_data \in [Cluster -> [Offsets -> AnyByte]]
  /\ directory \in [Files -> [first : Cluster \cup {0}, size : Nat]]
  /\ faults \in Nat

ObjectTypeOK ==
  /\ last_empty_cluster_found \in Cluster \cup {0}
  /\ open \subseteq Files
  /\ size_ \in [Files -> Nat]
  /\ first_cluster_ \in [Files -> Cluster \cup {0}]
  /\ current_cluster_ \in [Files -> FATEntry]
  /\ byte_offset_into_cluster_ \in [Files -> 0 .. BytesPerCluster]
  /\ byte_offset_into_file_ \in [Files -> Nat]

CallTypeOK ==
  /\ pc \in {"idle", "seek_from", "seek", "seek_next", "read", "read_next", "allocate",
             "publish", "copy", "advance", "mark", "resize"}
  /\ call \in Calls
  /\ pc # "idle" => call.file \in Files
  /\ transferred \in Nat
  /\ new_cluster \in Cluster \cup {0}
  /\ block_buffer \in [Offsets -> AnyByte]
  /\ returned \in Responses

(* Every variable holds what its C++ counterpart can hold.  A position may *)
(* be at the end of its cluster, one past the last byte; a cluster number  *)
(* is whatever the FAT entry it was read from held.                        *)
TypeOK == DeviceTypeOK /\ ObjectTypeOK /\ CallTypeOK

FirstClusters == {directory[f].first : f \in Files} \ {0}

\* No two ways lead to a cluster.
ChainsApart ==
  /\ \A c, d \in Cluster : fat[c] \in Cluster /\ fat[c] = fat[d] => c = d
  /\ \A c \in Cluster : fat[c] \notin FirstClusters \cup DirectoryClusters
  /\ \A f, g \in Files : directory[f].first = directory[g].first /\ f # g => directory[f].first = 0
  /\ FirstClusters \cap DirectoryClusters = {}

\* What is linked is allocated, or the cluster that Write marks next.
LinksAllocated ==
  /\ \A c \in Cluster : fat[c] \in Cluster =>
       fat[fat[c]] # FAT32EntryFree \/ (pc = "mark" /\ fat[c] = new_cluster)
  /\ \A c \in FirstClusters : fat[c] # FAT32EntryFree

(* Until something fails no cluster is reached in two ways.  No two        *)
(* entries of the FAT name the same next cluster, no entry names the first *)
(* cluster of a file or of a directory, and two files never begin with the *)
(* same cluster, at every point of every call: FindNextEmptyCluster marks  *)
(* nothing, so what keeps two chains apart is only the order of the        *)
(* updates that follow it.                                                 *)
NoCrossLink == faults = 0 => ChainsApart

(* Until something fails a chain leads through allocated clusters to an    *)
(* end mark.  The link to a new cluster is written before the new cluster  *)
(* is marked, so the one exception is the cluster that Write is to mark.   *)
NoDanglingLink == faults = 0 => LinksAllocated

(* Until something fails every allocated cluster can be reached from a     *)
(* directory entry, except the first cluster of a file between its         *)
(* allocation and its entry in the directory.                              *)
NoLostCluster ==
  faults = 0 => \A c \in Cluster : fat[c] # FAT32EntryFree =>
    \/ c \in DirectoryClusters
    \/ \E f \in Files : c \in ChainClusters(directory[f].first)
    \/ pc = "publish" /\ c = new_cluster

(* The two offsets and the current cluster of an open file agree: the      *)
(* current cluster is the one of its chain that byte_offset_into_file_     *)
(* falls into, or the one it has just left.                                *)
PositionConsistent ==
  \A f \in open : current_cluster_[f] # 0 =>
    LET start_of_cluster == byte_offset_into_file_[f] - byte_offset_into_cluster_[f]
        n == start_of_cluster \div BytesPerCluster
    IN  /\ start_of_cluster % BytesPerCluster = 0
        /\ n \in 0 .. MaximumClusterNumber
        /\ ChainWalk(first_cluster_[f])[n] = current_cluster_[f]
        /\ current_cluster_[f] \in Cluster

(* The clusters a file needs for the size its directory entry promises.    *)
CommittedClusters(f) ==
  {ChainWalk(directory[f].first)[n] :
     n \in {m \in 0 .. MaximumClusterNumber : m * BytesPerCluster < directory[f].size}}

(* The directory entry on the device never promises more bytes than the    *)
(* chain of the file holds, whatever failed and whenever the power went:   *)
(* Write extends the chain first and updates the size last.                *)
SizeIsCovered ==
  \A f \in Files :
    /\ CommittedClusters(f) \subseteq {c \in Cluster : fat[c] # FAT32EntryFree}
    /\ directory[f].size <= BytesPerCluster * ChainLength(directory[f].first)

(* The bytes two directory entries promise never share a cluster, nor do   *)
(* they use a cluster of a directory, even when failures have left a link  *)
(* to a cluster that another file then allocated.                          *)
CommittedDisjoint ==
  \A f \in Files :
    /\ CommittedClusters(f) \cap DirectoryClusters = {}
    /\ \A g \in Files \ {f} : CommittedClusters(f) \cap CommittedClusters(g) = {}

ByteAt(f, i) ==
  cluster_data[ChainWalk(directory[f].first)[i \div BytesPerCluster]][i % BytesPerCluster]

DiskContent(f) == [i \in 1 .. directory[f].size |-> ByteAt(f, i - 1)]

(* The bytes a directory entry promises stay where they are, and no write  *)
(* to another file reaches them: updates of the FAT keep the clusters that *)
(* hold them in their order, also those that continue where a failure left *)
(* a link or an allocation half done.                                      *)
CommittedDataStable ==
  [][\A f \in Files :
       /\ \A n \in 0 .. MaximumClusterNumber : n * BytesPerCluster < directory[f].size =>
            ChainWalk(directory[f].first)'[n] = ChainWalk(directory[f].first)[n]
       /\ pc = "copy" /\ call.file # f =>
            current_cluster_[call.file] \notin CommittedClusters(f)]_vars

(* To a program that only extends its files and reads them forward, a file *)
(* is a sequence of bytes: reads return what was appended, in order,       *)
(* across clusters and across calls on other files.                        *)
Abstract == INSTANCE ByteFile WITH
  Values <- Bytes,
  content <- [f \in Files |-> DiskContent(f)],
  position <- [f \in Files |-> IF pc # "idle" /\ call.file = f
                               THEN call.from ELSE byte_offset_into_file_[f]],
  request <- IF pc = "idle" THEN [kind |-> "none"]
             ELSE [kind |-> call.kind, file |-> call.file,
                   target |-> IF call.kind = "read" THEN call.target
                              ELSE Smaller(call.target, size_[call.file]),
                   buffer |-> IF call.kind = "read" THEN <<>> ELSE call.buffer]

ImplementsByteFile == Abstract!Spec

(* Every call returns: the loops of Seek, Read and Write end.              *)
CallReturns == pc # "idle" ~> pc = "idle"

-----------------------------------------------------------------------------
(* What comments in fat32_file.cpp say, and the code does not always do.   *)

CallSucceeds(kinds) ==
  call.kind \in kinds /\ call' = NoCall /\ returned'.code = "SUCCESS"

(* "Set position to the smaller of the position or the file size": a Seek  *)
(* that succeeds leaves the file at that position.                         *)
SeekReachesPosition ==
  [][CallSucceeds({"seek"}) =>
       byte_offset_into_file_'[call.file] = Smaller(call.target, size_[call.file])]_vars

(* "If we have data already written into this cluster, then read it": a    *)
(* Write changes the committed bytes it was asked to write and no others.  *)
WriteKeepsOtherBytes ==
  [][\A f \in Files : \A i \in 0 .. (directory[f].size - 1) :
       \/ ByteAt(f, i)' = ByteAt(f, i)
       \/ pc = "copy" /\ call.file = f /\ i \in byte_offset_into_file_[f] .. (byte_offset_into_file_'[f] - 1)]_vars

(* "Move to the end of the file": when Append starts to write it is at the *)
(* end of the file.                                                        *)
AppendStartsAtEnd ==
  [][/\ call.kind = "append"
     /\ pc \in {"seek_from", "seek", "seek_next"}
     /\ pc' \in {"allocate", "copy", "resize"}
     => byte_offset_into_file_'[call.file] = size_[call.file]]_vars

(* "We need to update the directory entry saved with the file and also the *)
(* entry on the disk": once a Write has succeeded, the two sizes agree.    *)
SuccessSavesSize ==
  [][CallSucceeds({"write", "append"}) => directory'[call.file].size = size_'[call.file]]_vars

=============================================================================
