--------------------------- MODULE FAT32FileProofs ---------------------------
(***************************************************************************)
(* Theorems about FAT32File, for every number of files, clusters, bytes    *)
(* and faults: type correctness, and the structure of the FAT as long as   *)
(* nothing has failed.                                                     *)
(***************************************************************************)
EXTENDS FAT32File, TLAPS

(***************************************************************************)
(* Type correctness.  TypeOK is not inductive: that the copy loop of Write *)
(* never moves backwards needs that it never runs past the buffer.         *)
(***************************************************************************)
TransferWithinBuffer ==
  /\ pc \notin {"copy", "advance", "mark", "resize"} => transferred = 0
  /\ pc \in {"copy", "advance", "mark"} => transferred < Len(call.buffer)

TypeInv == TypeOK /\ TransferWithinBuffer

(* The clusters are numbers between the reserved entries and the marks.    *)
LEMMA ClusterNumbers ==
  /\ Cluster \subseteq Nat \ {0}
  /\ FATEntry \subseteq Nat
  /\ \A c \in Cluster : c < FAT32EntryDefective
  /\ FAT32EntryFree \notin Cluster
  /\ FAT32EntryEOFThreshold \notin Cluster
  /\ FAT32EntryAllocatedAndEndOfFile \notin Cluster
BY VolumeAssumption DEF Cluster, FATEntry, FAT32EntryFree, FAT32EntryDefective,
   FAT32EntryEOFThreshold, FAT32EntryAllocatedAndEndOfFile

(* What the fields of an object are set to when the file is rewound.       *)
LEMMA PositionTypes == 0 \in 0 .. BytesPerCluster /\ Cluster \cup {0} \subseteq FATEntry
BY FileAssumption DEF FATEntry, FAT32EntryFree

(* A difference of 32-bit numbers is one again, whichever is the greater.  *)
LEMMA UIntMinusType ==
  ASSUME NEW a \in Nat, NEW b \in Nat
  PROVE  UIntMinus(a, b) \in Nat
BY FileAssumption DEF UIntMinus

(* What is copied goes no further than the cluster and the buffer.         *)
LEMMA CopyFits ==
  ASSUME NEW size \in Nat, NEW offset \in 0 .. size, NEW length \in Nat, NEW done \in Nat,
         NEW n \in Nat, n <= size - offset, n <= length - done
  PROVE  offset + n \in 0 .. size /\ done + n <= length
OBVIOUS

(* The smaller of two numbers is one of them, and exceeds neither.         *)
LEMMA SmallerBounds ==
  ASSUME NEW a \in Nat, NEW b \in Nat
  PROVE  Smaller(a, b) \in Nat /\ Smaller(a, b) <= a /\ Smaller(a, b) <= b
BY DEF Smaller

(* FindNextEmptyCluster keeps the hint a cluster number or zero.           *)
LEMMA HintType ==
  ASSUME NEW start, NEW c \in Cluster,
         last_empty_cluster_found \in Cluster \cup {0},
         FindNextEmptyCluster(start, c)
  PROVE  last_empty_cluster_found' \in Cluster \cup {0}
BY DEF FindNextEmptyCluster

(* UpdateFATTableEntry stores a FAT entry.                                 *)
LEMMA FATType ==
  ASSUME NEW c, NEW e \in FATEntry, fat \in [Cluster -> FATEntry],
         UpdateFATTableEntry(c, e)
  PROVE  fat' \in [Cluster -> FATEntry]
BY DEF UpdateFATTableEntry

(* A step that writes nothing to the device.                               *)
LEMMA DeviceUnchanged ==
  ASSUME DeviceTypeOK, UNCHANGED <<fat, cluster_data, directory, faults>>
  PROVE  DeviceTypeOK'
BY DEF DeviceTypeOK

(* A step that leaves the objects of the files alone.                      *)
LEMMA ObjectsUnchanged ==
  ASSUME ObjectTypeOK, UNCHANGED <<last_empty_cluster_found, objectVars>>
  PROVE  ObjectTypeOK'
BY DEF ObjectTypeOK, objectVars, positionVars

(* A step that leaves the call in progress alone.                          *)
LEMMA CallUnchanged ==
  ASSUME CallTypeOK, TransferWithinBuffer,
         UNCHANGED <<pc, call, localVars, returned>>
  PROVE  CallTypeOK' /\ TransferWithinBuffer'
BY DEF CallTypeOK, TransferWithinBuffer, localVars

(* A call that returns leaves no locals behind.                            *)
LEMMA ReturnType ==
  ASSUME NEW code \in {"SUCCESS", "DEVICE_FULL", "DEVICE_ERROR", "POWER_LOST"},
         NEW bytes \in Seq(AnyByte),
         Return(code, bytes)
  PROVE  CallTypeOK' /\ TransferWithinBuffer'
<1>1. call' \in Calls
  BY DEF Return, NoCall, Calls
<1>2. block_buffer' \in [Offsets -> AnyByte]
  BY DEF Return, Blank, AnyByte
<1>3. returned' \in Responses
  BY DEF Return, Responses
<1> QED
  BY <1>1, <1>2, <1>3 DEF Return, CallTypeOK, TransferWithinBuffer

(* A call that begins is well-formed.                                      *)
LEMMA BeginType ==
  ASSUME TypeInv, NEW kind \in {"seek", "append", "write", "read"}, NEW f \in Files,
         NEW buffer \in Seq(AnyByte), NEW target \in Nat,
         NEW label \in {"seek_from", "read", "allocate", "copy", "resize"},
         label = "copy" => buffer # <<>>,
         Begin(Call(kind, f, buffer, target), label)
  PROVE  TypeInv'
<1> USE DEF TypeInv, TypeOK
<1>1. DeviceTypeOK'
  BY DeviceUnchanged DEF Begin, adapterVars
<1>2. ObjectTypeOK'
  BY ObjectsUnchanged DEF Begin, adapterVars
<1>3. call' = Call(kind, f, buffer, target) /\ pc' = label /\ pc = "idle"
      /\ UNCHANGED <<transferred, new_cluster, block_buffer, returned>>
  BY DEF Begin, localVars
<1>4. Call(kind, f, buffer, target) \in Calls
  BY DEF Call, Calls, ObjectTypeOK
<1>5. call'.file = f /\ call'.buffer = buffer
  BY <1>3 DEF Call
<1>6. CallTypeOK'
  BY <1>3, <1>4, <1>5 DEF CallTypeOK
<1>7. TransferWithinBuffer'
  <2>1. transferred' = 0
    BY <1>3 DEF TransferWithinBuffer
  <2>2. buffer # <<>> => Len(buffer) > 0
    OBVIOUS
  <2> QED
    BY <1>3, <1>5, <2>1, <2>2 DEF TransferWithinBuffer
<1> QED
  BY <1>1, <1>2, <1>6, <1>7

(* So is a call that goes to another label with the same locals.           *)
LEMMA GotoType ==
  ASSUME CallTypeOK, TransferWithinBuffer,
         NEW label \in {"seek", "seek_next", "read", "allocate", "publish", "copy", "resize"},
         pc # "idle",
         transferred = 0 \/ label = "copy",
         label = "copy" => transferred < Len(call.buffer),
         Goto(label), UNCHANGED localVars
  PROVE  CallTypeOK' /\ TransferWithinBuffer'
BY DEF CallTypeOK, TransferWithinBuffer, Goto, localVars

-----------------------------------------------------------------------------
(* The actions one by one.                                                 *)

(* The types survive that files are opened and closed.                     *)
LEMMA OpenCloseTypes ==
  ASSUME TypeInv, NEW f \in Files, OpenFile(f) \/ CloseFile(f)
  PROVE  TypeInv'
<1> USE DEF TypeInv, TypeOK
<1>1. DeviceTypeOK'
  BY DeviceUnchanged DEF OpenFile, CloseFile, adapterVars
<1>2. CallTypeOK' /\ TransferWithinBuffer'
  BY CallUnchanged DEF OpenFile, CloseFile
<1>3. ObjectTypeOK'
  <2>1. ASSUME OpenFile(f) PROVE ObjectTypeOK'
    <3>1. directory[f].size \in Nat /\ directory[f].first \in Cluster \cup {0}
      BY DEF DeviceTypeOK
    <3> QED
      BY <2>1, <3>1, PositionTypes DEF OpenFile, ObjectTypeOK, adapterVars
  <2>2. ASSUME CloseFile(f) PROVE ObjectTypeOK'
    BY <2>2, PositionTypes DEF CloseFile, ObjectTypeOK, adapterVars
  <2> QED
    BY <2>1, <2>2
<1> QED
  BY <1>1, <1>2, <1>3

(* They survive that a call begins.                                        *)
LEMMA BeginCallTypes ==
  ASSUME TypeInv, BeginCall
  PROVE  TypeInv'
<1>1. PICK f \in Files :
        \/ OpenFile(f)
        \/ CloseFile(f)
        \/ \E position \in 0 .. MaxFileSize : SeekCall(f, position)
        \/ \E space \in 0 .. MaxFileSize : ReadCall(f, space)
        \/ \E buffer \in Buffers : WriteCall(f, buffer) \/ AppendCall(f, buffer)
  BY DEF BeginCall
<1>2. CASE OpenFile(f) \/ CloseFile(f)
  BY <1>2, OpenCloseTypes
<1>3. ASSUME NEW position \in 0 .. MaxFileSize, SeekCall(f, position)
      PROVE  TypeInv'
  <2>1. position \in Nat /\ <<>> \in Seq(AnyByte)
    BY FileAssumption
  <2> QED
    BY <1>3, <2>1, BeginType DEF SeekCall
<1>4. ASSUME NEW space \in 0 .. MaxFileSize, ReadCall(f, space)
      PROVE  TypeInv'
  <2>1. space \in Nat /\ <<>> \in Seq(AnyByte)
    BY FileAssumption
  <2> QED
    BY <1>4, <2>1, BeginType DEF ReadCall
<1>5. ASSUME NEW buffer \in Buffers
      PROVE  buffer \in Seq(AnyByte)
  BY FileAssumption DEF Buffers, AnyByte
<1>6. ASSUME NEW buffer \in Buffers, WriteCall(f, buffer)
      PROVE  TypeInv'
  BY <1>5, <1>6, BeginType DEF WriteCall, WriteEntry
<1>7. ASSUME NEW buffer \in Buffers, AppendCall(f, buffer)
      PROVE  TypeInv'
  BY <1>5, <1>7, BeginType DEF AppendCall, TypeInv, TypeOK, ObjectTypeOK
<1> QED
  BY <1>1, <1>2, <1>3, <1>4, <1>6, <1>7

(* Seek hands over to its caller: the program, or the Write of Append.     *)
LEMMA SeekFinishedTypes ==
  ASSUME CallTypeOK, TransferWithinBuffer, NEW at,
         pc \in {"seek_from", "seek", "seek_next"}, SeekFinished(at)
  PROVE  CallTypeOK' /\ TransferWithinBuffer'
<1>1. transferred = 0
  BY DEF TransferWithinBuffer
<1>2. CASE call.kind = "append"
  <2>1. Goto(WriteEntry(at, call.buffer)) /\ UNCHANGED localVars
    BY <1>2 DEF SeekFinished
  <2>2. /\ WriteEntry(at, call.buffer) \in {"allocate", "copy", "resize"}
        /\ WriteEntry(at, call.buffer) = "copy" => call.buffer # <<>>
    BY DEF WriteEntry
  <2>3. call.buffer # <<>> => transferred < Len(call.buffer)
    BY <1>1 DEF CallTypeOK, Calls
  <2> QED
    BY <1>1, <2>1, <2>2, <2>3, GotoType
<1>3. CASE call.kind # "append"
  <2>1. Return("SUCCESS", <<>>) /\ <<>> \in Seq(AnyByte)
    BY <1>3 DEF SeekFinished
  <2> QED
    BY <2>1, ReturnType
<1> QED
  BY <1>2, <1>3

(* The steps of a seek keep them.                                          *)
LEMMA SeekTypes ==
  ASSUME TypeInv, SeekFrom \/ SeekBlock \/ SeekNext
  PROVE  TypeInv'
<1> USE DEF TypeInv, TypeOK
<1>1. DeviceTypeOK'
  BY DeviceUnchanged DEF SeekFrom, SeekBlock, SeekNext, adapterVars
<1>2. call.file \in Files
  BY DEF SeekFrom, SeekBlock, SeekNext, CallTypeOK
<1>3. CASE SeekFrom
  <2>1. ObjectTypeOK'
    BY <1>2, <1>3, PositionTypes DEF SeekFrom, Rewind, ObjectTypeOK, adapterVars, positionVars
  <2>2. CallTypeOK' /\ TransferWithinBuffer'
    <3>1. CASE \E at : SeekFinished(at)
      BY <1>3, <3>1, SeekFinishedTypes DEF SeekFrom
    <3>2. CASE /\ call' = [call EXCEPT !.target = Smaller(@, size_[call.file])]
               /\ pc' = "seek"
               /\ UNCHANGED <<positionVars, localVars, returned>>
      BY <1>2, <1>3, <3>2 DEF SeekFrom, Smaller, ObjectTypeOK, CallTypeOK, Calls, TransferWithinBuffer, localVars
    <3> QED
      BY <1>3, <3>1, <3>2 DEF SeekFrom
  <2> QED
    BY <1>1, <2>1, <2>2
<1>4. CASE SeekBlock
  <2> DEFINE bytes_to_read ==
        Smaller(BytesPerCluster - byte_offset_into_cluster_[call.file],
                UIntMinus(call.target, byte_offset_into_file_[call.file]))
  <2>1. /\ bytes_to_read \in Nat
        /\ byte_offset_into_cluster_[call.file] + bytes_to_read \in 0 .. BytesPerCluster
    BY <1>2, FileAssumption, SMTT(60) DEF Smaller, UIntMinus, ObjectTypeOK, CallTypeOK, Calls
  <2>2. ObjectTypeOK'
    BY <1>2, <1>4, <2>1 DEF SeekBlock, ObjectTypeOK, adapterVars
  <2>3. CallTypeOK' /\ TransferWithinBuffer'
    <3>1. CASE SeekFinished(current_cluster_[call.file])
      BY <1>4, <3>1, SeekFinishedTypes DEF SeekBlock
    <3>2. CASE Goto("seek_next") /\ UNCHANGED localVars
      BY <1>4, <3>2, GotoType DEF SeekBlock, TransferWithinBuffer
    <3> QED
      BY <1>4, <3>1, <3>2 DEF SeekBlock
  <2> QED
    BY <1>1, <2>2, <2>3
<1>5. CASE SeekNext
  <2>1. ObjectTypeOK'
    <3>1. NextClusterInChain(current_cluster_[call.file]) \in FATEntry
      BY <1>2, <1>5 DEF SeekNext, NextClusterInChain, DeviceTypeOK
    <3> QED
      BY <1>2, <1>5, <3>1, PositionTypes DEF SeekNext, ObjectTypeOK, adapterVars, positionVars
  <2>2. CallTypeOK' /\ TransferWithinBuffer'
    BY <1>5, SeekFinishedTypes, GotoType DEF SeekNext, TransferWithinBuffer
  <2> QED
    BY <1>1, <2>1, <2>2
<1> QED
  BY <1>3, <1>4, <1>5

(* The steps of a read keep them.                                          *)
LEMMA ReadTypes ==
  ASSUME TypeInv, ReadFinished \/ ReadBlock \/ ReadNext
  PROVE  TypeInv'
<1> USE DEF TypeInv, TypeOK
<1>1. DeviceTypeOK'
  BY DeviceUnchanged DEF ReadFinished, ReadBlock, ReadNext, adapterVars
<1>2. call.file \in Files /\ call.buffer \in Seq(AnyByte) /\ call.target \in Nat
  BY DEF ReadFinished, ReadBlock, ReadNext, CallTypeOK, Calls
<1>3. CASE ReadFinished
  <2>1. ObjectTypeOK'
    BY <1>3, ObjectsUnchanged DEF ReadFinished, adapterVars
  <2> QED
    BY <1>1, <1>2, <1>3, <2>1, ReturnType DEF ReadFinished
<1>4. CASE ReadBlock
  <2> DEFINE f == call.file
             offset == byte_offset_into_cluster_[f]
             bytes_to_read == Smaller(BytesPerCluster - offset,
                                      UIntMinus(size_[f], byte_offset_into_file_[f]))
             bytes_appended == Smaller(bytes_to_read, call.target - Len(call.buffer))
             block == [i \in 1 .. bytes_appended |->
                         cluster_data[current_cluster_[f]][offset + i - 1]]
  <2>1. offset \in 0 .. BytesPerCluster /\ size_[f] \in Nat /\ byte_offset_into_file_[f] \in Nat
    BY <1>2 DEF ObjectTypeOK
  <2>2. /\ bytes_appended \in Nat
        /\ offset + bytes_appended \in 0 .. BytesPerCluster
    <3>1. UIntMinus(size_[f], byte_offset_into_file_[f]) \in Nat
      BY <2>1, UIntMinusType
    <3>2. bytes_to_read \in Nat /\ bytes_to_read <= BytesPerCluster - offset
      <4>1. BytesPerCluster - offset \in Nat
        BY <2>1, FileAssumption
      <4> QED
        BY <3>1, <4>1, SmallerBounds
    <3>3. call.target - Len(call.buffer) \in Nat
      <4>1. Len(call.buffer) \in Nat
        BY <1>2
      <4>2. ~BufferFull
        BY <1>4 DEF ReadBlock
      <4> QED
        BY <1>2, <4>1, <4>2 DEF BufferFull
    <3> HIDE DEF bytes_to_read
    <3>4. bytes_appended \in Nat /\ bytes_appended <= bytes_to_read
      BY <3>2, <3>3, SmallerBounds
    <3> QED
      BY <2>1, <3>2, <3>4, FileAssumption
  <2>3. block \in Seq(AnyByte)
    <3>1. cluster_data[current_cluster_[f]] \in [Offsets -> AnyByte]
      BY <1>4 DEF ReadBlock, DeviceTypeOK
    <3>2. \A i \in 1 .. bytes_appended : offset + i - 1 \in Offsets
      BY <2>1, <2>2, FileAssumption DEF Offsets
    <3>3. block \in [1 .. bytes_appended -> AnyByte]
      BY <3>1, <3>2
    <3> QED
      BY <2>2, <3>3
  <2>4. call.buffer \o block \in Seq(AnyByte)
    BY <1>2, <2>3
  <2>5. ObjectTypeOK'
    <3>1. byte_offset_into_file_[f] + bytes_appended \in Nat
      BY <2>1, <2>2
    <3>2. /\ byte_offset_into_file_' =
                [byte_offset_into_file_ EXCEPT ![f] = byte_offset_into_file_[f] + bytes_appended]
          /\ byte_offset_into_cluster_' =
                [byte_offset_into_cluster_ EXCEPT ![f] = offset + bytes_appended]
          /\ UNCHANGED <<last_empty_cluster_found, open, size_, first_cluster_, current_cluster_>>
      BY <1>4 DEF ReadBlock, adapterVars
    <3> HIDE DEF bytes_appended
    <3> QED
      BY <1>2, <2>2, <3>1, <3>2 DEF ObjectTypeOK
  <2>6. CallTypeOK' /\ TransferWithinBuffer'
    <3>1. CASE Return("SUCCESS", call.buffer \o block)
      BY <2>4, <3>1, ReturnType
    <3>2. CASE /\ call' = [call EXCEPT !.buffer = call.buffer \o block]
               /\ pc' \in {"read", "read_next"}
               /\ UNCHANGED <<localVars, returned>>
      BY <1>2, <1>4, <2>4, <3>2 DEF ReadBlock, CallTypeOK, Calls, TransferWithinBuffer, localVars
    <3> QED
      BY <1>4, <3>1, <3>2 DEF ReadBlock
  <2> QED
    BY <1>1, <2>5, <2>6
<1>5. CASE ReadNext
  <2>1. NextClusterInChain(current_cluster_[call.file]) \in FATEntry
    BY <1>5 DEF ReadNext, NextClusterInChain, DeviceTypeOK
  <2>2. ObjectTypeOK'
    BY <1>2, <1>5, <2>1, PositionTypes DEF ReadNext, ObjectTypeOK, adapterVars, positionVars
  <2>3. CallTypeOK' /\ TransferWithinBuffer'
    BY <1>2, <1>5, ReturnType, GotoType DEF ReadNext, TransferWithinBuffer
  <2> QED
    BY <1>1, <2>2, <2>3
<1> QED
  BY <1>3, <1>4, <1>5

(* The steps that allocate and link clusters keep them.                    *)
LEMMA AllocationTypes ==
  ASSUME TypeInv,
         AllocateFirstCluster \/ PublishFirstCluster \/ LinkNewCluster \/ MarkNewCluster
  PROVE  TypeInv'
<1> USE DEF TypeInv, TypeOK
<1>1. call.file \in Files /\ call \in Calls
  BY DEF AllocateFirstCluster, PublishFirstCluster, LinkNewCluster, MarkNewCluster, CallTypeOK
<1>2. FAT32EntryAllocatedAndEndOfFile \in FATEntry /\ Cluster \subseteq FATEntry
  BY DEF FATEntry
<1>3. CASE AllocateFirstCluster
  <2>1. PICK c \in Cluster : /\ FindNextEmptyCluster(0, c)
                             /\ UpdateFATTableEntry(c, FAT32EntryAllocatedAndEndOfFile)
                             /\ new_cluster' = c
    BY <1>3 DEF AllocateFirstCluster
  <2>2. DeviceTypeOK'
    BY <1>2, <1>3, <2>1, FATType DEF AllocateFirstCluster, DeviceTypeOK
  <2>3. ObjectTypeOK'
    BY <1>3, <2>1, HintType DEF AllocateFirstCluster, ObjectTypeOK, objectVars, positionVars
  <2>4. CallTypeOK' /\ TransferWithinBuffer'
    BY <1>1, <1>3, <2>1 DEF AllocateFirstCluster, Goto, CallTypeOK, TransferWithinBuffer
  <2> QED
    BY <2>2, <2>3, <2>4
<1>4. CASE PublishFirstCluster
  <2>1. DeviceTypeOK'
    BY <1>1, <1>4 DEF PublishFirstCluster, SetDirectoryEntryFirstCluster, DeviceTypeOK, CallTypeOK, adapterVars
  <2>2. ObjectTypeOK'
    BY <1>1, <1>4, PositionTypes DEF PublishFirstCluster, ObjectTypeOK, CallTypeOK, adapterVars
  <2>3. call.buffer # <<>> => transferred < Len(call.buffer)
    BY <1>1, <1>4 DEF PublishFirstCluster, TransferWithinBuffer, Calls
  <2>4. CallTypeOK' /\ TransferWithinBuffer'
    BY <1>4, <2>3, GotoType DEF PublishFirstCluster, TransferWithinBuffer
  <2> QED
    BY <2>1, <2>2, <2>4
<1>5. CASE LinkNewCluster
  <2>1. PICK c \in Cluster : /\ FindNextEmptyCluster(current_cluster_[call.file] + 1, c)
                             /\ UpdateFATTableEntry(current_cluster_[call.file], c)
                             /\ new_cluster' = c
    BY <1>5 DEF LinkNewCluster
  <2>2. DeviceTypeOK'
    BY <1>2, <1>5, <2>1, FATType DEF LinkNewCluster, DeviceTypeOK
  <2>3. ObjectTypeOK'
    BY <1>5, <2>1, HintType DEF LinkNewCluster, ObjectTypeOK, objectVars, positionVars
  <2>4. CallTypeOK' /\ TransferWithinBuffer'
    BY <1>1, <1>5, <2>1 DEF LinkNewCluster, Goto, CallTypeOK, TransferWithinBuffer
  <2> QED
    BY <2>2, <2>3, <2>4
<1>6. CASE MarkNewCluster
  <2>1. DeviceTypeOK'
    BY <1>2, <1>6, FATType DEF MarkNewCluster, DeviceTypeOK
  <2>2. ObjectTypeOK'
    BY <1>1, <1>6, PositionTypes DEF MarkNewCluster, ObjectTypeOK, CallTypeOK
  <2>3. CallTypeOK' /\ TransferWithinBuffer'
    BY <1>6, GotoType DEF MarkNewCluster, TransferWithinBuffer
  <2> QED
    BY <2>1, <2>2, <2>3
<1> QED
  BY <1>3, <1>4, <1>5, <1>6

(* The step of a write that copies into a block keeps them.                *)
LEMMA CopyTypes ==
  ASSUME TypeInv, CopyBlock
  PROVE  TypeInv'
<1> USE DEF TypeInv, TypeOK
<1> DEFINE f == call.file
           cluster == current_cluster_[f]
           offset == byte_offset_into_cluster_[f]
           before == BlockBefore(cluster, offset)
           bytes_to_copy == Smaller(BytesPerCluster - offset, Len(call.buffer) - transferred)
           index(i) == transferred + i - offset + 1
           after == [i \in Offsets |->
                       IF offset <= i /\ i < offset + bytes_to_copy
                       THEN call.buffer[index(i)]
                       ELSE before[i]]
<1>1. /\ f \in Files /\ call.buffer \in Seq(AnyByte) /\ transferred \in Nat
      /\ transferred < Len(call.buffer)
      /\ offset \in 0 .. BytesPerCluster
  BY DEF CopyBlock, CallTypeOK, Calls, ObjectTypeOK, TransferWithinBuffer
<1>2. /\ bytes_to_copy \in Nat
      /\ offset + bytes_to_copy \in 0 .. BytesPerCluster
      /\ transferred + bytes_to_copy <= Len(call.buffer)
  <2>1. /\ Len(call.buffer) \in Nat
        /\ Len(call.buffer) - transferred \in Nat
        /\ BytesPerCluster - offset \in Nat
    BY <1>1, FileAssumption
  <2>2. /\ bytes_to_copy \in Nat
        /\ bytes_to_copy <= BytesPerCluster - offset
        /\ bytes_to_copy <= Len(call.buffer) - transferred
    BY <2>1, SmallerBounds
  <2> HIDE DEF bytes_to_copy
  <2>3. BytesPerCluster \in Nat
    BY FileAssumption
  <2> QED
    BY <1>1, <2>1, <2>2, <2>3, CopyFits
<1>3. after \in [Offsets -> AnyByte]
  <2>1. before \in [Offsets -> AnyByte]
    BY DEF CopyBlock, BlockBefore, DeviceTypeOK, CallTypeOK
  <2>2. ASSUME NEW i \in Offsets, offset <= i, i < offset + bytes_to_copy
        PROVE  call.buffer[index(i)] \in AnyByte
    <3>1. i \in Nat /\ Len(call.buffer) \in Nat /\ offset \in Nat
      BY <1>1 DEF Offsets
    <3> HIDE DEF bytes_to_copy, offset
    <3>2. index(i) \in 1 .. Len(call.buffer)
      BY <1>1, <1>2, <2>2, <3>1
    <3>3. \A k \in 1 .. Len(call.buffer) : call.buffer[k] \in AnyByte
      BY <1>1
    <3> HIDE DEF index
    <3> QED
      BY <3>2, <3>3
  <2> QED
    BY <2>1, <2>2
<1>4. DeviceTypeOK'
  BY <1>3 DEF CopyBlock, DeviceTypeOK, adapterVars
<1>5. ObjectTypeOK'
  BY <1>1, <1>2, SMTT(60) DEF CopyBlock, ObjectTypeOK, adapterVars
<1>6. block_buffer' \in [Offsets -> AnyByte] /\ transferred' = transferred + bytes_to_copy
  BY <1>3 DEF CopyBlock
<1>7. CallTypeOK' /\ TransferWithinBuffer'
  BY <1>1, <1>2, <1>6, SMTT(60) DEF CopyBlock, Goto, CallTypeOK, TransferWithinBuffer
<1> QED
  BY <1>4, <1>5, <1>7

(* The other steps of a write keep them.                                   *)
LEMMA WriteTypes ==
  ASSUME TypeInv, FollowChain \/ Resize \/ DeviceFull
  PROVE  TypeInv'
<1> USE DEF TypeInv, TypeOK
<1>1. CASE FollowChain
  <2>1. /\ call.file \in Files
        /\ NextClusterInChain(current_cluster_[call.file]) \in FATEntry
    BY <1>1 DEF FollowChain, NextClusterInChain, CallTypeOK, DeviceTypeOK
  <2>2. DeviceTypeOK'
    BY <1>1, DeviceUnchanged DEF FollowChain, adapterVars
  <2>3. ObjectTypeOK'
    BY <1>1, <2>1, PositionTypes DEF FollowChain, ObjectTypeOK, adapterVars
  <2>4. CallTypeOK' /\ TransferWithinBuffer'
    BY <1>1, GotoType DEF FollowChain, TransferWithinBuffer
  <2> QED
    BY <2>2, <2>3, <2>4
<1>2. CASE Resize
  <2>1. call.file \in Files
    BY <1>2 DEF Resize, CallTypeOK
  <2>2. DeviceTypeOK'
    <3>1. byte_offset_into_file_[call.file] \in Nat
      BY <2>1 DEF ObjectTypeOK
    <3> QED
      BY <1>2, <2>1, <3>1, SMTT(60) DEF Resize, UpdateDirectoryEntrySize, DeviceTypeOK, adapterVars
  <2>3. ObjectTypeOK'
    BY <1>2, <2>1 DEF Resize, ObjectTypeOK, adapterVars, positionVars
  <2>4. <<>> \in Seq(AnyByte)
    OBVIOUS
  <2> QED
    BY <1>2, <2>2, <2>3, <2>4, ReturnType DEF Resize
<1>3. CASE DeviceFull
  <2>1. <<>> \in Seq(AnyByte)
    OBVIOUS
  <2> QED
    BY <1>3, <2>1, DeviceUnchanged, ObjectsUnchanged, ReturnType DEF DeviceFull, adapterVars
<1> QED
  BY <1>1, <1>2, <1>3

(* Device errors and losses of power keep them.                            *)
LEMMA FaultTypes ==
  ASSUME TypeInv, DeviceError \/ PowerLoss
  PROVE  TypeInv'
<1> USE DEF TypeInv, TypeOK
<1>1. <<>> \in Seq(AnyByte)
  OBVIOUS
<1>2. CallTypeOK' /\ TransferWithinBuffer'
  BY <1>1, ReturnType DEF DeviceError, PowerLoss
<1>3. DeviceTypeOK'
  BY DEF DeviceError, PowerLoss, DeviceTypeOK
<1>4. CASE DeviceError
  <2>1. last_empty_cluster_found' \in Cluster \cup {0}
    BY <1>4, HintType DEF DeviceError, ObjectTypeOK
  <2>2. size_' \in [Files -> Nat]
    BY <1>4 DEF DeviceError, ObjectTypeOK, CallTypeOK
  <2> QED
    BY <1>2, <1>3, <1>4, <2>1, <2>2 DEF DeviceError, ObjectTypeOK, positionVars
<1>5. CASE PowerLoss
  BY <1>2, <1>3, <1>5, PositionTypes DEF PowerLoss, ObjectTypeOK
<1> QED
  BY <1>4, <1>5

-----------------------------------------------------------------------------

(* The initial state is well typed, and every step keeps it so.            *)
LEMMA InitialTypes == Init => TypeInv
<1> SUFFICES ASSUME Init PROVE TypeInv
  OBVIOUS
<1>1. DeviceTypeOK
  <2>1. fat \in [Cluster -> FATEntry]
    BY DEF Init, FATEntry
  <2>2. cluster_data \in [Cluster -> [Offsets -> AnyByte]]
    BY DEF Init, Blank, AnyByte
  <2> QED
    BY <2>1, <2>2 DEF Init, DeviceTypeOK
<1>2. ObjectTypeOK
  BY PositionTypes DEF Init, ObjectTypeOK
<1>3. CallTypeOK /\ TransferWithinBuffer
  BY DEF Init, CallTypeOK, TransferWithinBuffer, NoCall, Calls, Blank, AnyByte, Responses
<1> QED
  BY <1>1, <1>2, <1>3 DEF TypeInv, TypeOK

(* So every step keeps the types.                                          *)
LEMMA TypeStep == TypeInv /\ [Next]_vars => TypeInv'
<1> SUFFICES ASSUME TypeInv, [Next]_vars PROVE TypeInv'
  OBVIOUS
<1>1. CASE UNCHANGED vars
  BY <1>1, DeviceUnchanged, ObjectsUnchanged, CallUnchanged
     DEF TypeInv, TypeOK, vars, adapterVars
<1> QED
  BY <1>1, BeginCallTypes, SeekTypes, ReadTypes, AllocationTypes, CopyTypes, WriteTypes,
     FaultTypes DEF Next, Continue

(* The types of the variables are those of the C++ program, always.        *)
THEOREM TypeCorrect == Spec => []TypeOK
<1>1. TypeInv => TypeOK
  BY DEF TypeInv
<1> QED
  BY <1>1, InitialTypes, TypeStep, PTL DEF Spec

(***************************************************************************)
(* The structure of the FAT.  As long as nothing has failed, chains never  *)
(* meet and never lead to a free cluster.  A cluster that was found free   *)
(* has no predecessor, because links lead to allocated clusters only; so   *)
(* the link to it is the only one.  What must be added for the induction   *)
(* is the cluster between its allocation and its entry in the directory.   *)
(***************************************************************************)
AwaitsItsEntry ==
  pc = "publish" =>
    /\ new_cluster \in Cluster
    /\ fat[new_cluster] # FAT32EntryFree
    /\ new_cluster \notin FirstClusters \cup DirectoryClusters
    /\ \A c \in Cluster : fat[c] # new_cluster

DirectoriesAllocated == \A c \in DirectoryClusters : fat[c] # FAT32EntryFree

FATStructure == ChainsApart /\ LinksAllocated /\ AwaitsItsEntry /\ DirectoriesAllocated

StructureInv == TypeInv /\ (faults = 0 => FATStructure)

(* The links are sound when the volume is mounted.                         *)
LEMMA StructureInitially == Init => StructureInv
<1> SUFFICES ASSUME Init PROVE StructureInv
  OBVIOUS
<1>1. \A c \in Cluster : fat[c] \notin Cluster
  BY ClusterNumbers DEF Init
<1>2. FirstClusters = {} /\ \A f \in Files : directory[f].first = 0
  BY DEF Init, FirstClusters
<1>3. DirectoriesAllocated
  BY FileAssumption DEF Init, DirectoriesAllocated, FAT32EntryFree, FAT32EntryAllocatedAndEndOfFile
<1>4. ChainsApart
  BY <1>1, <1>2, FileAssumption DEF ChainsApart
<1>5. LinksAllocated
  BY <1>1, <1>2 DEF LinksAllocated
<1>6. AwaitsItsEntry
  BY DEF Init, AwaitsItsEntry
<1> QED
  BY <1>3, <1>4, <1>5, <1>6, InitialTypes DEF StructureInv, FATStructure

(* A step that changes no link and no first cluster.                       *)
LEMMA StructureUnchanged ==
  ASSUME TypeInv, TypeInv', FATStructure,
         UNCHANGED fat,
         \A f \in Files : directory'[f].first = directory[f].first,
         pc # "mark" \/ UNCHANGED <<pc, new_cluster>>,
         pc' # "publish" \/ UNCHANGED <<pc, new_cluster>>
  PROVE  FATStructure'
<1>1. FirstClusters' = FirstClusters
  BY DEF FirstClusters
<1>2. ChainsApart'
  BY <1>1 DEF FATStructure, ChainsApart
<1>3. LinksAllocated'
  BY <1>1 DEF FATStructure, LinksAllocated
<1>4. AwaitsItsEntry'
  BY <1>1 DEF FATStructure, AwaitsItsEntry
<1>5. DirectoriesAllocated'
  BY DEF FATStructure, DirectoriesAllocated
<1> QED
  BY <1>2, <1>3, <1>4, <1>5 DEF FATStructure

(* No link leads to a cluster that is free when the search finds it.       *)
LEMMA FreeClusterHasNoPredecessor ==
  ASSUME TypeInv, FATStructure, pc # "mark",
         NEW c \in Cluster, fat[c] = FAT32EntryFree
  PROVE  /\ \A d \in Cluster : fat[d] # c
         /\ c \notin FirstClusters \cup DirectoryClusters
<1>1. \A d \in Cluster : fat[d] # c
  BY DEF FATStructure, LinksAllocated
<1>2. c \notin FirstClusters
  BY DEF FATStructure, LinksAllocated
<1>3. c \notin DirectoryClusters
  BY DEF FATStructure, DirectoriesAllocated
<1> QED
  BY <1>1, <1>2, <1>3

(* A first cluster is a free one, to which no link leads.                  *)
LEMMA AllocateFirstClusterStructure ==
  ASSUME TypeInv, FATStructure, AllocateFirstCluster
  PROVE  FATStructure'
<1>1. PICK c \in Cluster :
        /\ fat[c] = FAT32EntryFree
        /\ fat' = [fat EXCEPT ![c] = FAT32EntryAllocatedAndEndOfFile]
        /\ new_cluster' = c
  BY DEF AllocateFirstCluster, FindNextEmptyCluster, EmptyClustersFrom, UpdateFATTableEntry
<1>2. pc = "allocate" /\ pc' = "publish" /\ directory' = directory
  BY DEF AllocateFirstCluster, Goto
<1>3. /\ \A d \in Cluster : fat[d] # c
      /\ c \notin FirstClusters \cup DirectoryClusters
  BY <1>1, <1>2, FreeClusterHasNoPredecessor
<1>4. /\ fat' \in [Cluster -> FATEntry] /\ fat'[c] = FAT32EntryAllocatedAndEndOfFile
      /\ \A d \in Cluster \ {c} : fat'[d] = fat[d]
      /\ FirstClusters' = FirstClusters
  BY <1>1, <1>2 DEF TypeInv, TypeOK, DeviceTypeOK, FATEntry, FirstClusters
<1>5. FAT32EntryAllocatedAndEndOfFile \notin Cluster \cup {FAT32EntryFree}
  BY ClusterNumbers DEF FAT32EntryAllocatedAndEndOfFile, FAT32EntryFree
<1>6. FirstClusters \subseteq Cluster
  BY DEF FirstClusters, TypeInv, TypeOK, DeviceTypeOK
<1>7. ChainsApart'
  <2>1. \A d, e \in Cluster : fat'[d] \in Cluster /\ fat'[d] = fat'[e] => d = e
    BY <1>4, <1>5 DEF FATStructure, ChainsApart
  <2>2. \A d \in Cluster : fat'[d] \notin FirstClusters \cup DirectoryClusters
    <3>1. DirectoryClusters \subseteq Cluster
      BY FileAssumption
    <3> QED
      BY <1>4, <1>5, <1>6, <3>1 DEF FATStructure, ChainsApart
  <2> QED
    BY <1>2, <1>4, <2>1, <2>2 DEF FATStructure, ChainsApart
<1>8. LinksAllocated'
  <2>1. \A d \in Cluster : fat'[d] \in Cluster => fat'[fat'[d]] # FAT32EntryFree
    BY <1>2, <1>3, <1>4, <1>5 DEF FATStructure, LinksAllocated
  <2>2. \A d \in FirstClusters : fat'[d] # FAT32EntryFree
    BY <1>4, <1>5, <1>6 DEF FATStructure, LinksAllocated
  <2> QED
    BY <1>4, <2>1, <2>2 DEF LinksAllocated
<1>9. AwaitsItsEntry'
  BY <1>1, <1>2, <1>3, <1>4, <1>5 DEF AwaitsItsEntry
<1>10. DirectoriesAllocated'
  BY <1>3, <1>4, <1>5, FileAssumption DEF FATStructure, DirectoriesAllocated
<1> QED
  BY <1>7, <1>8, <1>9, <1>10 DEF FATStructure

(* It becomes the first cluster of one file, and of no other.              *)
LEMMA PublishFirstClusterStructure ==
  ASSUME TypeInv, FATStructure, PublishFirstCluster
  PROVE  FATStructure'
<1> DEFINE f == call.file
<1>1. /\ f \in Files /\ pc = "publish" /\ pc' \in {"copy", "resize"} /\ fat' = fat
      /\ directory' = [directory EXCEPT ![f].first = new_cluster]
  BY DEF PublishFirstCluster, SetDirectoryEntryFirstCluster, Goto, TypeInv, TypeOK, CallTypeOK, adapterVars
<1>2. /\ directory'[f].first = new_cluster
      /\ \A g \in Files \ {f} : directory'[g].first = directory[g].first
  BY <1>1 DEF TypeInv, TypeOK, DeviceTypeOK
<1>3. FirstClusters' \subseteq FirstClusters \cup {new_cluster}
  BY <1>2 DEF FirstClusters
<1>4. /\ new_cluster \in Cluster /\ new_cluster \notin FirstClusters \cup DirectoryClusters
      /\ fat[new_cluster] # FAT32EntryFree
      /\ \A c \in Cluster : fat[c] # new_cluster
  BY <1>1 DEF FATStructure, AwaitsItsEntry
<1>5. ChainsApart'
  <2>1. \A g \in Files \ {f} : directory'[g].first # directory'[f].first
    BY <1>2, <1>4, ClusterNumbers DEF FirstClusters
  <2>2. \A g, h \in Files : directory'[g].first = directory'[h].first /\ g # h => directory'[g].first = 0
    BY <1>2, <2>1 DEF FATStructure, ChainsApart
  <2> QED
    BY <1>1, <1>3, <1>4, <2>2 DEF FATStructure, ChainsApart
<1>6. LinksAllocated'
  BY <1>1, <1>3, <1>4 DEF FATStructure, LinksAllocated
<1>7. AwaitsItsEntry' /\ DirectoriesAllocated'
  BY <1>1 DEF FATStructure, AwaitsItsEntry, DirectoriesAllocated
<1> QED
  BY <1>5, <1>6, <1>7 DEF FATStructure

(* A free cluster is linked, to which no other link leads.                 *)
LEMMA LinkNewClusterStructure ==
  ASSUME TypeInv, FATStructure, LinkNewCluster
  PROVE  FATStructure'
<1>1. PICK c \in Cluster :
        /\ fat[c] = FAT32EntryFree
        /\ fat' = [fat EXCEPT ![current_cluster_[call.file]] = c]
        /\ new_cluster' = c
  BY DEF LinkNewCluster, FindNextEmptyCluster, EmptyClustersFrom, UpdateFATTableEntry
<1> DEFINE last == current_cluster_[call.file]
<1>2. pc = "advance" /\ pc' = "mark" /\ directory' = directory /\ last \in Cluster
  BY DEF LinkNewCluster, Goto
<1>3. /\ \A d \in Cluster : fat[d] # c
      /\ c \notin FirstClusters \cup DirectoryClusters
  BY <1>1, <1>2, FreeClusterHasNoPredecessor
<1>4. /\ fat'[last] = c /\ \A d \in Cluster \ {last} : fat'[d] = fat[d]
      /\ FirstClusters' = FirstClusters
  BY <1>1, <1>2 DEF TypeInv, TypeOK, DeviceTypeOK, FirstClusters
<1>5. c # FAT32EntryFree
  BY ClusterNumbers
<1>6. ChainsApart'
  <2>1. \A d, e \in Cluster : fat'[d] \in Cluster /\ fat'[d] = fat'[e] => d = e
    BY <1>2, <1>3, <1>4 DEF FATStructure, ChainsApart
  <2>2. \A d \in Cluster : fat'[d] \notin FirstClusters \cup DirectoryClusters
    BY <1>2, <1>3, <1>4 DEF FATStructure, ChainsApart
  <2> QED
    BY <1>2, <1>4, <2>1, <2>2 DEF FATStructure, ChainsApart
<1>7. LinksAllocated'
  BY <1>1, <1>2, <1>4, <1>5 DEF FATStructure, LinksAllocated
<1>8. AwaitsItsEntry' /\ DirectoriesAllocated'
  BY <1>2, <1>4, <1>5, FileAssumption DEF FATStructure, AwaitsItsEntry, DirectoriesAllocated
<1> QED
  BY <1>6, <1>7, <1>8 DEF FATStructure

(* It is marked as the end of its chain.                                   *)
LEMMA MarkNewClusterStructure ==
  ASSUME TypeInv, FATStructure, MarkNewCluster
  PROVE  FATStructure'
<1>1. /\ pc = "mark" /\ pc' = "copy" /\ directory' = directory
      /\ ~IsClusterOutOfRange(new_cluster)
      /\ fat' = [fat EXCEPT ![new_cluster] = FAT32EntryAllocatedAndEndOfFile]
  BY DEF MarkNewCluster, Goto, UpdateFATTableEntry
<1>2. new_cluster \in Cluster
  BY <1>1 DEF IsClusterOutOfRange, TypeInv, TypeOK, CallTypeOK
<1>3. /\ fat'[new_cluster] = FAT32EntryAllocatedAndEndOfFile
      /\ \A d \in Cluster \ {new_cluster} : fat'[d] = fat[d]
      /\ FirstClusters' = FirstClusters
  BY <1>1, <1>2 DEF TypeInv, TypeOK, DeviceTypeOK, FirstClusters
<1>4. FAT32EntryAllocatedAndEndOfFile \notin Cluster \cup {FAT32EntryFree}
  BY ClusterNumbers DEF FAT32EntryAllocatedAndEndOfFile, FAT32EntryFree
<1>5. FirstClusters \cup DirectoryClusters \subseteq Cluster
  BY FileAssumption DEF FirstClusters, TypeInv, TypeOK, DeviceTypeOK
<1>6. ChainsApart'
  <2>1. \A d, e \in Cluster : fat'[d] \in Cluster /\ fat'[d] = fat'[e] => d = e
    BY <1>3, <1>4 DEF FATStructure, ChainsApart
  <2>2. \A d \in Cluster : fat'[d] \notin FirstClusters \cup DirectoryClusters
    BY <1>3, <1>4, <1>5 DEF FATStructure, ChainsApart
  <2> QED
    BY <1>1, <1>3, <2>1, <2>2 DEF FATStructure, ChainsApart
<1>7. LinksAllocated'
  BY <1>1, <1>3, <1>4, <1>5 DEF FATStructure, LinksAllocated
<1>8. AwaitsItsEntry' /\ DirectoriesAllocated'
  BY <1>1, <1>3, <1>4, FileAssumption DEF FATStructure, AwaitsItsEntry, DirectoriesAllocated
<1> QED
  BY <1>6, <1>7, <1>8 DEF FATStructure

(* So every step keeps the links sound.                                    *)
LEMMA StructureStep == StructureInv /\ [Next]_vars => StructureInv'
<1> SUFFICES ASSUME StructureInv, [Next]_vars, faults' = 0 PROVE FATStructure'
  BY TypeStep DEF StructureInv
<1>1. TypeInv /\ TypeInv'
  BY TypeStep DEF StructureInv
<1>2. ~DeviceError /\ ~PowerLoss
  BY <1>1 DEF DeviceError, PowerLoss, TypeInv, TypeOK, DeviceTypeOK
<1>3. FATStructure
  <2>1. UNCHANGED faults
    BY <1>2 DEF Next, BeginCall, Continue, OpenFile, CloseFile, SeekCall, ReadCall, WriteCall, AppendCall,
       Begin, SeekFrom, SeekBlock, SeekNext, ReadFinished, ReadBlock, ReadNext, AllocateFirstCluster,
       PublishFirstCluster, CopyBlock, FollowChain, LinkNewCluster, MarkNewCluster, Resize, DeviceFull, vars
  <2> QED
    BY <2>1 DEF StructureInv
<1>4. CASE BeginCall
  <2>1. UNCHANGED <<fat, directory>> /\ pc # "mark" /\ pc' # "publish"
    BY <1>4 DEF BeginCall, OpenFile, CloseFile, SeekCall, ReadCall, WriteCall, WriteEntry, AppendCall,
       Begin, adapterVars
  <2> QED
    BY <1>1, <1>3, <2>1, StructureUnchanged
<1>5. CASE SeekFrom \/ SeekBlock \/ SeekNext
  <2>1. UNCHANGED <<fat, directory>> /\ pc # "mark"
    BY <1>5 DEF SeekFrom, SeekBlock, SeekNext, adapterVars
  <2>2. pc' # "publish"
    BY <1>5 DEF SeekFrom, SeekBlock, SeekNext, SeekFinished, Return, Goto, WriteEntry
  <2> QED
    BY <1>1, <1>3, <2>1, <2>2, StructureUnchanged
<1>6. CASE ReadFinished \/ ReadBlock \/ ReadNext \/ CopyBlock \/ FollowChain \/ DeviceFull
  <2>1. UNCHANGED <<fat, directory>> /\ pc # "mark" /\ pc' # "publish"
    BY <1>6 DEF ReadFinished, ReadBlock, ReadNext, CopyBlock, FollowChain, DeviceFull, Return, Goto,
       adapterVars
  <2> QED
    BY <1>1, <1>3, <2>1, StructureUnchanged
<1>7. CASE Resize
  <2>1. fat' = fat /\ pc # "mark" /\ pc' # "publish"
    BY <1>7 DEF Resize, Return, adapterVars
  <2>2. \A f \in Files : directory'[f].first = directory[f].first
    BY <1>1, <1>7 DEF Resize, UpdateDirectoryEntrySize, TypeInv, TypeOK, DeviceTypeOK, CallTypeOK
  <2> QED
    BY <1>1, <1>3, <2>1, <2>2, StructureUnchanged
<1>8. CASE UNCHANGED vars
  BY <1>1, <1>3, <1>8, StructureUnchanged DEF vars, adapterVars, localVars
<1> QED
  BY <1>1, <1>2, <1>3, <1>4, <1>5, <1>6, <1>7, <1>8, AllocateFirstClusterStructure,
     PublishFirstClusterStructure, LinkNewClusterStructure, MarkNewClusterStructure
     DEF Next, Continue

(* As long as nothing has failed, no cluster is reached in two ways,       *)
(* whatever sequence of calls the programs make and wherever they are.     *)
THEOREM ChainsNeverMeet == Spec => []NoCrossLink
<1>1. StructureInv => NoCrossLink
  BY DEF StructureInv, FATStructure, NoCrossLink
<1> QED
  BY <1>1, StructureInitially, StructureStep, PTL DEF Spec

(* Nor does a chain lead to a free cluster, except in the one step between *)
(* the two updates of the FAT that extend it.                              *)
THEOREM ChainsAreAllocated == Spec => []NoDanglingLink
<1>1. StructureInv => NoDanglingLink
  BY DEF StructureInv, FATStructure, NoDanglingLink
<1> QED
  BY <1>1, StructureInitially, StructureStep, PTL DEF Spec

=============================================================================
