----------------------------- MODULE FileSystem -----------------------------
(***************************************************************************)
(* What SimpleFS promises to the programs that use it, without superblock, *)
(* blocks and inodes: files are sequences of bytes, a call that fails      *)
(* changes nothing, and a call that succeeds changes one file.             *)
(***************************************************************************)
EXTENDS Integers, Sequences

CONSTANTS Names, Inodes, Handles, MaxBytes, Bytes, Absent

VARIABLES
  file,               (* for each inode number the file, or Absent          *)
  file_handle_array,
  out                 (* what the last call returned, and the bytes read    *)

Closed == [inode_number |-> -1, offset |-> 0]

Init == /\ file = [i \in Inodes |-> Absent]
        /\ file_handle_array = [h \in Handles |-> Closed]
        /\ out = <<0, <<>>>>

Called(name) == {i \in Inodes : file[i] # Absent /\ file[i].name = name}
Open(h) == file_handle_array[h].inode_number
Offset(h) == file_handle_array[h].offset

Fail == out' = <<-1, <<>>>> /\ UNCHANGED <<file, file_handle_array>>

Create(name, i) ==
  /\ Called(name) = {} /\ file[i] = Absent
  /\ file' = [file EXCEPT ![i] = [name |-> name, bytes |-> <<>>]]
  /\ out' = <<i, <<>>>>
  /\ UNCHANGED file_handle_array

Delete(name) ==
  /\ file' = [i \in Inodes |-> IF i \in Called(name) THEN Absent ELSE file[i]]
  /\ out' = <<0, <<>>>>
  /\ UNCHANGED file_handle_array

OpenFile(name, h) ==
  /\ Open(h) = -1
  /\ \E i \in Called(name) :
       file_handle_array' =
         [file_handle_array EXCEPT ![h] = [inode_number |-> i, offset |-> 0]]
  /\ out' = <<h, <<>>>>
  /\ UNCHANGED file

Close(h) ==
  /\ file_handle_array' = [file_handle_array EXCEPT ![h] = Closed]
  /\ out' = <<0, <<>>>>
  /\ UNCHANGED file

(* A handle that is open and whose file exists. *)
Valid(h) == Open(h) \in Inodes /\ file[Open(h)] # Absent

Read(h, n) ==
  /\ n > 0 /\ Valid(h)
  /\ Offset(h) + n <= Len(file[Open(h)].bytes)
  /\ out' = <<0, SubSeq(file[Open(h)].bytes, Offset(h) + 1, Offset(h) + n)>>
  /\ UNCHANGED <<file, file_handle_array>>

(* The bytes with n of them replaced from off on.  A handle that outlives  *)
(* its file may be beyond the end of the next file in the inode: zeros fill*)
(* the gap, and there even n < 0 may make the file longer.                 *)
Overwritten(bytes, off, n, v) ==
  [p \in 1..(IF off + n > Len(bytes) THEN off + n ELSE Len(bytes)) |->
     IF off < p /\ p <= off + n THEN v ELSE IF p <= Len(bytes) THEN bytes[p] ELSE 0]

Write(h, n, v) ==
  /\ \/ n = 0 /\ UNCHANGED file
     \/ /\ n # 0 /\ Valid(h) /\ Offset(h) + n <= MaxBytes
        /\ file' = [file EXCEPT ![Open(h)].bytes = Overwritten(@, Offset(h), n, v)]
  /\ out' = <<0, <<>>>>
  /\ UNCHANGED file_handle_array

Seek(h, k) ==
  /\ Open(h) # -1 /\ Offset(h) + k >= 0
  /\ Offset(h) + k <= IF Valid(h) THEN Len(file[Open(h)].bytes) ELSE 0
  /\ file_handle_array' = [file_handle_array EXCEPT ![h].offset = @ + k]
  /\ out' = <<0, <<>>>>
  /\ UNCHANGED file

Next ==
  \/ Fail
  \/ \E name \in Names : \/ Delete(name)
                         \/ \E i \in Inodes : Create(name, i)
                         \/ \E h \in Handles : OpenFile(name, h)
  \/ \E h \in Handles : \/ Close(h)
                        \/ \E n \in -MaxBytes..MaxBytes : Read(h, n) \/ Seek(h, n)
                        \/ \E n \in -MaxBytes..MaxBytes, v \in Bytes : Write(h, n, v)

Spec == Init /\ [][Next]_<<file, file_handle_array, out>>

=============================================================================
