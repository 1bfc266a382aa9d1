--------------------------- MODULE FileContents ---------------------------
(***************************************************************************)
(* What a download sees of a file on the device's storage: whether it      *)
(* exists and, chunk by chunk, whether the bytes at that place are the     *)
(* ones the server publishes (TRUE) or something else (FALSE).  Chunk      *)
(* number i of a file of n chunks is the only unit the model writes, so a  *)
(* partial file, a hole left by two writers and a corrupted body are all   *)
(* sequences of Booleans.                                                  *)
(***************************************************************************)
EXTENDS Integers, Sequences

File == [exists : BOOLEAN, data : Seq(BOOLEAN)]

Absent == [exists |-> FALSE, data |-> << >>]

\* new FileOutputStream(file): the file exists and is empty from here on.
Truncated == [exists |-> TRUE, data |-> << >>]

LengthOf(file) == Len(file.data)

\* A write at chunk position pos of an open stream.  A position beyond the
\* end, possible once another stream truncated the file, leaves a hole.
WriteAt(file, pos, chunk) ==
    LET last == IF pos > LengthOf(file) THEN pos ELSE LengthOf(file)
    IN  [exists |-> TRUE,
         data   |-> [i \in 1..last |->
                       IF i = pos THEN chunk
                       ELSE i <= LengthOf(file) /\ file.data[i]]]

\* A write of a stream opened for appending goes to the current end.
WriteAppended(file, chunk) ==
    [exists |-> TRUE, data |-> Append(file.data, chunk)]

\* The whole published contents, and nothing else.
Genuine(file, size) ==
    /\ file.exists
    /\ LengthOf(file) = size
    /\ \A i \in 1..size : file.data[i]
=============================================================================
