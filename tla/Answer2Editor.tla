--------------------------- MODULE Answer2Editor ----------------------------
(***************************************************************************)
(* Correct_Answer/Assignment2: the model answer to the same exercise as    *)
(* hw2.  Each .rodata section is read into a buffer; strstr looks for the  *)
(* string from every position on, and after each replacement the whole     *)
(* section is written back.                                                *)
(*                                                                         *)
(* Files are those of Hw2Editor, and the same is left out.  The buffer is  *)
(* not terminated: strstr may run beyond its end.  What malloc has not yet *)
(* given away lies there; the buffer is the newest block and nothing is    *)
(* ever freed, so no more of the string is found in it.                    *)
(***************************************************************************)
EXTENDS Integers, Sequences

CONSTANTS
  Old, New,   \* the strings of change_rodata, "software" and "hackers!"
  Programs    \* the files the program may be started on, [header, sections, content]

VARIABLES
  file,       \* the file as it was: header and sections never change
  content,    \* its bytes
  pc,         \* where the program is
  i,          \* the section looked at
  buff,       \* the section in memory
  j           \* the position strstr starts from

vars == <<file, content, pc, i, buff, j>>

Promise == INSTANCE StringEditor WITH
             elf <- file.header = "elf", sections <- file.sections

Section == file.sections[i]

(* The program is started on a file.                                       *)
Start ==
  /\ content = file.content
  /\ pc = "open"
  /\ i = 1
  /\ buff = <<>>
  /\ j = 0

Init == file \in Programs /\ Start

Open ==
  /\ pc = "open"
  /\ \/ pc' = "returned"
     \/ pc' = CASE file.header = "short" -> "aborted"
                [] file.header = "other" -> "returned"
                [] file.header = "elf" -> "lookup"
  /\ UNCHANGED <<file, content, i, buff, j>>

(* A section of another name, or the end of the table.                     *)
Skip ==
  /\ pc = "lookup"
  /\ IF i > Len(file.sections)
     THEN pc' = "done" /\ UNCHANGED i
     ELSE ~Promise!IsRodata(Section) /\ i' = i + 1 /\ UNCHANGED pc
  /\ UNCHANGED <<file, content, buff, j>>

(* change_rodata begins: the section is read.                              *)
Load ==
  /\ pc = "lookup"
  /\ i <= Len(file.sections)
  /\ Promise!IsRodata(Section)
  /\ buff' = SubSeq(content, Section.offset + 1, Section.offset + Section.size)
  /\ j' = 0
  /\ pc' = "search"
  /\ UNCHANGED <<file, content, i>>

(* strstr from j on: a string ends at its first NUL.                       *)
Found(at) == at >= j /\ Promise!OccursAt(buff, at) /\ \A k \in j + 1 .. at : buff[k] # "nul"

(* Fault: the buffer is written back where it was read up to.              *)
WrittenBack_AtEnd(bytes) ==
  [k \in DOMAIN content |->
     IF k - (Section.offset + Section.size) \in DOMAIN bytes
     THEN bytes[k - (Section.offset + Section.size)] ELSE content[k]]

WrittenBack(bytes) ==
  [k \in DOMAIN content |->
     IF k - Section.offset \in DOMAIN bytes THEN bytes[k - Section.offset] ELSE content[k]]

(* Fault: the search ends with the first string it finds nothing in.       *)
Search_FirstStringOnly ==
  /\ pc = "search"
  /\ j < Section.size
  /\ IF \E at \in 0 .. Section.size : Found(at)
     THEN LET ptr == CHOOSE at \in 0 .. Section.size : Found(at) /\ \A b \in 0 .. at - 1 : ~Found(b) IN
            /\ buff' = Promise!Replaced(buff, ptr)
            /\ content' = WrittenBack(Promise!Replaced(buff, ptr))
            /\ j' = j + 1
     ELSE j' = Section.size /\ UNCHANGED <<content, buff>>
  /\ UNCHANGED <<file, pc, i>>

(* One turn of the loop of change_rodata.                                  *)
Search ==
  /\ pc = "search"
  /\ j < Section.size
  /\ IF \E at \in 0 .. Section.size : Found(at)
     THEN LET ptr == CHOOSE at \in 0 .. Section.size : Found(at) /\ \A b \in 0 .. at - 1 : ~Found(b) IN
            /\ buff' = Promise!Replaced(buff, ptr)
            /\ content' = WrittenBack(Promise!Replaced(buff, ptr))
     ELSE UNCHANGED <<content, buff>>
  /\ j' = j + 1
  /\ UNCHANGED <<file, pc, i>>

SearchDone ==
  /\ pc = "search"
  /\ j = Section.size
  /\ i' = i + 1
  /\ pc' = "lookup"
  /\ UNCHANGED <<file, content, buff, j>>

Next == Open \/ Skip \/ Load \/ Search \/ SearchDone

Spec == Init /\ [][Next]_vars

(* A single-threaded program keeps running.                                *)
FairSpec == Spec /\ WF_vars(Next)
-----------------------------------------------------------------------------
(***************************************************************************)
(* Properties                                                              *)
(***************************************************************************)

(* The type invariant; while a section is searched the buffer and the file *)
(* agree on it.                                                            *)
TypeOK ==
  /\ content \in Seq(STRING) /\ Len(content) = Len(file.content)
  /\ pc \in {"open", "lookup", "search", "done", "returned", "aborted"}
  /\ i \in 1 .. Len(file.sections) + 1
  /\ buff \in Seq(STRING)
  /\ j \in 0 .. Len(buff)
  /\ pc = "search" => buff = SubSeq(content, Section.offset + 1, Section.offset + Section.size)

(* Writing a whole section back replaces no more than one occurrence.      *)
ImplementsStringEditor == Promise!Spec

(* In the end no occurrence is left in any .rodata section, also behind    *)
(* the NULs that stop strstr.                                              *)
NoneLeft ==
  pc = "done" =>
    \A s \in DOMAIN file.sections, at \in 0 .. Len(content) :
      Promise!IsRodata(file.sections[s]) /\ Promise!InSection(at, file.sections[s])
        => ~Promise!OccursAt(content, at)
=============================================================================
