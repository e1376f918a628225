----------------------------- MODULE Hw2Editor ------------------------------
(***************************************************************************)
(* hw2/20170767.c, .h: looks for a .rodata section in the section table of *)
(* an ELF file, and replaces "software" in it by "hackers!", comparing     *)
(* eight bytes at every position of the section.                           *)
(*                                                                         *)
(* The file is an ELF64 file with a section table that can be read, or no  *)
(* ELF file, or too short for a header.  Only names of sections matter     *)
(* that begin with ".rodata" or do not; the header that is printed is left *)
(* out.  The asserts are compiled in; lseek, read and write succeed.       *)
(***************************************************************************)
EXTENDS Integers, Sequences

CONSTANTS
  Old, New,   \* STR4CMP and STR4CHANGE, "software" and "hackers!"
  Programs    \* the files the program may be started on, [header, sections, content]

Header == {"elf", "other", "short"}

(* 'h' and '!' are no letters of "software", so no edit makes a new one.    *)
ASSUME StringsAssumption ==
  /\ Old \in Seq(STRING) /\ New \in Seq(STRING)
  /\ Len(Old) = Len(New) /\ Len(Old) > 0
  /\ \A k \in DOMAIN Old : Old[k] # New[1] /\ Old[k] # New[Len(New)]

(* A file ends behind its last section.                                    *)
ASSUME ProgramsAssumption ==
  \A f \in Programs :
    /\ f.header \in Header
    /\ f.content \in Seq(STRING)
    /\ f.sections \in Seq([name : STRING, offset : Nat, size : Nat])
    /\ \A i \in DOMAIN f.sections : f.sections[i].offset + f.sections[i].size <= Len(f.content)

VARIABLES
  file,         \* the file as it was: header and sections never change
  content,      \* its bytes
  pc,           \* where main() is
  i,            \* the section looked at
  rodataOffset, \* offset of the last .rodata section found
  rodataSize,   \* its size
  j             \* the position in it

vars == <<file, content, pc, i, rodataOffset, rodataSize, j>>

Promise == INSTANCE StringEditor WITH
             elf <- file.header = "elf", sections <- file.sections

Init ==
  /\ file \in Programs
  /\ content = file.content
  /\ pc = "open"
  /\ i = 1
  /\ rodataOffset = 0
  /\ rodataSize = 0
  /\ j = 0

(* open() may fail.  read_elf_header asserts that there is a whole header, *)
(* before is_elf looks at the magic number.                                *)
Open ==
  /\ pc = "open"
  /\ \/ pc' = "returned"
     \/ pc' = CASE file.header = "short" -> "aborted"
                [] file.header = "other" -> "returned"
                [] file.header = "elf" -> "lookup"
  /\ UNCHANGED <<file, content, i, rodataOffset, rodataSize, j>>

(* Fault: the names are not compared.                                      *)
Lookup_AnySection ==
  /\ pc = "lookup"
  /\ i <= Len(file.sections)
  /\ rodataOffset' = file.sections[i].offset
  /\ rodataSize' = file.sections[i].size
  /\ i' = i + 1
  /\ UNCHANGED <<file, content, pc, j>>

(* The last section whose name begins with ".rodata" is kept.              *)
Lookup ==
  /\ pc = "lookup"
  /\ i <= Len(file.sections)
  /\ IF Promise!IsRodata(file.sections[i])
     THEN /\ rodataOffset' = file.sections[i].offset
          /\ rodataSize' = file.sections[i].size
     ELSE UNCHANGED <<rodataOffset, rodataSize>>
  /\ i' = i + 1
  /\ UNCHANGED <<file, content, pc, j>>

LookupDone ==
  /\ pc = "lookup"
  /\ i > Len(file.sections)
  /\ pc' = "scan"
  /\ UNCHANGED <<file, content, i, rodataOffset, rodataSize, j>>

(* Fault: the position goes up by the length of the string.                *)
Scan_InStrides ==
  /\ pc = "scan"
  /\ j < rodataSize - Len(Old)
  /\ content' = IF Promise!OccursAt(content, rodataOffset + j)
                THEN Promise!Replaced(content, rodataOffset + j)
                ELSE content
  /\ j' = j + Len(Old)
  /\ UNCHANGED <<file, pc, i, rodataOffset, rodataSize>>

(* Fault: the position goes up after a replacement only.                   *)
Scan_Stays ==
  /\ pc = "scan"
  /\ j < rodataSize - Len(Old)
  /\ Promise!OccursAt(content, rodataOffset + j)
  /\ content' = Promise!Replaced(content, rodataOffset + j)
  /\ j' = j + 1
  /\ UNCHANGED <<file, pc, i, rodataOffset, rodataSize>>

(* Fault: the section is scanned up to the end of its last byte.           *)
Scan_BeyondEnd ==
  /\ pc = "scan"
  /\ j < rodataSize
  /\ content' = IF Promise!OccursAt(content, rodataOffset + j)
                THEN Promise!Replaced(content, rodataOffset + j)
                ELSE content
  /\ j' = j + 1
  /\ UNCHANGED <<file, pc, i, rodataOffset, rodataSize>>

(* One turn of the loop: seek, read, compare, and seek back and write.     *)
(* The last position at which the string would fit is not looked at.       *)
Scan ==
  /\ pc = "scan"
  /\ j < rodataSize - Len(Old)
  /\ content' = IF Promise!OccursAt(content, rodataOffset + j)
                THEN Promise!Replaced(content, rodataOffset + j)
                ELSE content
  /\ j' = j + 1
  /\ UNCHANGED <<file, pc, i, rodataOffset, rodataSize>>

ScanDone ==
  /\ pc = "scan"
  /\ j >= rodataSize - Len(Old)
  /\ pc' = "done"
  /\ UNCHANGED <<file, content, i, rodataOffset, rodataSize, j>>

Next == Open \/ Lookup \/ LookupDone \/ Scan \/ ScanDone

Spec == Init /\ [][Next]_vars

(* A single-threaded program keeps running.                                *)
FairSpec == Spec /\ WF_vars(Next)
-----------------------------------------------------------------------------
(***************************************************************************)
(* Properties                                                              *)
(***************************************************************************)

(* The type invariant; the bytes compared lie in the section.              *)
TypeOK ==
  /\ content \in Seq(STRING) /\ Len(content) = Len(file.content)
  /\ pc \in {"open", "lookup", "scan", "done", "returned", "aborted"}
  /\ i \in 1 .. Len(file.sections) + 1
  /\ rodataOffset \in Nat /\ rodataSize \in Nat
  /\ rodataOffset + rodataSize <= Len(content)
  /\ j \in Nat /\ (j > 0 => j + Len(Old) <= rodataSize)

(* Every write replaces one occurrence in a .rodata section.               *)
ImplementsStringEditor == Promise!Spec

(* What is still there at the end lies in a section that is not the last   *)
(* one called .rodata..., or at the very end of its section.               *)
LeftOver ==
  pc = "done" =>
    \A s \in DOMAIN file.sections, at \in 0 .. Len(content) :
      LET section == file.sections[s] IN
      Promise!IsRodata(section) /\ Promise!InSection(at, section) /\ Promise!OccursAt(content, at) =>
        \/ \E t \in s + 1 .. Len(file.sections) : Promise!IsRodata(file.sections[t])
        \/ at + Len(Old) = section.offset + section.size
=============================================================================
