---------------------------- MODULE EditorsProofs ---------------------------
(***************************************************************************)
(* Theorems about hw2 and the model answer, for every pair of strings and  *)
(* every file that Hw2Editor's assumptions allow, also one whose sections  *)
(* overlap.  hw2: the bytes compared lie in the section, nothing but       *)
(* occurrences in .rodata sections is replaced, and what is left over at   *)
(* the end lies where LeftOver says.  The answer: its buffer and the file  *)
(* agree, it replaces one occurrence at a time, and in the end none is     *)
(* left.                                                                   *)
(***************************************************************************)
EXTENDS MCEditors, SequenceTheorems, NaturalsInduction, WellFoundedInduction,
        TLAPS

(* A set of numbers has a least one.                                       *)
LEMMA Least ==
  ASSUME NEW T \in SUBSET Nat, T # {}
  PROVE  \E n \in T : \A m \in T : n <= m
<1> DEFINE R == OpToRel(<, Nat)
<1>1. IsWellFoundedOn(R, Nat)
  BY NatLessThanWellFounded
<1>2. \A x, y \in Nat : <<y, x>> \in R <=> y < x
  BY DEF OpToRel
<1> HIDE DEF R
<1>3. \E x \in T : \A y \in T : ~ (<<y, x>> \in R)
  BY <1>1, WFMin
<1>4. PICK n \in T : \A m \in T : ~ (<<m, n>> \in R)
  BY <1>3
<1>5. ASSUME NEW m \in T PROVE n <= m
  <2>1. ~ (m < n)
    BY <1>2, <1>4
  <2> QED BY <2>1
<1> QED BY <1>5

Rodata(s) == Promise!IsRodata(file.sections[s])

(* The section found so far: none, or the last .rodata section before i.   *)
FoundLast ==
  \/ rodataSize = 0 /\ \A s \in 1 .. i - 1 : ~Rodata(s)
  \/ \E s \in 1 .. i - 1 :
       /\ Rodata(s)
       /\ rodataOffset = file.sections[s].offset
       /\ rodataSize = file.sections[s].size
       /\ \A t \in s + 1 .. i - 1 : ~Rodata(t)

(* Nothing is left where the scan has been.                                *)
Cleared == \A at \in rodataOffset .. rodataOffset + j - 1 : ~Promise!OccursAt(content, at)

(* The inductive invariant: LeftOver speaks of the end only.               *)
IInv ==
  /\ TypeOK
  /\ file \in Programs
  /\ FoundLast
  /\ Cleared
  /\ pc \in {"open", "lookup"} => j = 0
  /\ pc \in {"lookup", "scan", "done"} => file.header = "elf"
  /\ pc \in {"scan", "done"} => i = Len(file.sections) + 1
  /\ pc = "done" => j >= rodataSize - Len(Old)
-----------------------------------------------------------------------------
(* What the assumptions say of one file.                                   *)
LEMMA FileType ==
  ASSUME NEW f \in Programs
  PROVE  /\ f.header \in Header
         /\ f.content \in Seq(STRING)
         /\ f.sections \in Seq([name : STRING, offset : Nat, size : Nat])
         /\ \A k \in 1 .. Len(f.sections) :
              /\ f.sections[k].offset \in Nat
              /\ f.sections[k].size \in Nat
              /\ f.sections[k].offset + f.sections[k].size <= Len(f.content)
<1>1. /\ f.header \in Header
      /\ f.content \in Seq(STRING)
      /\ f.sections \in Seq([name : STRING, offset : Nat, size : Nat])
      /\ \A k \in DOMAIN f.sections : f.sections[k].offset + f.sections[k].size <= Len(f.content)
  BY ProgramsAssumption
<1>2. ASSUME NEW k \in 1 .. Len(f.sections)
      PROVE  f.sections[k] \in [name : STRING, offset : Nat, size : Nat]
  BY <1>1, ElementOfSeq
<1> QED BY <1>1, <1>2

(* Replacing a string does not change how long the file is.                *)
LEMMA ReplacedType ==
  ASSUME NEW bytes \in Seq(STRING), NEW at \in Nat
  PROVE  /\ Promise!Replaced(bytes, at) \in Seq(STRING)
         /\ Len(Promise!Replaced(bytes, at)) = Len(bytes)
<1>1. ASSUME NEW k \in DOMAIN bytes
      PROVE  (IF k - at \in DOMAIN New THEN New[k - at] ELSE bytes[k]) \in STRING
  BY StringsAssumption
<1> DEFINE r == [k \in 1 .. Len(bytes) |-> IF k - at \in DOMAIN New THEN New[k - at] ELSE bytes[k]]
<1>2. r \in [1 .. Len(bytes) -> STRING]
  BY <1>1
<1>3. Len(bytes) \in Nat
  OBVIOUS
<1>4. r \in Seq(STRING) /\ Len(r) = Len(bytes)
  BY <1>2, <1>3
<1>5. Promise!Replaced(bytes, at) = r
  BY DEF Promise!Replaced
<1> QED BY <1>4, <1>5

(* A replacement leaves no occurrence where there was none, nor at its own *)
(* place: one that overlaps it would hold the first or the last letter of  *)
(* the new string.                                                         *)
LEMMA ReplacedClears ==
  ASSUME NEW bytes \in Seq(STRING), NEW at \in Nat, NEW b \in Nat,
         Promise!OccursAt(bytes, at),
         b = at \/ ~Promise!OccursAt(bytes, b)
  PROVE  ~Promise!OccursAt(Promise!Replaced(bytes, at), b)
<1> DEFINE r == Promise!Replaced(bytes, at)
           L == Len(Old)
<1>1. /\ L \in Nat /\ L > 0 /\ Len(New) = L
      /\ DOMAIN Old = 1 .. L /\ DOMAIN New = 1 .. L
      /\ \A k \in 1 .. L : Old[k] # New[1] /\ Old[k] # New[L]
  BY StringsAssumption
<1>2. /\ DOMAIN r = DOMAIN bytes
      /\ \A k \in DOMAIN bytes : r[k] = IF k - at \in DOMAIN New THEN New[k - at] ELSE bytes[k]
  BY DEF Promise!Replaced
<1>3. \A k \in 1 .. L : at + k \in DOMAIN bytes
  BY DEF Promise!OccursAt
<1>4. SUFFICES ASSUME \A k \in 1 .. L : b + k \in DOMAIN r /\ r[b + k] = Old[k]
               PROVE  FALSE
  BY DEF Promise!OccursAt
<1>5. CASE b <= at /\ at < b + L
  <2>1. at + 1 - b \in 1 .. L /\ b + (at + 1 - b) = at + 1
    BY <1>1, <1>5
  <2>2. r[at + 1] = Old[at + 1 - b]
    BY <1>4, <2>1
  <2>3. r[at + 1] = New[1]
    BY <1>1, <1>2, <1>3
  <2> QED BY <1>1, <2>1, <2>2, <2>3
<1>6. CASE at < b /\ b < at + L
  <2>1. at + L - b \in 1 .. L /\ b + (at + L - b) = at + L
    BY <1>1, <1>6
  <2>2. r[at + L] = Old[at + L - b]
    BY <1>4, <2>1
  <2>3. r[at + L] = New[L]
    BY <1>1, <1>2, <1>3
  <2> QED BY <1>1, <2>1, <2>2, <2>3
<1>7. CASE at >= b + L \/ b >= at + L
  <2>1. ASSUME NEW k \in 1 .. L
        PROVE  b + k \in DOMAIN bytes /\ bytes[b + k] = Old[k]
    <3>1. b + k - at \notin 1 .. L
      BY <1>1, <1>7
    <3> QED BY <1>1, <1>2, <1>4, <3>1
  <2>2. Promise!OccursAt(bytes, b)
    BY <2>1 DEF Promise!OccursAt
  <2> QED BY <1>1, <1>7, <2>2
<1> QED BY <1>1, <1>5, <1>6, <1>7
-----------------------------------------------------------------------------
LEMMA InitIInv == Init => IInv
<1> SUFFICES ASSUME Init PROVE IInv
  OBVIOUS
<1> USE DEF Init
<1>1. file \in Programs /\ file.content \in Seq(STRING) /\ file.sections \in Seq([name : STRING, offset : Nat, size : Nat])
  BY FileType
<1>2. TypeOK
  BY <1>1 DEF TypeOK
<1>3. FoundLast /\ Cleared
  BY DEF FoundLast, Cleared
<1> QED BY <1>1, <1>2, <1>3 DEF IInv

LEMMA OpenPreserves == ASSUME IInv, Open PROVE IInv'
<1> USE DEF Open
<1>1. file.header \in Header
  BY FileType DEF IInv
<1>2. TypeOK'
  BY <1>1 DEF IInv, TypeOK, Header
<1>3. FoundLast' /\ Cleared'
  BY DEF IInv, FoundLast, Cleared, Rodata
<1> QED BY <1>1, <1>2, <1>3 DEF IInv, Header

LEMMA LookupPreserves == ASSUME IInv, Lookup PROVE IInv'
<1> DEFINE section == file.sections[i]
<1>1. /\ file \in Programs
      /\ Len(content) = Len(file.content)
      /\ i \in 1 .. Len(file.sections)
      /\ Len(file.sections) \in Nat
      /\ j = 0
  <2>1. file.sections \in Seq([name : STRING, offset : Nat, size : Nat])
    BY FileType DEF IInv
  <2> QED BY <2>1 DEF IInv, TypeOK, Lookup
<1>2. /\ section.offset \in Nat /\ section.size \in Nat
      /\ section.offset + section.size <= Len(content)
  BY <1>1, FileType
<1>3. CASE Rodata(i)
  <2>1. /\ rodataOffset' = section.offset /\ rodataSize' = section.size
        /\ i' = i + 1 /\ UNCHANGED <<file, content, pc, j>>
    BY <1>3 DEF Lookup, Rodata
  <2>2. TypeOK'
    BY <1>1, <1>2, <2>1 DEF IInv, TypeOK
  <2>3. FoundLast'
    <3>1. i \in 1 .. i' - 1 /\ \A t \in i + 1 .. i' - 1 : ~Rodata(t)
      BY <1>1, <2>1
    <3> QED BY <1>3, <2>1, <3>1 DEF FoundLast, Rodata
  <2>4. Cleared'
    BY <1>1, <1>2, <2>1 DEF Cleared
  <2> QED BY <1>1, <2>1, <2>2, <2>3, <2>4 DEF IInv, Lookup
<1>4. CASE ~Rodata(i)
  <2>1. /\ UNCHANGED <<rodataOffset, rodataSize, file, content, pc, j>> /\ i' = i + 1
    BY <1>4 DEF Lookup, Rodata
  <2>2. TypeOK'
    BY <1>1, <2>1 DEF IInv, TypeOK
  <2>3. FoundLast'
    <3>1. 1 .. i' - 1 = (1 .. i - 1) \cup {i}
      BY <1>1, <2>1
    <3>2. \A s \in 1 .. i - 1 : s + 1 .. i' - 1 = (s + 1 .. i - 1) \cup {i}
      BY <1>1, <2>1
    <3>3. FoundLast
      BY DEF IInv
    <3>4. CASE rodataSize = 0 /\ \A s \in 1 .. i - 1 : ~Rodata(s)
      BY <1>4, <2>1, <3>1, <3>4 DEF FoundLast, Rodata
    <3>5. CASE \E s \in 1 .. i - 1 :
                 /\ Rodata(s)
                 /\ rodataOffset = file.sections[s].offset
                 /\ rodataSize = file.sections[s].size
                 /\ \A t \in s + 1 .. i - 1 : ~Rodata(t)
      BY <1>4, <2>1, <3>1, <3>2, <3>5 DEF FoundLast, Rodata
    <3> QED BY <3>3, <3>4, <3>5 DEF FoundLast
  <2>4. Cleared'
    BY <2>1 DEF IInv, Cleared
  <2> QED BY <1>1, <2>1, <2>2, <2>3, <2>4 DEF IInv, Lookup
<1> QED BY <1>3, <1>4

LEMMA DonePreserves == ASSUME IInv, LookupDone \/ ScanDone PROVE IInv'
<1> USE DEF LookupDone, ScanDone
<1>0. file.sections \in Seq([name : STRING, offset : Nat, size : Nat])
  BY FileType DEF IInv
<1>1. TypeOK'
  BY DEF IInv, TypeOK
<1>2. FoundLast' /\ Cleared'
  BY DEF IInv, FoundLast, Cleared, Rodata
<1>3. i = Len(file.sections) + 1
  BY <1>0 DEF IInv, TypeOK
<1> QED BY <1>1, <1>2, <1>3 DEF IInv

(* One turn of the scan.                                                   *)
LEMMA ScanPreserves == ASSUME IInv, Scan PROVE IInv'
<1> DEFINE at == rodataOffset + j
<1>1. /\ at \in Nat /\ rodataOffset \in Nat /\ rodataSize \in Nat /\ j \in Nat
      /\ content \in Seq(STRING)
      /\ Len(Old) \in Nat
  BY StringsAssumption DEF IInv, TypeOK
<1>2. /\ content' = IF Promise!OccursAt(content, at) THEN Promise!Replaced(content, at) ELSE content
      /\ j' = j + 1 /\ j < rodataSize - Len(Old)
      /\ UNCHANGED <<file, pc, i, rodataOffset, rodataSize>>
      /\ pc = "scan"
  BY DEF Scan
<1>3. content' \in Seq(STRING) /\ Len(content') = Len(content)
  BY <1>1, <1>2, ReplacedType
<1>4. TypeOK'
  BY <1>1, <1>2, <1>3 DEF IInv, TypeOK
<1>5. FoundLast'
  BY <1>2 DEF IInv, FoundLast, Rodata
<1>6. Cleared'
  <2>1. SUFFICES ASSUME NEW b \in rodataOffset .. rodataOffset + j
                 PROVE  ~Promise!OccursAt(content', b)
    BY <1>1, <1>2 DEF Cleared
  <2>2. b \in Nat /\ (b = at \/ b \in rodataOffset .. rodataOffset + j - 1)
    BY <1>1
  <2>3. b = at \/ ~Promise!OccursAt(content, b)
    BY <2>2 DEF IInv, Cleared
  <2>4. CASE Promise!OccursAt(content, at)
    BY <1>1, <1>2, <2>2, <2>3, <2>4, ReplacedClears
  <2>5. CASE ~Promise!OccursAt(content, at)
    BY <1>2, <2>3, <2>5
  <2> QED BY <2>4, <2>5
<1> QED BY <1>2, <1>4, <1>5, <1>6 DEF IInv

LEMMA StepPreserves == ASSUME IInv, [Next]_vars PROVE IInv'
<1>1. CASE UNCHANGED vars
  BY <1>1 DEF IInv, vars, TypeOK, FoundLast, Cleared, Rodata
<1> QED
  BY <1>1, OpenPreserves, LookupPreserves, DonePreserves, ScanPreserves DEF Next

(* The inductive invariant holds of every run.                             *)
THEOREM InvCorrect == Spec => []IInv
BY InitIInv, StepPreserves, PTL DEF Spec

(* TypeOK: the program compares no bytes outside the section it found.     *)
THEOREM TypeCorrect == Spec => []TypeOK
<1>1. IInv => TypeOK
  BY DEF IInv
<1> QED BY <1>1, InvCorrect, PTL

(* LeftOver: what is not replaced lies in a section that is not the last   *)
(* .rodata section, or at the end of its section.                          *)
THEOREM LeftOverCorrect == Spec => []LeftOver
<1>1. IInv => LeftOver
  <2>1. SUFFICES ASSUME IInv, pc = "done",
                        NEW s \in DOMAIN file.sections, NEW at \in 0 .. Len(content),
                        Rodata(s),
                        Promise!InSection(at, file.sections[s]),
                        Promise!OccursAt(content, at),
                        \A t \in s + 1 .. Len(file.sections) : ~Rodata(t)
                 PROVE  at + Len(Old) = file.sections[s].offset + file.sections[s].size
    BY DEF LeftOver, Rodata
  <2>2. /\ file \in Programs /\ s \in 1 .. Len(file.sections) /\ Len(file.sections) \in Nat
        /\ i = Len(file.sections) + 1
        /\ Len(Old) \in Nat
    BY FileType, StringsAssumption, <2>1 DEF IInv
  <2>3. rodataOffset = file.sections[s].offset /\ rodataSize = file.sections[s].size
    <3>1. s \in 1 .. i - 1
      BY <2>2
    <3>2. PICK k \in 1 .. i - 1 :
            /\ Rodata(k)
            /\ rodataOffset = file.sections[k].offset
            /\ rodataSize = file.sections[k].size
            /\ \A t \in k + 1 .. i - 1 : ~Rodata(t)
      BY <2>1, <3>1 DEF IInv, FoundLast
    <3>3. ~(k < s) /\ ~(s < k)
      BY <2>1, <2>2, <3>1, <3>2
    <3>4. k = s
      BY <2>2, <3>2, <3>3
    <3> QED BY <3>2, <3>4
  <2>4. /\ at \in Nat /\ rodataOffset <= at /\ at + Len(Old) <= rodataOffset + rodataSize
        /\ rodataOffset \in Nat /\ rodataSize \in Nat /\ j \in Nat
        /\ j >= rodataSize - Len(Old)
    BY <2>1, <2>3 DEF IInv, TypeOK, Promise!InSection
  <2>5. at \notin rodataOffset .. rodataOffset + j - 1
    BY <2>1 DEF IInv, Cleared
  <2>6. at + Len(Old) = rodataOffset + rodataSize
    <3>1. at >= rodataOffset + j
      BY <2>4, <2>5
    <3>2. \A len \in Nat :
            /\ at + len <= rodataOffset + rodataSize
            /\ j >= rodataSize - len
            => at + len = rodataOffset + rodataSize
      BY <2>4, <3>1
    <3> QED BY <2>2, <2>4, <3>2
  <2> QED BY <2>3, <2>6
<1> QED BY <1>1, InvCorrect, PTL

(* ImplementsStringEditor: every step of the program replaces one          *)
(* occurrence in a .rodata section, or does not change the file.           *)
THEOREM RefinesStringEditor == Spec => ImplementsStringEditor
<1> DEFINE promised == <<file.header = "elf", file.sections, content>>
<1>1. ASSUME IInv, [Next]_vars
      PROVE  [Promise!Next]_promised
  <2>1. CASE Scan /\ Promise!OccursAt(content, rodataOffset + j)
    <3> DEFINE at == rodataOffset + j
    <3>1. /\ content' = Promise!Replaced(content, at) /\ UNCHANGED file
          /\ pc = "scan" /\ j < rodataSize - Len(Old)
      BY <2>1 DEF Scan
    <3>2. /\ rodataOffset \in Nat /\ rodataSize \in Nat /\ j \in Nat
          /\ Len(Old) \in Nat
          /\ Len(content) \in Nat /\ rodataOffset + rodataSize <= Len(content)
      BY <1>1, StringsAssumption DEF IInv, TypeOK
    <3>3. rodataSize # 0
      BY <3>1, <3>2
    <3>4. PICK s \in 1 .. i - 1 :
            /\ Rodata(s)
            /\ rodataOffset = file.sections[s].offset
            /\ rodataSize = file.sections[s].size
      BY <1>1, <3>3 DEF IInv, FoundLast
    <3>5. s \in DOMAIN file.sections /\ file.header = "elf"
      <4>1. file.sections \in Seq([name : STRING, offset : Nat, size : Nat])
        BY <1>1, FileType DEF IInv
      <4> QED BY <1>1, <3>1, <3>4, <4>1 DEF IInv
    <3>6. at \in 0 .. Len(content) /\ Promise!InSection(at, file.sections[s])
      <4>1. at \in 0 .. Len(content) /\ rodataOffset <= at /\ at + Len(Old) <= rodataOffset + rodataSize
        BY <3>1, <3>2
      <4> QED BY <3>4, <4>1 DEF Promise!InSection
    <3>7. Promise!Replace(s, at)
      BY <2>1, <3>1, <3>4, <3>5, <3>6 DEF Promise!Replace, Rodata
    <3> QED BY <3>5, <3>6, <3>7 DEF Promise!Next
  <2>2. CASE Scan /\ ~Promise!OccursAt(content, rodataOffset + j)
    BY <2>2 DEF Scan
  <2>3. CASE Open \/ Lookup \/ LookupDone \/ ScanDone \/ UNCHANGED vars
    BY <2>3 DEF Open, Lookup, LookupDone, ScanDone, vars
  <2> QED BY <1>1, <2>1, <2>2, <2>3 DEF Next
<1> QED
  BY <1>1, InvCorrect, PTL DEF Spec, ImplementsStringEditor, Promise!Spec
-----------------------------------------------------------------------------
(***************************************************************************)
(* The model answer                                                        *)
(***************************************************************************)

(* No occurrence in section s begins before position p of it.              *)
ClearedTo(s, p) ==
  \A at \in Nat :
    Promise!InSection(at, file.sections[s]) /\ at < file.sections[s].offset + p
      => ~Promise!OccursAt(answerContent, at)

(* The inductive invariant: the sections passed are cleared, and the one   *)
(* being searched is up to where the next search starts.                   *)
AnswerInv ==
  /\ Answer!TypeOK
  /\ file \in Programs
  /\ \A s \in 1 .. answerI - 1 : Rodata(s) => ClearedTo(s, file.sections[s].size)
  /\ answerPc = "search" => answerI <= Len(file.sections) /\ Rodata(answerI) /\ ClearedTo(answerI, answerJ)
  /\ answerPc \in {"lookup", "search", "done"} => file.header = "elf"
  /\ answerPc = "done" => answerI = Len(file.sections) + 1

(* The model answer's own copy of StringEditor says the same.              *)
LEMMA AnswerPromiseIs ==
  /\ \A s : Answer!Promise!IsRodata(s) = Promise!IsRodata(s)
  /\ \A bytes, at : Answer!Promise!OccursAt(bytes, at) = Promise!OccursAt(bytes, at)
  /\ \A bytes, at : Answer!Promise!Replaced(bytes, at) = Promise!Replaced(bytes, at)
  /\ \A at, s : Answer!Promise!InSection(at, s) = Promise!InSection(at, s)
<1>1. \A s : Answer!Promise!IsRodata(s) = Promise!IsRodata(s)
  BY DEF Answer!Promise!IsRodata, Promise!IsRodata
<1>2. \A bytes, at : Answer!Promise!OccursAt(bytes, at) = Promise!OccursAt(bytes, at)
  BY DEF Answer!Promise!OccursAt, Promise!OccursAt
<1>3. \A bytes, at : Answer!Promise!Replaced(bytes, at) = Promise!Replaced(bytes, at)
  BY DEF Answer!Promise!Replaced, Promise!Replaced
<1>4. \A at, s : Answer!Promise!InSection(at, s) = Promise!InSection(at, s)
  BY DEF Answer!Promise!InSection, Promise!InSection
<1> QED BY <1>1, <1>2, <1>3, <1>4

(* A section in memory.                                                    *)
LEMMA SectionBytes ==
  ASSUME NEW bytes \in Seq(STRING), NEW o \in Nat, NEW n \in Nat, o + n <= Len(bytes)
  PROVE  /\ SubSeq(bytes, o + 1, o + n) \in Seq(STRING)
         /\ Len(SubSeq(bytes, o + 1, o + n)) = n
         /\ \A k \in 1 .. n : SubSeq(bytes, o + 1, o + n)[k] = bytes[o + k]
<1>1. PICK b : b = SubSeq(bytes, o + 1, o + n)
  OBVIOUS
<1>2. o + n - (o + 1) + 1 = n /\ \A k \in 1 .. n : o + 1 + k - 1 = o + k /\ o + k \in 1 .. Len(bytes)
  OBVIOUS
<1>3. b = [k \in 1 .. n |-> bytes[o + k]]
  BY <1>1, <1>2 DEF SubSeq
<1>4. ASSUME NEW k \in 1 .. n PROVE bytes[o + k] \in STRING
  BY <1>2, ElementOfSeq
<1>5. b \in [1 .. n -> STRING]
  BY <1>3, <1>4
<1>6. b \in Seq(STRING) /\ Len(b) = n
  BY ONLY <1>5, n \in Nat
<1> QED BY <1>1, <1>3, <1>6

(* The file with these bytes at offset o.                                  *)
WrittenInto(bytes, o, r) == [k \in DOMAIN bytes |-> IF k - o \in DOMAIN r THEN r[k - o] ELSE bytes[k]]

(* An occurrence at `at' of section b, n bytes from offset o, is one of the *)
(* file, and writing the section back is replacing it there.               *)
ReplacesInFile(bytes, o, n, b, at) ==
  /\ Promise!OccursAt(bytes, o + at)
  /\ at + Len(Old) <= n
  /\ WrittenInto(bytes, o, Promise!Replaced(b, at)) = Promise!Replaced(bytes, o + at)
  /\ SubSeq(Promise!Replaced(bytes, o + at), o + 1, o + n) = Promise!Replaced(b, at)

(* Writing back a section in which an occurrence was replaced is replacing *)
(* it in the file.                                                         *)
LEMMA WrittenBackReplaces ==
  ASSUME NEW bytes \in Seq(STRING), NEW o \in Nat, NEW n \in Nat, o + n <= Len(bytes),
         NEW b, b = SubSeq(bytes, o + 1, o + n),
         NEW at \in Nat, Promise!OccursAt(b, at)
  PROVE  ReplacesInFile(bytes, o, n, b, at)
<1>1. PICK L, len : /\ L = Len(Old) /\ L \in Nat /\ L > 0 /\ DOMAIN Old = 1 .. L /\ DOMAIN New = 1 .. L
                    /\ len = Len(bytes) /\ len \in Nat /\ DOMAIN bytes = 1 .. len
  <2>1. Len(Old) \in Nat /\ Len(Old) > 0 /\ DOMAIN Old = 1 .. Len(Old) /\ DOMAIN New = 1 .. Len(Old)
    BY StringsAssumption
  <2>2. Len(bytes) \in Nat /\ DOMAIN bytes = 1 .. Len(bytes)
    OBVIOUS
  <2> QED BY <2>1, <2>2
<1>2. /\ b \in Seq(STRING) /\ Len(b) = n /\ DOMAIN b = 1 .. n
      /\ \A k \in 1 .. n : b[k] = bytes[o + k]
  <2>1. b \in Seq(STRING) /\ Len(b) = n /\ \A k \in 1 .. n : b[k] = bytes[o + k]
    BY SectionBytes
  <2> QED BY <2>1
<1>3. \A k \in 1 .. L : at + k \in 1 .. n /\ b[at + k] = Old[k]
  BY <1>1, <1>2 DEF Promise!OccursAt
<1>4. at + L <= n
  <2>1. L \in 1 .. L
    BY <1>1
  <2>2. at + L \in 1 .. n
    BY <1>3, <2>1
  <2> QED BY <2>2
<1>5. Promise!OccursAt(bytes, o + at)
  <2> SUFFICES ASSUME NEW k \in 1 .. L PROVE o + at + k \in 1 .. len /\ bytes[o + at + k] = Old[k]
    BY <1>1 DEF Promise!OccursAt
  <2>1. PICK m : m = at + k
    OBVIOUS
  <2>2. m \in 1 .. n /\ b[m] = Old[k] /\ o + m = o + at + k
    BY <1>1, <1>3, <2>1
  <2>3. o + m \in 1 .. len
    BY <1>1, <2>2
  <2> QED BY <1>2, <2>2, <2>3
<1>6. PICK r, v, w : /\ r = Promise!Replaced(b, at) /\ v = Promise!Replaced(bytes, o + at)
                     /\ w = WrittenInto(bytes, o, r)
  OBVIOUS
<1>7. /\ DOMAIN r = 1 .. n
      /\ \A k \in 1 .. n : r[k] = IF k - at \in 1 .. L THEN New[k - at] ELSE b[k]
      /\ v = [k \in 1 .. len |-> IF k - (o + at) \in 1 .. L THEN New[k - (o + at)] ELSE bytes[k]]
      /\ w = [k \in 1 .. len |-> IF k - o \in 1 .. n THEN r[k - o] ELSE bytes[k]]
  BY <1>1, <1>2, <1>6 DEF Promise!Replaced, WrittenInto
<1>8. ASSUME NEW k \in 1 .. len
      PROVE  (IF k - o \in 1 .. n THEN r[k - o] ELSE bytes[k])
               = IF k - (o + at) \in 1 .. L THEN New[k - (o + at)] ELSE bytes[k]
  <2>1. PICK m, q : m = k - o /\ q = k - (o + at) /\ m \in Int /\ q \in Int /\ q = m - at /\ k = o + m
    BY <1>1
  <2>2. CASE m \in 1 .. n
    <3>1. r[m] = IF q \in 1 .. L THEN New[q] ELSE b[m]
      BY <1>7, <2>1, <2>2
    <3>2. b[m] = bytes[k]
      BY <1>2, <2>1, <2>2
    <3> QED BY <2>1, <2>2, <3>1, <3>2
  <2>3. CASE m \notin 1 .. n
    <3>1. q \notin 1 .. L
      BY <1>1, <1>4, <2>1, <2>3
    <3> QED BY <2>1, <2>3, <3>1
  <2> QED BY <2>2, <2>3
<1>9. w = v
  BY <1>7, <1>8
<1>10. SubSeq(w, o + 1, o + n) = r
  <2>1. v \in Seq(STRING) /\ Len(v) = len
    BY <1>1, <1>6, ReplacedType
  <2>2. PICK u : u = SubSeq(w, o + 1, o + n)
    OBVIOUS
  <2>3. u \in Seq(STRING) /\ Len(u) = n /\ \A k \in 1 .. n : u[k] = w[o + k]
    <3>1. w \in Seq(STRING) /\ o + n <= Len(w)
      BY <1>1, <1>9, <2>1
    <3> QED BY <2>2, <3>1, SectionBytes
  <2>4. r \in Seq(STRING) /\ Len(r) = n
    BY <1>2, <1>6, ReplacedType
  <2>5. ASSUME NEW k \in 1 .. n PROVE u[k] = r[k]
    <3>1. PICK m : m = o + k
      OBVIOUS
    <3>2. m \in 1 .. len /\ m - o = k
      BY <1>1, <3>1
    <3>3. w[m] = r[k]
      BY <1>7, <3>2
    <3> QED BY <2>3, <3>1, <3>3
  <2> QED BY <2>2, <2>3, <2>4, <2>5, SeqEqual
<1> QED BY <1>1, <1>4, <1>5, <1>6, <1>9, <1>10 DEF ReplacesInFile
-----------------------------------------------------------------------------
(* What TypeOK says of the section being searched.                         *)
LEMMA SearchedSection ==
  ASSUME AnswerInv, answerPc = "search"
  PROVE  /\ answerI \in 1 .. Len(file.sections)
         /\ Answer!Section = file.sections[answerI]
         /\ file.sections[answerI].offset \in Nat /\ file.sections[answerI].size \in Nat
         /\ file.sections[answerI].offset + file.sections[answerI].size <= Len(answerContent)
         /\ buff = SubSeq(answerContent, file.sections[answerI].offset + 1,
                          file.sections[answerI].offset + file.sections[answerI].size)
         /\ buff \in Seq(STRING) /\ Len(buff) = file.sections[answerI].size
         /\ answerJ \in 0 .. file.sections[answerI].size
         /\ answerContent \in Seq(STRING) /\ Len(answerContent) \in Nat
<1>1. PICK s : s = file.sections[answerI]
  OBVIOUS
<1>2. /\ answerI \in 1 .. Len(file.sections)
      /\ answerContent \in Seq(STRING) /\ Len(answerContent) = Len(file.content)
      /\ buff = SubSeq(answerContent, s.offset + 1, s.offset + s.size)
      /\ answerJ \in 0 .. Len(buff)
  <2>1. answerI \in 1 .. Len(file.sections) + 1 /\ answerI <= Len(file.sections) /\ Len(file.sections) \in Nat
    BY FileType DEF AnswerInv, Answer!TypeOK
  <2> QED BY <1>1, <2>1 DEF AnswerInv, Answer!TypeOK, Answer!Section
<1>3. s.offset \in Nat /\ s.size \in Nat /\ s.offset + s.size <= Len(answerContent)
  BY <1>1, <1>2, FileType DEF AnswerInv
<1>4. buff \in Seq(STRING) /\ Len(buff) = s.size
  BY <1>2, <1>3, SectionBytes
<1>5. Len(answerContent) \in Nat
  BY <1>2
<1>6. Answer!Section = s
  BY <1>1 DEF Answer!Section
<1> QED BY <1>1, <1>2, <1>3, <1>4, <1>5, <1>6

(* A turn of the loop replaces the first occurrence strstr finds, or there *)
(* is none where it starts.                                                *)
LEMMA SearchFinds ==
  ASSUME AnswerInv, Answer!Search
  PROVE  \/ UNCHANGED <<answerContent, buff>> /\ ~Promise!OccursAt(buff, answerJ)
         \/ \E at \in Nat :
              /\ Promise!OccursAt(buff, at)
              /\ at = answerJ \/ ~Promise!OccursAt(buff, answerJ)
              /\ buff' = Promise!Replaced(buff, at)
              /\ answerContent' = Answer!WrittenBack(Promise!Replaced(buff, at))
<1>1. PICK n, from : n = file.sections[answerI].size /\ from = answerJ
  OBVIOUS
<1>2. n \in Nat /\ from \in 0 .. n /\ from < n /\ Answer!Section.size = n
  BY <1>1, SearchedSection DEF Answer!Search
<1>3. \A at \in 0 .. n : Answer!Found(at) <=>
        at >= from /\ Promise!OccursAt(buff, at) /\ \A k \in from + 1 .. at : buff[k] # "nul"
  BY <1>1, AnswerPromiseIs DEF Answer!Found
<1>4. Promise!OccursAt(buff, from) => Answer!Found(from)
  <2>1. \A k \in from + 1 .. from : FALSE
    BY <1>2
  <2>2. from \in 0 .. n /\ from >= from
    BY <1>2
  <2> QED BY <1>3, <2>1, <2>2
<1>5. CASE \E at \in 0 .. n : Answer!Found(at)
  <2> DEFINE T == {at \in 0 .. n : Answer!Found(at)}
  <2>1. T # {} /\ T \in SUBSET Nat
    BY <1>2, <1>5
  <2>2. PICK m \in T : \A o \in T : m <= o
    <3> HIDE DEF T
    <3> QED BY <2>1, Least
  <2>3. m \in 0 .. n /\ Answer!Found(m) /\ \A o \in 0 .. m - 1 : ~Answer!Found(o)
    <3>1. \A o \in 0 .. m - 1 : o \in 0 .. n /\ ~(m <= o)
      BY <1>2, <2>2
    <3> QED BY <2>2, <3>1
  <2>4. PICK ptr : ptr = CHOOSE at \in 0 .. n : Answer!Found(at) /\ \A b \in 0 .. at - 1 : ~Answer!Found(b)
    OBVIOUS
  <2>5. ptr \in 0 .. n /\ Answer!Found(ptr) /\ \A b \in 0 .. ptr - 1 : ~Answer!Found(b)
    BY <2>3, <2>4
  <2>6. /\ buff' = Promise!Replaced(buff, ptr)
        /\ answerContent' = Answer!WrittenBack(Promise!Replaced(buff, ptr))
    BY <1>2, <1>5, <2>4, AnswerPromiseIs DEF Answer!Search
  <2>7. ptr = from \/ ~Promise!OccursAt(buff, from)
    <3> SUFFICES ASSUME ptr # from PROVE ~Answer!Found(from)
      BY <1>4
    <3>1. ptr >= from
      BY <1>3, <2>5
    <3>2. from \in 0 .. ptr - 1
      BY <1>2, <2>5, <3>1
    <3> QED BY <2>5, <3>2
  <2>8. ptr \in Nat /\ Promise!OccursAt(buff, ptr)
    BY <1>2, <1>3, <2>5
  <2> QED BY <1>1, <2>6, <2>7, <2>8
<1>6. CASE ~ \E at \in 0 .. n : Answer!Found(at)
  <2>1. UNCHANGED <<answerContent, buff>>
    BY <1>2, <1>6 DEF Answer!Search
  <2> QED BY <1>1, <1>2, <1>4, <1>6, <2>1
<1> QED BY <1>5, <1>6

(* An occurrence in the section is one in the buffer.                      *)
LEMMA OccursInBuffer ==
  ASSUME NEW bytes \in Seq(STRING), NEW o \in Nat, NEW n \in Nat, o + n <= Len(bytes),
         NEW b, b = SubSeq(bytes, o + 1, o + n),
         NEW at \in Nat, at + Len(Old) <= n, Promise!OccursAt(bytes, o + at)
  PROVE  Promise!OccursAt(b, at)
<1>1. Len(Old) \in Nat /\ DOMAIN Old = 1 .. Len(Old)
  BY StringsAssumption
<1>2. b \in Seq(STRING) /\ Len(b) = n /\ \A k \in 1 .. n : b[k] = bytes[o + k]
  BY SectionBytes
<1> SUFFICES ASSUME NEW k \in 1 .. Len(Old) PROVE at + k \in DOMAIN b /\ b[at + k] = Old[k]
  BY DEF Promise!OccursAt
<1>3. PICK m : m = at + k
  OBVIOUS
<1>4. m \in 1 .. n /\ o + m = o + at + k
  BY <1>1, <1>3
<1>5. bytes[o + at + k] = Old[k]
  BY DEF Promise!OccursAt
<1> QED BY <1>2, <1>3, <1>4, <1>5
-----------------------------------------------------------------------------
LEMMA AnswerInitInv == Init /\ Answer!Start => AnswerInv
<1> SUFFICES ASSUME Init, Answer!Start PROVE AnswerInv
  OBVIOUS
<1>1. file \in Programs /\ answerContent = file.content /\ answerPc = "open" /\ answerI = 1
      /\ buff = <<>> /\ answerJ = 0
  BY DEF Init, Answer!Start
<1>2. file.content \in Seq(STRING) /\ Len(file.sections) \in Nat
  BY <1>1, FileType
<1>3. Answer!TypeOK
  BY <1>1, <1>2 DEF Answer!TypeOK
<1> QED BY <1>1, <1>3 DEF AnswerInv

LEMMA AnswerOpenPreserves == ASSUME AnswerInv, Answer!Open, file' = file PROVE AnswerInv'
<1>1. file.header \in Header
  BY FileType DEF AnswerInv
<1>2. /\ UNCHANGED <<answerContent, answerI, buff, answerJ>>
      /\ answerPc = "open"
      /\ answerPc' \in {"returned", "aborted", "lookup"}
      /\ answerPc' = "lookup" => file.header = "elf"
  BY <1>1 DEF Answer!Open, Header
<1>3. Answer!TypeOK'
  BY <1>2 DEF AnswerInv, Answer!TypeOK
<1>4. \A s \in 1 .. answerI' - 1 : Rodata(s)' => ClearedTo(s, file.sections[s].size)'
  BY <1>2 DEF AnswerInv, Rodata, ClearedTo
<1> QED BY <1>2, <1>3, <1>4 DEF AnswerInv

LEMMA AnswerSkipPreserves == ASSUME AnswerInv, Answer!Skip, file' = file PROVE AnswerInv'
<1>1. PICK n, m : n = Len(file.sections) /\ m = answerI
  OBVIOUS
<1>2. n \in Nat /\ m \in 1 .. n + 1
  BY <1>1, FileType DEF AnswerInv, Answer!TypeOK
<1>3. UNCHANGED <<answerContent, buff, answerJ>> /\ answerPc = "lookup"
  BY DEF Answer!Skip
<1>4. CASE m > n
  <2>1. answerPc' = "done" /\ answerI' = m /\ m = n + 1
    BY <1>1, <1>2, <1>4 DEF Answer!Skip
  <2>2. Answer!TypeOK'
    BY <1>1, <1>2, <1>3, <2>1 DEF AnswerInv, Answer!TypeOK
  <2>3. \A s \in 1 .. answerI' - 1 : Rodata(s)' => ClearedTo(s, file.sections[s].size)'
    BY <1>1, <1>3, <2>1 DEF AnswerInv, Rodata, ClearedTo
  <2> QED BY <1>1, <1>3, <2>1, <2>2, <2>3 DEF AnswerInv
<1>5. CASE ~(m > n)
  <2>1. answerPc' = "lookup" /\ answerI' = m + 1 /\ m \in 1 .. n /\ ~Rodata(m)
    BY <1>1, <1>2, <1>3, <1>5, AnswerPromiseIs DEF Answer!Skip, Answer!Section, Rodata
  <2>2. Answer!TypeOK'
    BY <1>1, <1>2, <1>3, <2>1 DEF AnswerInv, Answer!TypeOK
  <2>3. ASSUME NEW s \in 1 .. m, Rodata(s) PROVE ClearedTo(s, file.sections[s].size)'
    <3>1. s \in 1 .. m - 1
      BY <1>2, <2>1, <2>3
    <3> QED BY <1>1, <1>3, <2>3, <3>1 DEF AnswerInv, ClearedTo
  <2>4. answerI' - 1 = m
    BY <1>2, <2>1
  <2> QED BY <1>3, <2>1, <2>2, <2>3, <2>4 DEF AnswerInv, Rodata
<1> QED BY <1>4, <1>5

LEMMA AnswerLoadPreserves == ASSUME AnswerInv, Answer!Load, file' = file PROVE AnswerInv'
<1>1. PICK n, m, o, size : /\ n = Len(file.sections) /\ m = answerI
                           /\ o = file.sections[m].offset /\ size = file.sections[m].size
  OBVIOUS
<1>2. n \in Nat /\ m \in 1 .. n /\ file.sections \in Seq([name : STRING, offset : Nat, size : Nat])
  BY <1>1, FileType DEF AnswerInv, Answer!TypeOK, Answer!Load
<1>3. /\ answerContent \in Seq(STRING) /\ Len(answerContent) = Len(file.content)
      /\ o \in Nat /\ size \in Nat /\ o + size <= Len(answerContent)
  BY <1>1, <1>2, FileType DEF AnswerInv, Answer!TypeOK
<1>4. /\ buff' = SubSeq(answerContent, o + 1, o + size)
      /\ UNCHANGED <<answerContent, answerI>> /\ answerJ' = 0
      /\ answerPc = "lookup" /\ answerPc' = "search" /\ Rodata(m)
  BY <1>1, AnswerPromiseIs DEF Answer!Load, Answer!Section, Rodata
<1>5. buff' \in Seq(STRING) /\ Len(buff') \in Nat
  BY <1>3, <1>4, SectionBytes
<1>6. Answer!TypeOK'
  BY <1>1, <1>2, <1>3, <1>4, <1>5 DEF AnswerInv, Answer!TypeOK, Answer!Section
<1>7. \A s \in 1 .. m - 1 : Rodata(s) => ClearedTo(s, file.sections[s].size)'
  BY <1>1, <1>4 DEF AnswerInv, ClearedTo
<1>8. ClearedTo(answerI, answerJ)'
  <2>1. \A at \in Nat : Promise!InSection(at, file.sections[m]) => ~(at < o + 0)
    BY <1>1, <1>3 DEF Promise!InSection
  <2> QED BY <1>1, <1>4, <2>1 DEF ClearedTo
<1>9. answerI' = m /\ m <= Len(file.sections) /\ file.header = "elf" /\ file \in Programs
  BY <1>1, <1>2, <1>4 DEF AnswerInv
<1> QED BY <1>1, <1>4, <1>6, <1>7, <1>8, <1>9 DEF AnswerInv, Rodata

LEMMA AnswerSearchDonePreserves == ASSUME AnswerInv, Answer!SearchDone, file' = file PROVE AnswerInv'
<1>1. PICK n, m : n = Len(file.sections) /\ m = answerI
  OBVIOUS
<1>2. n \in Nat /\ m \in 1 .. n
  BY <1>1, FileType, SearchedSection DEF AnswerInv, Answer!SearchDone
<1>3. /\ UNCHANGED <<answerContent, buff, answerJ>> /\ answerI' = m + 1
      /\ answerPc = "search" /\ answerPc' = "lookup" /\ answerJ = file.sections[m].size
  BY <1>1 DEF Answer!SearchDone, Answer!Section
<1>4. Answer!TypeOK'
  BY <1>1, <1>2, <1>3 DEF AnswerInv, Answer!TypeOK
<1>5. ASSUME NEW s \in 1 .. m, Rodata(s) PROVE ClearedTo(s, file.sections[s].size)'
  <2>1. CASE s = m
    BY <1>1, <1>3, <2>1 DEF AnswerInv, ClearedTo
  <2>2. CASE s # m
    <3>1. s \in 1 .. m - 1
      BY <1>2, <2>2
    <3> QED BY <1>1, <1>3, <1>5, <3>1 DEF AnswerInv, ClearedTo
  <2> QED BY <2>1, <2>2
<1>6. answerI' - 1 = m
  BY <1>2, <1>3
<1> QED BY <1>3, <1>4, <1>5, <1>6 DEF AnswerInv, Rodata

LEMMA AnswerSearchPreserves == ASSUME AnswerInv, Answer!Search, file' = file PROVE AnswerInv'
<1>1. PICK section, o, n, c, b, from, m :
        /\ section = file.sections[answerI] /\ o = section.offset /\ n = section.size
        /\ c = answerContent /\ b = buff /\ from = answerJ /\ m = answerI
  OBVIOUS
<1>2. /\ m \in 1 .. Len(file.sections)
      /\ o \in Nat /\ n \in Nat /\ o + n <= Len(c) /\ Len(c) \in Nat
      /\ c \in Seq(STRING) /\ b = SubSeq(c, o + 1, o + n)
      /\ b \in Seq(STRING) /\ Len(b) = n
      /\ from \in 0 .. n /\ from < n
      /\ Answer!Section = section
  BY <1>1, SearchedSection DEF Answer!Search
<1>3. /\ answerJ' = from + 1 /\ UNCHANGED <<answerPc, answerI>> /\ answerPc = "search"
      /\ Len(Old) \in Nat
  BY <1>1, StringsAssumption DEF Answer!Search
<1>4. ASSUME ~Promise!OccursAt(b, from), Promise!InSection(o + from, section)
      PROVE  ~Promise!OccursAt(c, o + from)
  <2>1. from + Len(Old) <= n /\ from \in Nat
    <3>1. PICK len : len = Len(Old) /\ len \in Nat
      BY <1>3
    <3>2. o + from + len <= o + n
      BY <1>1, <1>4, <3>1 DEF Promise!InSection
    <3>3. from + len <= n
      BY <1>2, <3>1, <3>2
    <3> QED BY <1>2, <3>1, <3>3
  <2> QED BY <1>2, <1>4, <2>1, OccursInBuffer
(* What has been cleared stays so, and the place searched is cleared.      *)
<1> DEFINE Safe(d) ==
             /\ d \in Seq(STRING) /\ Len(d) = Len(c)
             /\ \A x \in Nat : ~Promise!OccursAt(c, x) => ~Promise!OccursAt(d, x)
             /\ Promise!InSection(o + from, section) => ~Promise!OccursAt(d, o + from)
<1>5. Safe(answerContent') /\ buff' = SubSeq(answerContent', o + 1, o + n)
  <2>1. CASE UNCHANGED <<answerContent, buff>> /\ ~Promise!OccursAt(buff, answerJ)
    BY <1>1, <1>2, <1>4, <2>1
  <2>2. ASSUME NEW at \in Nat,
               Promise!OccursAt(b, at),
               at = from \/ ~Promise!OccursAt(b, from),
               buff' = Promise!Replaced(b, at),
               answerContent' = Answer!WrittenBack(Promise!Replaced(b, at))
        PROVE  Safe(answerContent') /\ buff' = SubSeq(answerContent', o + 1, o + n)
    <3>1. PICK w : w = answerContent'
      OBVIOUS
    <3>2. w = WrittenInto(c, o, Promise!Replaced(b, at))
      BY <1>1, <1>2, <2>2, <3>1 DEF Answer!WrittenBack, WrittenInto
    <3>3. /\ Promise!OccursAt(c, o + at)
          /\ w = Promise!Replaced(c, o + at)
          /\ SubSeq(w, o + 1, o + n) = Promise!Replaced(b, at)
      <4>1. ReplacesInFile(c, o, n, b, at)
        BY <1>2, <2>2, WrittenBackReplaces
      <4> QED BY <3>2, <4>1 DEF ReplacesInFile
    <3>4. PICK p : p = o + at /\ p \in Nat
      <4>1. o + at \in Nat
        BY <1>2
      <4> QED BY <4>1
    <3>5. w \in Seq(STRING) /\ Len(w) = Len(c)
      BY <1>2, <3>3, <3>4, ReplacedType
    <3>6. \A x \in Nat : x = p \/ ~Promise!OccursAt(c, x) => ~Promise!OccursAt(w, x)
      BY <1>2, <3>3, <3>4, ReplacedClears
    <3>7. PICK q : q = o + from /\ q \in Nat
      <4>1. o + from \in Nat
        BY <1>2
      <4> QED BY <4>1
    <3>8. Promise!InSection(q, section) => q = p \/ ~Promise!OccursAt(c, q)
      BY <1>4, <2>2, <3>4, <3>7
    <3> QED BY <2>2, <3>1, <3>3, <3>5, <3>6, <3>7, <3>8
  <2> QED BY <1>1, <2>1, <2>2, SearchFinds
<1>6. Answer!TypeOK'
  <2>1. PICK w : w = answerContent'
    OBVIOUS
  <2>2. w \in Seq(STRING) /\ Len(w) = Len(c) /\ buff' = SubSeq(w, o + 1, o + n)
    BY <1>5, <2>1
  <2>3. buff' \in Seq(STRING) /\ Len(buff') = n
    BY <1>2, <2>2, SectionBytes
  <2>4. from + 1 \in 0 .. n
    BY <1>2
  <2> QED BY <1>1, <1>2, <1>3, <2>1, <2>2, <2>3, <2>4 DEF AnswerInv, Answer!TypeOK, Answer!Section
<1>7. ASSUME NEW s \in 1 .. m - 1, Rodata(s) PROVE ClearedTo(s, file.sections[s].size)'
  <2>1. ClearedTo(s, file.sections[s].size)
    BY <1>1, <1>7 DEF AnswerInv
  <2> QED BY <1>1, <1>5, <2>1 DEF ClearedTo
<1>8. ClearedTo(answerI, answerJ)'
  <2>1. PICK w : w = answerContent'
    OBVIOUS
  <2>2. ASSUME NEW at \in Nat, Promise!InSection(at, section), at < o + (from + 1)
        PROVE  ~Promise!OccursAt(w, at)
    <3>1. CASE at = o + from
      BY <1>5, <2>1, <2>2, <3>1
    <3>2. CASE at # o + from
      <4>1. at < o + from
        BY <1>2, <2>2, <3>2
      <4>2. ~Promise!OccursAt(c, at)
        BY <1>1, <1>3, <2>2, <4>1 DEF AnswerInv, ClearedTo
      <4> QED BY <1>5, <2>1, <4>2
    <3> QED BY <3>1, <3>2
  <2> QED BY <1>1, <1>3, <2>1, <2>2 DEF ClearedTo
<1> QED BY <1>1, <1>3, <1>6, <1>7, <1>8 DEF AnswerInv, Rodata

(* hw2 leaves the model answer's copy alone, and neither of them changes   *)
(* what the file was.                                                      *)
LEMMA FileStays == BothNext \/ UNCHANGED <<vars, answerVars>> => file' = file
BY DEF BothNext, Next, Open, Lookup, LookupDone, Scan, ScanDone, vars

LEMMA AnswerStepInv == ASSUME AnswerInv, [BothNext]_<<vars, answerVars>> PROVE AnswerInv'
<1>1. file' = file
  BY FileStays
<1>2. CASE UNCHANGED answerVars
  BY <1>1, <1>2 DEF answerVars, AnswerInv, Answer!TypeOK, Answer!Section, ClearedTo, Rodata
<1>3. CASE Answer!Next
  BY <1>1, <1>3, AnswerOpenPreserves, AnswerSkipPreserves, AnswerLoadPreserves,
     AnswerSearchPreserves, AnswerSearchDonePreserves DEF Answer!Next
<1> QED BY <1>2, <1>3 DEF BothNext

(* Every reachable state of the model answer meets its invariant.          *)
THEOREM AnswerInvCorrect == BothSpec => []AnswerInv
<1>1. BothInit => AnswerInv
  BY AnswerInitInv DEF BothInit
<1> QED BY <1>1, AnswerStepInv, PTL DEF BothSpec

(* AnswerNoneLeft: the model answer's buffer and the file agree on the     *)
(* section it searches, and when change_rodata has gone through them all   *)
(* no occurrence is left in any .rodata section, whatever overlaps.        *)
THEOREM AnswerNoneLeftCorrect == BothSpec => []AnswerNoneLeft
<1>1. AnswerInv => AnswerNoneLeft
  <2> SUFFICES ASSUME AnswerInv, answerPc = "done",
                      NEW s \in DOMAIN file.sections, NEW at \in 0 .. Len(answerContent),
                      Rodata(s), Promise!InSection(at, file.sections[s])
               PROVE  ~Promise!OccursAt(answerContent, at)
    BY AnswerPromiseIs DEF AnswerInv, AnswerNoneLeft, Answer!NoneLeft, Rodata
  <2>1. /\ s \in 1 .. Len(file.sections) /\ Len(file.sections) \in Nat
        /\ file.sections[s].offset \in Nat /\ file.sections[s].size \in Nat
    BY FileType, SMTT(30) DEF AnswerInv
  <2>2. ClearedTo(s, file.sections[s].size)
    BY <2>1 DEF AnswerInv
  <2>3. at \in Nat /\ at < file.sections[s].offset + file.sections[s].size
    <3>1. Len(Old) \in Nat /\ Len(Old) > 0
      BY StringsAssumption
    <3>2. at \in Nat /\ at + Len(Old) <= file.sections[s].offset + file.sections[s].size
      BY DEF Promise!InSection
    <3> QED BY <2>1, <3>1, <3>2
  <2> QED BY <2>2, <2>3 DEF ClearedTo
<1> QED BY <1>1, AnswerInvCorrect, PTL

(* AnswerImplementsStringEditor: a turn of the model answer's loop, which  *)
(* writes a whole section back, replaces at most one occurrence, and that  *)
(* in a .rodata section.                                                   *)
THEOREM AnswerRefinesStringEditor == BothSpec => AnswerImplementsStringEditor
<1> DEFINE promised == <<file.header = "elf", file.sections, answerContent>>
<1>1. ASSUME AnswerInv, [BothNext]_<<vars, answerVars>>
      PROVE  [Answer!Promise!Next]_promised
  <2>1. file' = file
    BY <1>1, FileStays
  <2>2. CASE UNCHANGED answerContent
    BY <2>1, <2>2
  <2>3. CASE answerContent' # answerContent
    <3>1. Answer!Search
      BY <1>1, <2>3 DEF BothNext, answerVars, Answer!Next, Answer!Open, Answer!Skip, Answer!Load, Answer!SearchDone
    <3>2. PICK section, o, n, c :
            section = file.sections[answerI] /\ o = section.offset /\ n = section.size /\ c = answerContent
      OBVIOUS
    <3>3. /\ answerI \in 1 .. Len(file.sections)
          /\ o \in Nat /\ n \in Nat /\ o + n <= Len(c) /\ Len(c) \in Nat
          /\ c \in Seq(STRING) /\ buff = SubSeq(c, o + 1, o + n)
          /\ Answer!Section = section
      BY <1>1, <3>1, <3>2, SearchedSection DEF Answer!Search
    <3>4. PICK at \in Nat :
            /\ Promise!OccursAt(buff, at)
            /\ answerContent' = Answer!WrittenBack(Promise!Replaced(buff, at))
      BY <1>1, <2>3, <3>1, SearchFinds
    <3>5. PICK w : w = answerContent'
      OBVIOUS
    <3>6. w = WrittenInto(c, o, Promise!Replaced(buff, at))
      BY <3>2, <3>3, <3>4, <3>5 DEF Answer!WrittenBack, WrittenInto
    <3>7. /\ Promise!OccursAt(c, o + at)
          /\ at + Len(Old) <= n
          /\ w = Promise!Replaced(c, o + at)
      <4>1. ReplacesInFile(c, o, n, buff, at)
        BY <3>3, <3>4, WrittenBackReplaces
      <4> QED BY <3>6, <4>1 DEF ReplacesInFile
    <3>8. o + at \in 0 .. Len(c) /\ Promise!InSection(o + at, section)
      <4>1. PICK len : len = Len(Old) /\ len \in Nat
        <5>1. Len(Old) \in Nat
          BY StringsAssumption
        <5> QED BY <5>1
      <4>2. o + at \in 0 .. Len(c) /\ o <= o + at /\ o + at + len <= o + n
        BY <3>3, <3>7, <4>1
      <4> QED BY <3>2, <4>1, <4>2 DEF Promise!InSection
    <3>9. file.header = "elf" /\ Rodata(answerI) /\ answerI \in DOMAIN file.sections
      <4>1. file.sections \in Seq([name : STRING, offset : Nat, size : Nat])
        BY <1>1, FileType DEF AnswerInv
      <4> QED BY <1>1, <3>1, <3>3, <4>1 DEF AnswerInv, Answer!Search
    <3>10. Answer!Promise!Replace(answerI, o + at)
      BY <2>1, <3>2, <3>5, <3>7, <3>8, <3>9, AnswerPromiseIs DEF Answer!Promise!Replace, Rodata
    <3> QED BY <3>2, <3>8, <3>9, <3>10 DEF Answer!Promise!Next
  <2> QED BY <2>2, <2>3
<1> QED
  BY <1>1, AnswerInvCorrect, PTL
  DEF BothSpec, AnswerImplementsStringEditor, Answer!ImplementsStringEditor, Answer!Promise!Spec
=============================================================================
