---------------------------- MODULE StringEditor ----------------------------
(***************************************************************************)
(* What the second assignment promises: occurrences of one string in the   *)
(* .rodata sections of an ELF file become another string of that length,   *)
(* and nothing else in the file changes.                                   *)
(***************************************************************************)
EXTENDS Integers, Sequences

CONSTANTS
  Old, New    \* the two strings: "software" and "hackers!" in the code

VARIABLES
  elf,        \* is the file an ELF file?
  sections,   \* its sections, as records [name, offset, size]
  content     \* its bytes, the first of them at offset 0

(* The sections that count: the name begins with ".rodata".                *)
IsRodata(s) == s.name \in {".rodata", ".rodata.str"}

OccursAt(bytes, at) ==
  \A k \in 1 .. Len(Old) : at + k \in DOMAIN bytes /\ bytes[at + k] = Old[k]

InSection(at, s) == s.offset <= at /\ at + Len(Old) <= s.offset + s.size

Replaced(bytes, at) ==
  [k \in DOMAIN bytes |-> IF k - at \in DOMAIN New THEN New[k - at] ELSE bytes[k]]

(* One occurrence is replaced.                                             *)
Replace(i, at) ==
  /\ elf
  /\ IsRodata(sections[i])
  /\ InSection(at, sections[i])
  /\ OccursAt(content, at)
  /\ content' = Replaced(content, at)
  /\ UNCHANGED <<elf, sections>>

Next == \E i \in DOMAIN sections : \E at \in 0 .. Len(content) : Replace(i, at)

Spec == [][Next]_<<elf, sections, content>>
=============================================================================
