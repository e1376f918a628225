----------------------------- MODULE Answer4Heap ----------------------------
(***************************************************************************)
(* Correct_Answer/Assignment4: the model answer to the same exercise as    *)
(* hw4.  Values lie one after the other in `mem'.  A table has an entry    *)
(* with name and size for each, a struct being one value; where a value    *)
(* lies is the sum of the sizes before it.  Freeing one closes the gap in  *)
(* the memory and in the table.                                            *)
(*                                                                         *)
(* An interactive program: what the user types is any choice.  A struct is *)
(* read into a buffer of its own first, so each command is one step; types *)
(* that are none, for a value or a member, are asked for again.  Names are *)
(* of at most 32 characters, the number of members is not negative, and    *)
(* malloc succeeds.                                                        *)
(***************************************************************************)
EXTENDS Integers, Sequences, SequencesExt, SeqSums

CONSTANTS
  BUFMAX,       \* size of the heap, and of the table: 256 in the code
  Name,         \* the names a user gives; 0 is the empty one, that of a blank entry
  Type,         \* the types he gives them, of the three there are
  MaxMembers    \* bound on the members of a struct that is not refused for them

Size == [char |-> 1, int |-> 4, double |-> 8]

VARIABLES
  mem,          \* the bytes of the heap
  cur_point,    \* the first byte not in use
  info_table,   \* names and sizes
  data_index,   \* the first entry not in use
  stored        \* history: the bytes of each entry's value as it was entered

vars == <<mem, cur_point, info_table, data_index, stored>>

Blank == [name |-> 0, size |-> 0]
Entry == 0 .. BUFMAX - 1

(* The bytes of a value: told apart by name, member and place.             *)
Value(n, member, size) == [i \in 1 .. size |-> 100 * n + 10 * member + i]

Zeros(size) == [i \in 1 .. size |-> 0]

Init ==
  /\ mem = Zeros(BUFMAX)
  /\ cur_point = 0
  /\ info_table = [i \in Entry |-> Blank]
  /\ data_index = 0
  /\ stored = <<>>

SpaceCheck(size) == cur_point + size <= BUFMAX

(* Blank entries have the empty name, hence the look at the size.          *)
Matches(i, n) == info_table[i].name = n /\ info_table[i].size # 0

(* search_name, -1 if there is none.                                       *)
SearchName(n) ==
  IF \E i \in Entry : Matches(i, n)
  THEN CHOOSE i \in Entry : Matches(i, n) /\ \A k \in 0 .. (i - 1) : ~Matches(k, n)
  ELSE -1

CalculatePosition(index) ==
  PrefixSums([i \in 1 .. BUFMAX |-> info_table[i - 1].size])[index]

Put(m, at, bytes) ==
  [i \in DOMAIN m |-> IF i \in (at + 1) .. (at + Len(bytes)) THEN bytes[i - at] ELSE m[i]]

(* A value goes behind the others.  One entry too many would be written    *)
(* beyond the table: the users of this model stop there.                   *)
Insert(n, bytes) ==
  /\ data_index < BUFMAX
  /\ mem' = Put(mem, cur_point, bytes)
  /\ cur_point' = cur_point + Len(bytes)
  /\ info_table' = [info_table EXCEPT ![data_index] = [name |-> n, size |-> Len(bytes)]]
  /\ data_index' = data_index + 1
  /\ stored' = Append(stored, bytes)

(* Refusals print a message and change nothing.                            *)
Duplicate(n) == SearchName(n) # -1 /\ UNCHANGED vars

(* Fault: a name in use is given again.                                    *)
AllocateValue_AnyName(n, t) ==
  IF SpaceCheck(Size[t]) THEN Insert(n, Value(n, 0, Size[t])) ELSE UNCHANGED vars

(* allocate_mem.                                                           *)
AllocateValue(n, t) ==
  /\ SearchName(n) = -1
  /\ IF SpaceCheck(Size[t]) THEN Insert(n, Value(n, 0, Size[t])) ELSE UNCHANGED vars

TooManyMembers(n, howMany) == SearchName(n) = -1 /\ howMany > BUFMAX /\ UNCHANGED vars

(* struct_allocate_mem fills the buffer of the struct, member after member; *)
(* only then is there known to be room for it or not.                      *)
AllocateStruct(n, types) ==
  /\ SearchName(n) = -1
  /\ LET bytes == FlattenSeq([k \in DOMAIN types |-> Value(n, k, Size[types[k]])])
     IN  IF SpaceCheck(Len(bytes)) THEN Insert(n, bytes) ELSE UNCHANGED vars

NoSuchName(n) == SearchName(n) = -1 /\ UNCHANGED vars

(* Fault: only the entry is blanked, those behind it do not move up.       *)
DeallocateTable_NoShift(delete_index) == [info_table EXCEPT ![delete_index] = Blank]

(* The entries behind the deleted one move up, the last becomes blank.     *)
DeallocateTable(delete_index) ==
  [i \in Entry |->
     CASE i = data_index - 1 -> Blank
       [] i \in delete_index .. (data_index - 2) -> info_table[i + 1]
       [] OTHER -> info_table[i]]

(* What lies behind the value, up to the end of the last one, moves down;  *)
(* as many bytes as were freed become zero behind it.                      *)
DeallocateMem(delete_index) ==
  LET at == CalculatePosition(delete_index)
      size == info_table[delete_index].size
      end == CalculatePosition(data_index - 1) + info_table[data_index - 1].size
  IN  /\ mem' = Put(Put(mem, at, SubSeq(mem, at + size + 1, end)), end - size, Zeros(size))
      /\ cur_point' = end - size

Deallocate(n) ==
  /\ SearchName(n) # -1
  /\ DeallocateMem(SearchName(n))
  /\ info_table' = DeallocateTable(SearchName(n))
  /\ data_index' = data_index - 1
  /\ stored' = RemoveAt(stored, SearchName(n) + 1)

Next ==
  \E n \in Name :
    \/ Duplicate(n)
    \/ \E t \in Type : AllocateValue(n, t)
    \/ \E types \in BoundedSeq(Type, MaxMembers) : AllocateStruct(n, types)
    \/ TooManyMembers(n, BUFMAX + 1)
    \/ NoSuchName(n)
    \/ Deallocate(n)

Spec == Init /\ [][Next]_vars
-----------------------------------------------------------------------------
(***************************************************************************)
(* Properties                                                              *)
(***************************************************************************)

(* The type invariant.                                                     *)
TypeOK ==
  /\ mem \in [1 .. BUFMAX -> Nat]
  /\ cur_point \in 0 .. BUFMAX
  /\ info_table \in [Entry -> [name : Name \cup {0}, size : 0 .. BUFMAX]]
  /\ data_index \in 0 .. BUFMAX
  /\ Len(stored) = data_index

(* The table, cur_point and the memory agree on what is in use: the sizes  *)
(* add up to cur_point, unused entries are blank, unused bytes zero.       *)
TableAgrees ==
  /\ cur_point = CalculatePosition(data_index)
  /\ \A i \in Entry : i >= data_index => info_table[i] = Blank
  /\ \A i \in (cur_point + 1) .. BUFMAX : mem[i] = 0

(* Every value is what was entered, wherever removals have moved it to.    *)
ValuesIntact ==
  \A i \in 0 .. data_index - 1 :
    stored[i + 1] = SubSeq(mem, CalculatePosition(i) + 1, CalculatePosition(i + 1))

(* The table is full before the heap only if structs of no members, which  *)
(* can never be freed, have taken entries (assignment4.c:26: at most 256   *)
(* data can come in).                                                      *)
TableLasts ==
  data_index = BUFMAX => cur_point = BUFMAX \/ \E i \in DOMAIN stored : stored[i] = <<>>

(* A name stands for at most one value; structs of no members for none.    *)
Blocks == INSTANCE NamedBlocks WITH
            BYTE_SIZE <- BUFMAX,
            blocks <- Select([i \in 1 .. data_index |-> [name |-> info_table[i - 1].name,
                                                         data |-> stored[i]]],
                             [i \in 1 .. data_index |-> stored[i] # <<>>])

ImplementsNamedBlocks == Blocks!Spec
=============================================================================
