------------------------------- MODULE Hw4Heap ------------------------------
(***************************************************************************)
(* hw4/20170767.c: a heap of BYTE_SIZE bytes for chars, ints, doubles and  *)
(* structs of them, each under a name.  Values lie one after the other;    *)
(* freeing one closes the gap.  A doubly linked list has a node for each   *)
(* value, a struct one for each member, all with the struct's name.        *)
(*                                                                         *)
(* An interactive program: what the user types is any choice.  The members *)
(* of a struct come one by one, and names are freed node by node, so each  *)
(* is a step.  Values typed are of the type announced.  The list is a      *)
(* sequence of nodes; malloc succeeds.                                     *)
(***************************************************************************)
EXTENDS Integers, Sequences, SequencesExt, SeqSums

CONSTANTS
  BYTE_SIZE,    \* size of the heap, 256 in the code
  Name,         \* the names a user gives
  Type,         \* the types he gives them, of the three there are
  MaxMembers    \* bound on the members of a struct

ASSUME ByteSizeAssumption == BYTE_SIZE \in Nat
ASSUME NameAssumption == Name \subseteq Nat
ASSUME TypeAssumption == Type \subseteq {"char", "int", "double"}
ASSUME MembersAssumption == MaxMembers \in Nat

Size == [char |-> 1, int |-> 4, double |-> 8]

VARIABLES
  nodes,        \* the list from head to tail: name, address, size
  total_size,
  now,          \* the first byte not in use, an offset from base
  memory,       \* the bytes from base on, and the one beyond the heap's end
  job,          \* the struct being read or the name being removed
  stored        \* history: the bytes of each node's value as it was entered

heapVars == <<nodes, total_size, now, memory, stored>>
vars == <<heapVars, job>>

Idle == [op |-> "none"]

(* The bytes of a value: told apart by name, member and place.             *)
Value(n, member, size) == [i \in 1 .. size |-> 100 * n + 10 * member + i]

Init ==
  /\ nodes = <<>>
  /\ total_size = 0
  /\ now = 0
  /\ memory = [i \in 1 .. BYTE_SIZE + 1 |-> 0]
  /\ job = Idle
  /\ stored = <<>>

Found(n) == \E i \in DOMAIN nodes : nodes[i].name = n

(* findNode: the first node of that name.                                  *)
FindNode(n) == CHOOSE i \in DOMAIN nodes :
                 nodes[i].name = n /\ \A k \in 1 .. (i - 1) : nodes[k].name # n

IsItValid(size) == total_size < BYTE_SIZE /\ total_size + size < BYTE_SIZE

Put(m, at, bytes) ==
  [i \in DOMAIN m |-> IF i \in (at + 1) .. (at + Len(bytes)) THEN bytes[i - at] ELSE m[i]]

(* scanf stores the value at heap->now and listAdd makes a node for it.    *)
Insert(n, member, size) ==
  /\ memory' = Put(memory, now, Value(n, member, size))
  /\ nodes' = Append(nodes, [name |-> n, address |-> now, size |-> size])
  /\ total_size' = total_size + size
  /\ now' = now + size
  /\ stored' = Append(stored, Value(n, member, size))

(***************************************************************************)
(* allocateData                                                            *)
(***************************************************************************)

(* Refusals print a message and change nothing: the name is in use, the    *)
(* type is none of the four.                                               *)
AlreadyExists(n) == job = Idle /\ Found(n) /\ UNCHANGED vars

WrongType == job = Idle /\ UNCHANGED vars

AllocateValue(n, t) ==
  /\ job = Idle
  /\ ~Found(n)
  /\ IF IsItValid(Size[t]) THEN Insert(n, 0, Size[t]) ELSE UNCHANGED heapVars
  /\ UNCHANGED job

AllocateStruct(n, howMany) ==
  /\ job = Idle
  /\ ~Found(n)
  /\ job' = [op |-> "struct", name |-> n, left |-> howMany]
  /\ UNCHANGED heapVars

StartRemoving(n) == job' = [op |-> "remove", name |-> n]

(* The next member.  One that does not fit is stored all the same, at now  *)
(* but without a node, and the members before it are removed again.        *)
Member(t) ==
  /\ job.op = "struct"
  /\ job.left > 0
  /\ IF IsItValid(Size[t])
     THEN /\ Insert(job.name, job.left, Size[t])
          /\ job' = [job EXCEPT !.left = @ - 1]
     ELSE /\ memory' = Put(memory, now, Value(job.name, job.left, Size[t]))
          /\ StartRemoving(job.name)
          /\ UNCHANGED <<nodes, total_size, now, stored>>

(* The next member is of a type that is none.                              *)
WrongMember ==
  /\ job.op = "struct"
  /\ job.left > 0
  /\ StartRemoving(job.name)
  /\ UNCHANGED heapVars

StructDone ==
  /\ job.op = "struct"
  /\ job.left = 0
  /\ job' = Idle
  /\ UNCHANGED heapVars

(***************************************************************************)
(* deallocateData                                                          *)
(***************************************************************************)
Deallocate(n) ==
  /\ job = Idle
  /\ IF nodes = <<>> THEN UNCHANGED job ELSE StartRemoving(n)
  /\ UNCHANGED heapVars

SizeBeforeMe(index) == PrefixSums([i \in DOMAIN nodes |-> nodes[i].size])[index - 1]

(* What lies behind a node's value moves down to where the value began,    *)
(* zeros following up to the heap's end; a last value is zeroed.           *)
Compacted(index) ==
  LET nd == nodes[index]
      before == SizeBeforeMe(index)
      next == nodes[index + 1]
      tempStr == [i \in 1 .. BYTE_SIZE |->
                    IF i <= BYTE_SIZE - (before + nd.size) THEN memory[next.address + i] ELSE 0]
  IN  IF index = Len(nodes)
      THEN Put(memory, nd.address, [i \in 1 .. nd.size |-> 0])
      ELSE Put(memory, nd.address, SubSeq(tempStr, 1, BYTE_SIZE - before))

(* Fault: the node behind the removed one is left out.                     *)
Moved_NextNot(index) ==
  [i \in DOMAIN nodes |->
     IF i > index + 1
     THEN [nodes[i] EXCEPT !.address = @ - nodes[index].size]
     ELSE nodes[i]]

(* modifyAddress: the nodes from the removed one on.                       *)
Moved(index) ==
  [i \in DOMAIN nodes |->
     IF i >= index /\ index # Len(nodes)
     THEN [nodes[i] EXCEPT !.address = @ - nodes[index].size]
     ELSE nodes[i]]

(* listRemove.  It reads the size of the node it has just freed (line 339): *)
(* free() writes to the first bytes of a node only, those of its name.     *)
Unlinked(index) == RemoveAt(Moved(index), index)

(* Fault: the bytes are moved, the node stays in the list.                 *)
RemoveNode_KeepsNode ==
  /\ job.op = "remove"
  /\ Found(job.name)
  /\ memory' = Compacted(FindNode(job.name))
  /\ UNCHANGED <<nodes, total_size, now, stored, job>>

(* One turn of the loop of removeAsName.                                   *)
RemoveNode ==
  /\ job.op = "remove"
  /\ Found(job.name)
  /\ LET index == FindNode(job.name) IN
       /\ memory' = Compacted(index)
       /\ nodes' = Unlinked(index)
       /\ now' = now - nodes[index].size
       /\ total_size' = total_size - nodes[index].size
       /\ stored' = RemoveAt(stored, index)
  /\ UNCHANGED job

RemoveDone ==
  /\ job.op = "remove"
  /\ ~Found(job.name)
  /\ job' = Idle
  /\ UNCHANGED heapVars

Next ==
  \/ \E n \in Name :
       \/ AlreadyExists(n)
       \/ \E t \in Type : AllocateValue(n, t)
       \/ \E k \in 0 .. MaxMembers : AllocateStruct(n, k)
       \/ Deallocate(n)
  \/ \E t \in Type : Member(t)
  \/ WrongType \/ WrongMember \/ StructDone \/ RemoveNode \/ RemoveDone

Spec == Init /\ [][Next]_vars

(* The loop of removeAsName goes on by itself.                             *)
FairSpec == Spec /\ WF_vars(RemoveNode \/ RemoveDone)
-----------------------------------------------------------------------------
(***************************************************************************)
(* Properties                                                              *)
(***************************************************************************)

(* The type invariant.                                                     *)
TypeOK ==
  /\ nodes \in Seq([name : Name, address : 0 .. BYTE_SIZE, size : {1, 4, 8}])
  /\ total_size \in 0 .. BYTE_SIZE
  /\ now \in 0 .. BYTE_SIZE
  /\ memory \in [1 .. BYTE_SIZE + 1 -> Nat]
  /\ job.op \in {"none", "struct", "remove"}
  /\ Len(stored) = Len(nodes)

(* The values lie one after the other from the start of the heap, and the  *)
(* three accounts of what is used agree: the list, total_size, now.        *)
Contiguous ==
  /\ \A i \in DOMAIN nodes : nodes[i].address = SizeBeforeMe(i)
  /\ total_size = SizeBeforeMe(Len(nodes) + 1)
  /\ now = total_size

(* Every value is what was entered, wherever removals have moved it to and *)
(* whatever refused members have left in the memory behind.                *)
ValuesIntact ==
  \A i \in DOMAIN nodes :
    stored[i] = SubSeq(memory, nodes[i].address + 1, nodes[i].address + nodes[i].size)

(* The removal of a name ends.                                             *)
RemovalEnds == job.op = "remove" ~> job.op = "none"

(* A struct counts once all its members are there, a name is gone once its *)
(* removal begins; a failed allocation changes nothing.                    *)
Blocks == INSTANCE NamedBlocks WITH
            blocks <- Select([i \in DOMAIN nodes |-> [name |-> nodes[i].name, data |-> stored[i]]],
                             [i \in DOMAIN nodes |-> job = Idle \/ nodes[i].name # job.name])

ImplementsNamedBlocks == Blocks!Spec
=============================================================================
