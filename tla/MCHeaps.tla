------------------------------- MODULE MCHeaps ------------------------------
(* The heaps of hw4 and of the model answer, each with users of its own.   *)
(* They have nothing in common: one stays as it began while the other is   *)
(* used.                                                                   *)
EXTENDS Hw4Heap

CONSTANTS BUFMAX, AnswerName

ASSUME AnswerAssumption == BUFMAX \in Nat /\ AnswerName \subseteq Nat /\ MaxMembers \in 0 .. BUFMAX

VARIABLES mem, cur_point, info_table, data_index, answerStored

Answer == INSTANCE Answer4Heap WITH Name <- AnswerName, stored <- answerStored

answerVars == <<mem, cur_point, info_table, data_index, answerStored>>

BothInit == Init /\ Answer!Init

BothNext ==
  \/ Answer!Init /\ Next /\ UNCHANGED answerVars
  \/ Init /\ Answer!Next /\ UNCHANGED vars

BothSpec == BothInit /\ [][BothNext]_<<vars, answerVars>> /\ WF_vars(RemoveNode \/ RemoveDone)

(* In both heaps all accounts of what is used are within bounds and agree, *)
(* whatever was allocated, refused and freed: node list, total_size and    *)
(* now; table, data_index, cur_point and the memory.                       *)
AccountsAgree ==
  /\ TypeOK /\ Contiguous
  /\ Answer!TypeOK /\ Answer!TableAgrees /\ Answer!TableLasts

(* Both heaps keep every value as it was entered.                          *)
ValuesKept == ValuesIntact /\ Answer!ValuesIntact

(* Names come and go as a whole in both heaps.                             *)
BothImplementNamedBlocks == ImplementsNamedBlocks /\ Answer!ImplementsNamedBlocks
=============================================================================
