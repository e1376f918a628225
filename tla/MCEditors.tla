------------------------------ MODULE MCEditors -----------------------------
(* hw2 and the model answer, one after the other, on copies of one file:   *)
(* two sections next to each other, listed in any order.                   *)
EXTENDS Hw2Editor, SequencesExt

CONSTANT MaxLen

VARIABLES answerContent, answerPc, answerI, buff, answerJ

MCOld == <<"s", "w">>
MCNew == <<"h", "!">>

MCPrograms ==
  LET Section(x, from, to) == [name |-> x, offset |-> from, size |-> to - from]
      Tables(n) == {<<Section(x, 0, cut), Section(y, cut, n)>> :
                      x \in {".rodata", ".text"}, y \in {".rodata.str", ".text"}, cut \in 0 .. n}
      tables == [n \in 0 .. MaxLen |-> Tables(n) \cup {Reverse(t) : t \in Tables(n)}]
      Files(h, n) == {[header |-> h, content |-> bytes, sections |-> t] :
                        bytes \in [1 .. n -> {"s", "w", "nul"}], t \in tables[n]}
  IN  UNION {Files("elf", n) : n \in 0 .. MaxLen} \cup Files("other", 2) \cup Files("short", 0)

Answer == INSTANCE Answer2Editor WITH
            content <- answerContent, pc <- answerPc, i <- answerI, j <- answerJ

answerVars == <<answerContent, answerPc, answerI, buff, answerJ>>

BothInit == Init /\ Answer!Start

BothNext ==
  \/ Next /\ UNCHANGED answerVars
  \/ pc \in {"done", "returned", "aborted"} /\ Answer!Next /\ UNCHANGED vars

BothSpec == BothInit /\ [][BothNext]_<<vars, answerVars>> /\ WF_<<vars, answerVars>>(BothNext)

(* The model answer replaces one occurrence at a time, although it writes  *)
(* a whole section back.                                                   *)
AnswerImplementsStringEditor == Answer!ImplementsStringEditor

(* Its buffer and the file agree on the section being searched, and in the *)
(* end no occurrence is left in a .rodata section.                         *)
AnswerNoneLeft == Answer!TypeOK /\ Answer!NoneLeft

(* Both programs come to an end.                                           *)
Terminates ==
  <>(/\ pc \in {"done", "returned", "aborted"}
     /\ answerPc \in {"done", "returned", "aborted"})
=============================================================================
