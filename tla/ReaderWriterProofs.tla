-------------------------- MODULE ReaderWriterProofs --------------------------
(***************************************************************************)
(* Theorems about hw6/20170767.c, for any number of readers and any file.  *)
(* The program is one of those CoThreadsProofs is about: its threads call  *)
(* P only when the semaphore is free.  What is known of those programs     *)
(* gives the order of the threads, and the order gives what is printed.    *)
(***************************************************************************)
EXTENDS ReaderWriter, SequenceTheorems, FiniteSetTheorems, TLAPS

(* A sequence without its first element.                                   *)
LEMMA TailIs ==
  ASSUME NEW S, NEW s \in Seq(S), Len(s) # 0
  PROVE  /\ Tail(s) \in Seq(S) /\ Len(s) - 1 \in Nat /\ Len(Tail(s)) = Len(s) - 1
         /\ \A i \in 1 .. Len(s) - 1 : Tail(s)[i] = s[i + 1]
OBVIOUS

Client == INSTANCE CoThreadsProofs WITH
            InitialValue <- 1, MaxCounter <- 1, MinThreads <- 2, Contended <- FALSE,
            created <- 1 .. (g_tid - 1), inP <- {}, value <- counter

Ready == Content(mem, "thread_queue")

(* The thread that comes i turns after t.                                  *)
Later(t, i) == IF t + i <= Writer THEN t + i ELSE t + i - Writer

(* The threads are in turn: their numbers go round.                        *)
InTurn ==
  IF curr = NULL
  THEN Len(Ready) = g_tid - 1 /\ \A i \in 1 .. g_tid - 1 : Ready[i] = i
  ELSE /\ g_tid = Writer + 1
       /\ Len(Ready) = NUM_OF_READER
       /\ \A i \in 1 .. NUM_OF_READER : Ready[i] = Later(curr, i)

(* The semaphore tells whether the current thread is between P and V; the  *)
(* others are not.                                                         *)
Inside == curr # NULL /\ pc[curr] # "P"

Guarded ==
  /\ g_tid \in 1 .. Writer + 1
  /\ pc \in [Thread -> {"P", "inside", "V"}]
  /\ \A t \in Thread : t # curr => pc[t] = "P"
  /\ counter = IF Inside THEN 0 ELSE 1

(* How many readers have had their turn since the writer last printed.     *)
Done ==
  IF curr = NULL THEN 0
  ELSE IF curr = Writer THEN (IF pc[curr] = "V" THEN 0 ELSE NUM_OF_READER)
  ELSE IF pc[curr] = "V" THEN curr ELSE curr - 1

(* What the buffer of reader r held when the writer last printed.          *)
Before(r) == IF Len(written) = 0 THEN 0 ELSE Len(written) - NUM_OF_READER + r

FileTypeOK ==
  /\ words \in 0 .. MaxWords /\ trailing \in BOOLEAN
  /\ taken \in 0 .. words /\ eof \in BOOLEAN
  /\ buffer \in [Reader -> 0 .. words]
  /\ isEOF \in BOOLEAN /\ exited \in BOOLEAN
  /\ written \in Seq(0 .. words)

(* Each of them took a word, but for one that met the end of the file.     *)
Progress ==
  /\ \/ taken = Len(written) + Done
     \/ eof /\ taken = Len(written) + Done - 1 /\ (trailing \/ words = 0)
  /\ eof => taken = words
  /\ ~eof /\ taken = words => trailing \/ words = 0

Buffers ==
  ~(eof /\ Done = 0) =>
  \A r \in Reader :
    buffer[r] = IF r < Done \/ (r = Done /\ taken = Len(written) + Done)
                THEN Len(written) + r ELSE Before(r)

InOrder(i) ==
  \/ written[i] = i
  \/ /\ i = words + 1 /\ i = Len(written) /\ (trailing \/ words = 0)
     /\ written[i] = IF i > NUM_OF_READER THEN i - NUM_OF_READER ELSE 0

Ending ==
  /\ exited => taken = words /\ words - Len(written) < NUM_OF_READER
  /\ ~exited => ~isEOF

ProgramOK ==
  FileTypeOK /\ Progress /\ Buffers /\ (\A i \in 1 .. Len(written) : InOrder(i)) /\ Ending

IInv == Client!IInv /\ InTurn /\ Guarded /\ ProgramOK
-----------------------------------------------------------------------------
(***************************************************************************)
(* The program as a client of the library                                  *)
(***************************************************************************)

(* What is assumed of those programs holds of this one.                    *)
LEMMA ClientAssumptions ==
  Client!ThreadAssumption /\ Client!ValueAssumption /\ Client!ContendedAssumption
<1>1. Client!IsFiniteSet(Thread) <=> IsFiniteSet(Thread)
  BY DEF Client!IsFiniteSet, IsFiniteSet
<1> QED BY <1>1, ThreadAssumption DEF Client!ThreadAssumption, Client!ValueAssumption, Client!ContendedAssumption

(* Both name the same library.                                             *)
LEMMA SameQueues ==
  ASSUME NEW m, NEW q
  PROVE  /\ Client!Walk(m, q) = Walk(m, q)
         /\ Client!Content(m, q) = Content(m, q)
<1>1. Client!Cardinality(Thread) = Cardinality(Thread)
  BY DEF Client!Cardinality, Cardinality
<1>2. Client!Walk(m, q) = Walk(m, q)
  BY <1>1 DEF Client!Walk, Walk
<1> QED BY <1>2 DEF Client!Content, Content

LEMMA SameAddQueue ==
  ASSUME NEW m, NEW q, NEW t
  PROVE  Client!AddQueue(m, q, t) = AddQueue(m, q, t)
<1>1. Client!Walk(m, q) = Walk(m, q)
  BY SameQueues
<1>2. Client!Content(m, q) = Content(m, q)
  BY SameQueues
<1>3. Client!Rear(m, q) = Rear(m, q)
  BY <1>2 DEF Client!Rear, Rear
<1>4. Client!Ends(m, q) <=> Ends(m, q)
  BY <1>1 DEF Client!Ends, Ends
<1>5. Client!Fault(m, "endless") = Fault(m, "endless")
  BY DEF Client!Fault, Fault
<1> QED BY <1>3, <1>4, <1>5 DEF Client!AddQueue, AddQueue

LEMMA SameDelQueue ==
  ASSUME NEW m, NEW q
  PROVE  Client!DelQueue(m, q) = DelQueue(m, q)
BY DEF Client!DelQueue, DelQueue, Client!Fault, Fault

LEMMA SameYielding == ASSUME NEW m, NEW t PROVE Client!Yielding(m, t) <=> Yielding(m, t)
<1>1. Client!Requeued(m, t) = Requeued(m, t)
  BY SameAddQueue DEF Client!Requeued, Requeued
<1>2. Client!DelQueue(Requeued(m, t), "thread_queue") = DelQueue(Requeued(m, t), "thread_queue")
  BY SameDelQueue
<1> QED BY <1>1, <1>2 DEF Client!Yielding, Yielding

LEMMA ClientFacts ==
  ASSUME Client!IInv
  PROVE  /\ Ready \in Seq(Thread) /\ \A i \in 1 .. Len(Ready) : Ready[i] \in Thread
         /\ mem \in MemType /\ Healthy /\ mem.head["sem_q"] = NULL /\ curr \in TcbPointer
         /\ Client!Ready = Ready /\ Client!Healthy
<1>1. Client!Ready = Ready
  BY SameQueues DEF Client!Ready, Ready
<1>2. Ready \in Seq(Thread) /\ mem \in Client!MemType
  BY <1>1 DEF Client!IInv, Client!IsQueue
<1>3. mem \in MemType
  BY <1>2 DEF Client!MemType, MemType, Client!TcbPointer, TcbPointer, Client!Queue, Queue
<1>4. Healthy /\ mem.head["sem_q"] = NULL /\ curr \in TcbPointer /\ Client!Healthy
  BY DEF Client!IInv, Client!Healthy, Healthy, Client!TcbPointer, TcbPointer
<1>5. \A i \in 1 .. Len(Ready) : Ready[i] \in Thread
  BY <1>2, ElementOfSeq
<1> QED BY <1>1, <1>2, <1>3, <1>4, <1>5

LEMMA ReadyPrimed == Client!Ready' = Ready'
<1>1. PICK m : m = mem'
  OBVIOUS
<1>2. Client!Content(m, "thread_queue") = Content(m, "thread_queue")
  BY SameQueues
<1> QED BY <1>1, <1>2 DEF Client!Ready, Ready

LEMMA CreateStep ==
  ASSUME IInv, CreateThreads
  PROVE  g_tid \in Thread /\ Client!Create(g_tid) /\ Client!IInv' /\ Ready' = Append(Ready, g_tid)
<1>1. g_tid \in Thread /\ g_tid \in Nat /\ g_tid' = g_tid + 1 /\ curr = NULL /\ CreateThread(g_tid)
  BY ThreadIdAssumption, ReaderAssumption DEF CreateThreads, IInv, Guarded, Writer
<1>2. g_tid \notin 1 .. g_tid - 1 /\ 1 .. (g_tid' - 1) = (1 .. g_tid - 1) \cup {g_tid}
  <2>1. PICK g : g = g_tid /\ g \in Nat
    BY <1>1
  <2>2. g \notin 1 .. g - 1 /\ 1 .. (g + 1 - 1) = (1 .. g - 1) \cup {g}
    <3>1. g # 0
      BY <1>1, <2>1, ThreadIdAssumption, ReaderAssumption
    <3> QED BY <2>1, <3>1
  <2> QED BY <1>1, <2>1, <2>2
<1>3. Client!CreateThread(g_tid)
  BY <1>1, SameAddQueue DEF CreateThread, Client!CreateThread
<1>4. UNCHANGED <<{}, counter>>
  BY <1>1 DEF CreateThread
<1>5. Client!Create(g_tid)
  BY <1>1, <1>2, <1>3, <1>4 DEF Client!Create
<1>6. Client!IInv' /\ Client!Ready' = Append(Client!Ready, g_tid)
  BY <1>1, <1>5, ClientAssumptions, Client!CreateInv DEF IInv
<1> QED BY <1>1, <1>5, <1>6, ReadyPrimed, ClientFacts DEF IInv

LEMMA RunStep ==
  ASSUME IInv, RunThreads
  PROVE  /\ Client!Start /\ Client!IInv'
         /\ Ready # <<>> /\ curr' = Head(Ready) /\ Ready' = Tail(Ready)
<1>1. curr = NULL /\ g_tid = NUM_OF_READER + 2 /\ NUM_OF_READER \in Nat \ {0} /\ UNCHANGED g_tid /\ Run
  BY ThreadIdAssumption, ReaderAssumption DEF RunThreads, IInv, Guarded, Writer
<1>2. Client!Cardinality(1 .. (g_tid - 1)) >= 2
  <2>1. PICK g : g = g_tid - 1 /\ g \in Nat /\ g >= 2
    BY <1>1
  <2>2. 1 \in Int /\ g \in Int /\ g - 1 + 1 = g /\ ~(1 > g)
    BY <2>1
  <2>3. Cardinality(1 .. g) = g
    <3>1. Cardinality(1 .. g) = IF 1 > g THEN 0 ELSE g - 1 + 1
      BY <2>2, FS_Interval
    <3> QED BY <2>2, <3>1
  <2>4. Client!Cardinality(1 .. g) = Cardinality(1 .. g)
    BY DEF Client!Cardinality, Cardinality
  <2> QED BY <2>1, <2>3, <2>4
<1>3. Client!Run /\ UNCHANGED counter
  BY <1>1, SameDelQueue DEF Run, Client!Run
<1>4. UNCHANGED <<1 .. (g_tid - 1), {}, counter>>
  BY <1>1, <1>3
<1>5. Client!Start
  BY <1>1, <1>2, <1>3, <1>4 DEF Client!Start
<1>6. Client!IInv' /\ Client!Ready # <<>> /\ curr' = Head(Client!Ready) /\ Client!Ready' = Tail(Client!Ready)
  BY <1>5, ClientAssumptions, Client!StartInv DEF IInv
<1> QED BY <1>5, <1>6, ReadyPrimed, ClientFacts DEF IInv

(* The semaphore is free, so P does not block.                             *)
LEMMA PStep ==
  ASSUME IInv, NEW t \in Thread, curr = t, CallP(t)
  PROVE  /\ Client!CallP /\ Client!IInv'
         /\ UNCHANGED <<mem, curr>> /\ Ready' = Ready /\ counter' = 0
<1>1. counter = 1 /\ curr # NULL /\ UNCHANGED g_tid /\ P
  BY ThreadAssumption DEF CallP, IInv, Guarded, Inside
<1>2. counter' = 0 /\ ~(counter' < 0) /\ counter' = counter - 1 /\ counter > 0
  BY <1>1 DEF P
<1>3. UNCHANGED <<mem, curr>>
  BY <1>1, <1>2 DEF P
<1>4. Client!P
  BY <1>2, <1>3 DEF Client!P
<1>5. Client!CallP
  <2>1. Client!Returning({curr}, counter)
    BY <1>2, <1>3 DEF Client!Returning
  <2>2. {} \cup {curr} = {curr}
    OBVIOUS
  <2>3. UNCHANGED (1 .. (g_tid - 1))
    BY <1>1
  <2> QED BY <1>1, <1>2, <1>4, <2>1, <2>2, <2>3 DEF Client!CallP
<1>6. Client!Next
  BY <1>5, ClientFacts DEF Client!Next, IInv
<1>7. Client!IInv'
  BY <1>6, ClientAssumptions, Client!StepInv DEF IInv
<1>8. Ready' = Ready
  BY <1>3 DEF Ready
<1> QED BY <1>2, <1>3, <1>5, <1>7, <1>8

LEMMA VStep ==
  ASSUME IInv, NEW t \in Thread, curr = t, CallV(t)
  PROVE  /\ Client!CallV /\ Client!IInv'
         /\ Ready # <<>> /\ curr' = Head(Ready) /\ Ready' = Append(Tail(Ready), t) /\ counter' = 1
<1>1. counter = 0 /\ curr # NULL /\ UNCHANGED g_tid /\ V
  BY ThreadAssumption DEF CallV, IInv, Guarded, Inside
<1>2. counter' = 1 /\ ~(counter' < 1) /\ counter' = counter + 1 /\ counter < 1
  BY <1>1 DEF V
<1>3. Client!Yielding(mem, curr)
  BY <1>1, <1>2, SameYielding DEF V
<1>4. Client!CallV
  <2>1. Client!V
    BY <1>2, <1>3 DEF Client!V
  <2>2. Client!Returning({}, counter + 1)
    BY <1>2 DEF Client!Returning
  <2>3. UNCHANGED (1 .. (g_tid - 1))
    BY <1>1
  <2> QED BY <1>1, <1>2, <2>1, <2>2, <2>3 DEF Client!CallV
<1>5. UNCHANGED <<1 .. (g_tid - 1), {}>> /\ counter' \in Nat /\ counter' \in Int
  BY <1>1, <1>2
<1>6. /\ Client!IInv' /\ Client!Ready # <<>> /\ curr' = Head(Client!Ready)
      /\ Client!Ready' = Append(Tail(Client!Ready), curr)
  BY <1>1, <1>3, <1>5, ClientAssumptions, Client!SwitchInv DEF IInv
<1> QED BY <1>2, <1>4, <1>6, ReadyPrimed, ClientFacts DEF IInv

LEMMA NoStep ==
  ASSUME IInv, UNCHANGED <<libVars, g_tid>>
  PROVE  UNCHANGED Client!vars /\ Client!IInv' /\ Ready' = Ready
<1>1. UNCHANGED <<mem, curr, counter, g_tid>>
  BY DEF libVars
<1>2. UNCHANGED Client!vars
  BY <1>1 DEF Client!vars, Client!libVars
<1>3. Client!IInv'
  BY <1>2, ClientAssumptions, Client!StepInv DEF IInv
<1> QED BY <1>1, <1>2, <1>3 DEF Ready
(* So is every step of the program.                                        *)
LEMMA StepIsClient ==
  ASSUME IInv, [Next]_vars
  PROVE  [Client!Next]_(Client!vars) /\ Client!IInv'
<1>1. CASE CreateThreads
  BY <1>1, CreateStep, ClientFacts DEF Client!Next, IInv
<1>2. CASE RunThreads
  BY <1>2, RunStep, ClientFacts DEF Client!Next, IInv
<1>3. ASSUME NEW t \in Thread, curr = t, CallP(t) PROVE [Client!Next]_(Client!vars) /\ Client!IInv'
  BY <1>3, PStep, ClientFacts DEF Client!Next, IInv
<1>4. ASSUME NEW t \in Thread, curr = t, CallV(t) PROVE [Client!Next]_(Client!vars) /\ Client!IInv'
  BY <1>4, VStep, ClientFacts DEF Client!Next, IInv
<1>5. ASSUME NEW t \in Thread, ReaderLeaves(t) \/ Read(t) PROVE UNCHANGED <<libVars, g_tid>>
  BY <1>5 DEF ReaderLeaves, Read
<1>6. ASSUME Write PROVE UNCHANGED <<libVars, g_tid>>
  BY <1>6 DEF Write
<1>7. ASSUME UNCHANGED vars PROVE UNCHANGED <<libVars, g_tid>>
  BY <1>7 DEF vars
<1> QED BY <1>1, <1>2, <1>3, <1>4, <1>5, <1>6, <1>7, NoStep DEF Next
-----------------------------------------------------------------------------
(***************************************************************************)
(* The program itself                                                      *)
(***************************************************************************)

(* When the first of the line comes in and the one that worked goes to its *)
(* end, the order stays.                                                   *)
LEMMA Turns ==
  ASSUME NEW s \in Seq(Thread), NEW t \in Thread, Len(s) = NUM_OF_READER,
         \A i \in 1 .. NUM_OF_READER : s[i] = Later(t, i)
  PROVE  /\ Len(Append(Tail(s), t)) = NUM_OF_READER
         /\ \A i \in 1 .. NUM_OF_READER : Append(Tail(s), t)[i] = Later(Head(s), i)
         /\ Head(s) = IF t = Writer THEN 1 ELSE t + 1
<1>1. PICK n, u, v : n = NUM_OF_READER /\ u = Tail(s) /\ v = Append(u, t)
  OBVIOUS
<1>2. n \in Nat /\ n # 0 /\ t \in 1 .. n + 1 /\ t \in Nat /\ Writer = n + 1 /\ 1 \in 1 .. n
  BY <1>1, ReaderAssumption, ThreadIdAssumption DEF Writer
<1>3. u \in Seq(Thread) /\ Len(u) = n - 1 /\ \A i \in 1 .. n - 1 : u[i] = s[i + 1]
  BY <1>1, <1>2, TailIs
<1>4. Len(v) = n /\ v[n] = t /\ \A i \in 1 .. n - 1 : v[i] = s[i + 1]
  <2>1. n - 1 + 1 = n
    BY <1>2
  <2> QED BY <1>1, <1>3, <2>1, AppendProperties
<1>5. Head(s) = s[1] /\ s[1] = Later(t, 1)
  BY <1>1, <1>2
<1>6. PICK h : h = Head(s)
  OBVIOUS
<1>7. h = IF t = n + 1 THEN 1 ELSE t + 1
  BY <1>2, <1>5, <1>6 DEF Later
<1>8. ASSUME NEW i \in 1 .. n PROVE v[i] = Later(h, i)
  <2>1. CASE i = n
    BY <1>2, <1>4, <1>7, <2>1 DEF Later
  <2>2. CASE i # n
    <3>1. i \in 1 .. n - 1 /\ i + 1 \in 1 .. n
      BY <1>2, <2>2
    <3>2. v[i] = Later(t, i + 1)
      BY <1>1, <1>4, <3>1
    <3> QED BY <1>2, <1>7, <3>1, <3>2 DEF Later
  <2> QED BY <2>1, <2>2
<1> QED BY <1>1, <1>2, <1>4, <1>6, <1>7, <1>8

LEMMA Numbers ==
  /\ NUM_OF_READER \in Nat /\ NUM_OF_READER # 0 /\ Writer = NUM_OF_READER + 1
  /\ Thread = 1 .. NUM_OF_READER + 1 /\ Reader = 1 .. NUM_OF_READER /\ NULL \notin Thread
BY ReaderAssumption, ThreadIdAssumption, ThreadAssumption DEF Writer, Reader

(* Steps that neither read nor print.                                      *)
LEMMA SameProgram ==
  ASSUME ProgramOK, Done' = Done, UNCHANGED <<fileVars, written, exited>>
  PROVE  ProgramOK'
<1>1. UNCHANGED <<words, trailing, taken, eof, buffer, isEOF, written, exited>>
  BY DEF fileVars
<1>2. FileTypeOK' /\ Ending'
  BY <1>1 DEF ProgramOK, FileTypeOK, Ending
<1>3. Progress'
  BY <1>1 DEF ProgramOK, Progress
<1>4. Buffers'
  BY <1>1 DEF ProgramOK, Buffers, Before
<1>5. \A i \in 1 .. Len(written) : InOrder(i)'
  BY <1>1 DEF ProgramOK, InOrder
<1> QED BY <1>1, <1>2, <1>3, <1>4, <1>5 DEF ProgramOK

LEMMA CreateInv == ASSUME IInv, CreateThreads PROVE IInv'
<1>1. Client!IInv' /\ Ready' = Append(Ready, g_tid) /\ g_tid \in Thread
  BY CreateStep
<1>2. /\ curr = NULL /\ g_tid' = g_tid + 1 /\ UNCHANGED <<curr, counter, fileVars, pc, written, exited>>
  BY DEF CreateThreads, CreateThread
<1>3. PICK g, s, u : g = g_tid /\ s = Ready /\ u = Append(s, g) /\ g \in Nat /\ g # 0
  BY <1>1, Numbers
<1>4. InTurn'
  <2>1. Len(s) = g - 1 /\ \A i \in 1 .. g - 1 : s[i] = i
    BY <1>2, <1>3 DEF IInv, InTurn
  <2>2. s \in Seq(Thread) /\ g \in Thread /\ g - 1 + 1 = g
    BY <1>1, <1>3, ClientFacts DEF IInv
  <2>3. Len(u) = g /\ u[g] = g /\ \A i \in 1 .. g - 1 : u[i] = s[i]
    BY <1>3, <2>1, <2>2, AppendProperties
  <2>4. \A i \in 1 .. g : u[i] = i
    <3>1. \A i \in 1 .. g : i \in 1 .. g - 1 \/ i = g
      BY <1>3
    <3> QED BY <2>1, <2>3, <3>1
  <2>5. g_tid' - 1 = g
    BY <1>2, <1>3
  <2> QED BY <1>1, <1>2, <1>3, <2>3, <2>4, <2>5 DEF InTurn
<1>5. Guarded'
  <2>1. g_tid' \in 1 .. Writer + 1
    BY <1>1, <1>2, Numbers
  <2> QED BY <1>2, <2>1 DEF IInv, Guarded, Inside
<1>6. Done' = Done
  BY <1>2 DEF Done
<1> QED BY <1>1, <1>2, <1>4, <1>5, <1>6, SameProgram DEF IInv

LEMMA RunInv == ASSUME IInv, RunThreads PROVE IInv'
<1>1. Client!IInv' /\ Ready # <<>> /\ curr' = Head(Ready) /\ Ready' = Tail(Ready)
  BY RunStep
<1>2. curr = NULL /\ g_tid \notin Thread /\ UNCHANGED <<counter, fileVars, g_tid, pc, written, exited>>
  BY DEF RunThreads, Run
<1>3. g_tid = Writer + 1 /\ g_tid - 1 = NUM_OF_READER + 1
  BY <1>2, Numbers DEF IInv, Guarded
<1>4. PICK n, s, u : n = NUM_OF_READER /\ s = Ready /\ u = Tail(s)
  OBVIOUS
<1>5. n \in Nat /\ n # 0 /\ Len(s) = n + 1 /\ s \in Seq(Thread) /\ \A i \in 1 .. n + 1 : s[i] = i
  BY <1>2, <1>3, <1>4, Numbers, ClientFacts DEF IInv, InTurn
<1>6. Len(u) = n /\ \A i \in 1 .. n : u[i] = s[i + 1]
  <2>1. n + 1 # 0 /\ n + 1 - 1 = n
    BY <1>5
  <2> QED BY <1>4, <1>5, <2>1, TailIs
<1>7. curr' = 1 /\ 1 \in Thread /\ 1 # Writer
  <2>1. 1 \in 1 .. n + 1 /\ Head(s) = s[1]
    BY <1>5
  <2> QED BY <1>1, <1>4, <1>5, <2>1, Numbers
<1>8. InTurn'
  <2>1. \A i \in 1 .. n : u[i] = Later(1, i)
    BY <1>4, <1>5, <1>6, Numbers DEF Later
  <2>2. UNCHANGED <<g_tid, pc>> /\ 1 # NULL
    BY <1>2, <1>7, Numbers
  <2> QED BY <1>1, <1>3, <1>4, <1>6, <1>7, <2>1, <2>2 DEF InTurn
<1>9. pc[1] = "P" /\ \A t \in Thread : pc[t] = "P"
  BY <1>2, <1>7, Numbers DEF IInv, Guarded
<1>10. Guarded'
  BY <1>2, <1>7, <1>9 DEF IInv, Guarded, Inside
<1>11. Done' = Done
  BY <1>2, <1>7, <1>9, Numbers DEF Done
<1> QED BY <1>1, <1>2, <1>8, <1>10, <1>11, SameProgram DEF IInv

LEMMA PInv == ASSUME IInv, NEW t \in Thread, curr = t, CallP(t) PROVE IInv'
<1>1. Client!IInv' /\ UNCHANGED <<mem, curr>> /\ Ready' = Ready /\ counter' = 0
  BY PStep
<1>2. pc[t] = "P" /\ pc' = [pc EXCEPT ![t] = "inside"] /\ UNCHANGED <<fileVars, g_tid, written, exited>>
  BY DEF CallP, Goto
<1>3. pc' \in [Thread -> {"P", "inside", "V"}] /\ pc'[t] = "inside"
      /\ \A u \in Thread : u # t => pc'[u] = pc[u]
  BY <1>2 DEF IInv, Guarded
<1>4. InTurn'
  BY <1>1, <1>2 DEF IInv, InTurn
<1>5. Guarded'
  BY <1>1, <1>2, <1>3, Numbers DEF IInv, Guarded, Inside
<1>6. Done' = Done
  BY <1>1, <1>2, <1>3 DEF Done
<1> QED BY <1>1, <1>2, <1>4, <1>5, <1>6, SameProgram DEF IInv

LEMMA VInv == ASSUME IInv, NEW t \in Thread, curr = t, CallV(t) PROVE IInv'
<1>1. /\ Client!IInv' /\ counter' = 1
      /\ Ready # <<>> /\ curr' = Head(Ready) /\ Ready' = Append(Tail(Ready), t)
  BY VStep
<1>2. pc[t] = "V" /\ pc' = [pc EXCEPT ![t] = "P"] /\ UNCHANGED <<fileVars, g_tid, written, exited>>
  BY DEF CallV, Goto
<1>3. PICK s, u : s = Ready /\ u = Append(Tail(s), t)
  OBVIOUS
<1>4. t # NULL /\ g_tid = Writer + 1 /\ s \in Seq(Thread) /\ Len(s) = NUM_OF_READER
      /\ \A i \in 1 .. NUM_OF_READER : s[i] = Later(t, i)
  BY <1>3, Numbers, ClientFacts DEF IInv, InTurn
<1>5. /\ Len(u) = NUM_OF_READER /\ \A i \in 1 .. NUM_OF_READER : u[i] = Later(Head(s), i)
      /\ Head(s) = IF t = Writer THEN 1 ELSE t + 1
  BY <1>3, <1>4, Turns
<1>6. PICK h : h = Head(s)
  OBVIOUS
<1>7. h \in Thread /\ h # NULL /\ h # t /\ curr' = h
  BY <1>1, <1>3, <1>5, <1>6, Numbers
<1>8. InTurn'
  BY <1>1, <1>2, <1>3, <1>4, <1>5, <1>6, <1>7 DEF InTurn
<1>9. pc' \in [Thread -> {"P", "inside", "V"}] /\ \A x \in Thread : pc'[x] = "P"
  BY <1>2 DEF IInv, Guarded
<1>10. Guarded'
  BY <1>1, <1>2, <1>7, <1>9 DEF IInv, Guarded, Inside
<1>11. Done' = Done
  BY <1>2, <1>4, <1>5, <1>6, <1>7, <1>9, Numbers DEF Done
<1> QED BY <1>1, <1>2, <1>8, <1>10, <1>11, SameProgram DEF IInv

(* A reader fills its buffer, or meets the end of the file.                *)
LEMMA ReadInv == ASSUME IInv, ~exited, NEW r \in Thread, curr = r, Read(r) PROVE IInv'
<1>1. /\ pc[r] = "inside" /\ r \in Reader /\ ~eof /\ r # NULL /\ r # Writer
      /\ UNCHANGED <<mem, curr, counter, words, trailing, isEOF, g_tid, written, exited>>
      /\ pc' = [pc EXCEPT ![r] = "V"]
  BY Numbers DEF Read, Goto, libVars
<1>2. Client!IInv' /\ Ready' = Ready
  BY <1>1, NoStep DEF libVars, IInv
<1>3. pc' \in [Thread -> {"P", "inside", "V"}] /\ pc'[r] = "V"
      /\ \A u \in Thread : u # r => pc'[u] = pc[u]
  BY <1>1 DEF IInv, Guarded
<1>4. InTurn'
  BY <1>1, <1>2 DEF IInv, InTurn
<1>5. Guarded'
  BY <1>1, <1>3 DEF IInv, Guarded, Inside
<1>6. PICK L : L = Len(written) /\ L \in Nat
  <2>1. Len(written) \in Nat
    BY DEF IInv, ProgramOK, FileTypeOK
  <2> QED BY <2>1
<1>7. Done = r - 1 /\ Done' = r /\ r \in Nat /\ r # 0
  BY <1>1, <1>3, Numbers DEF Done
<1>8. /\ words \in Nat /\ taken \in Nat /\ taken <= words /\ taken = L + (r - 1) /\ ~isEOF' /\ ~exited
      /\ buffer \in [Reader -> 0 .. words]
  <2>1. words \in Nat /\ taken \in Nat /\ taken <= words /\ buffer \in [Reader -> 0 .. words]
    BY ReaderAssumption DEF IInv, ProgramOK, FileTypeOK
  <2>2. taken = L + (r - 1)
    BY <1>1, <1>6, <1>7 DEF IInv, ProgramOK, Progress
  <2>3. ~exited /\ ~isEOF
    BY DEF IInv, ProgramOK, Ending
  <2> QED BY <1>1, <2>1, <2>2, <2>3
<1>9. \A q \in Reader : buffer[q] = IF q < r THEN L + q ELSE Before(q)
  <2>1. \A q \in Reader : q < r - 1 \/ q = r - 1 <=> q < r
    BY <1>7, Numbers
  <2>2. taken = Len(written) + Done
    BY <1>6, <1>7, <1>8
  <2>3. \A q \in Reader : buffer[q] = IF q < Done \/ (q = Done /\ taken = Len(written) + Done)
                                      THEN Len(written) + q ELSE Before(q)
    BY <1>1 DEF IInv, ProgramOK, Buffers
  <2> QED BY <1>6, <1>7, <2>1, <2>2, <2>3
<1>10. \A q \in Reader : Before(q)' = Before(q)
  BY <1>1 DEF Before
<1>11. CASE taken < words
  <2>1. /\ taken' = taken + 1 /\ buffer' = [buffer EXCEPT ![r] = taken + 1]
        /\ eof' = (taken + 1 = words /\ ~trailing) /\ words' = words
    BY <1>11, <1>1 DEF Read
  <2>2. taken' = L + r /\ taken' \in 0 .. words /\ eof' \in BOOLEAN
    BY <1>6, <1>7, <1>8, <1>11, <2>1
  <2>3. buffer' \in [Reader -> 0 .. words] /\ buffer'[r] = taken'
        /\ \A q \in Reader : q # r => buffer'[q] = buffer[q]
    BY <1>1, <1>8, <2>1, <2>2
  <2>4. FileTypeOK'
    BY <1>1, <2>2, <2>3 DEF IInv, ProgramOK, FileTypeOK
  <2>5. Progress'
    BY <1>1, <1>6, <1>7, <2>1, <2>2 DEF Progress
  <2>6. Buffers'
    <3>1. ASSUME NEW q \in Reader
          PROVE  buffer'[q] = IF q < r \/ q = r THEN L + q ELSE Before(q)
      <4>1. q = r \/ (q # r /\ buffer'[q] = buffer[q])
        BY <2>3
      <4> QED BY <1>9, <2>2, <2>3, <4>1
    <3>2. taken' = Len(written') + Done' /\ Len(written') = L
      BY <1>1, <1>6, <1>7, <2>2
    <3> QED BY <1>1, <1>7, <1>10, <3>1, <3>2 DEF Buffers
  <2> QED BY <1>1, <1>2, <1>4, <1>5, <1>8, <2>4, <2>5, <2>6 DEF IInv, ProgramOK, InOrder, Ending
<1>12. CASE ~(taken < words)
  <2>1. taken' = taken /\ buffer' = buffer /\ eof' = TRUE /\ words' = words
    BY <1>12, <1>1 DEF Read
  <2>2. taken = words /\ (trailing \/ words = 0)
    <3>1. taken = words
      BY <1>8, <1>12
    <3> QED BY <1>1, <3>1 DEF IInv, ProgramOK, Progress
  <2>3. FileTypeOK'
    BY <1>1, <2>1 DEF IInv, ProgramOK, FileTypeOK
  <2>4. Progress'
    <3>1. taken' = Len(written') + Done' - 1
      BY <1>1, <1>6, <1>7, <1>8, <2>1
    <3> QED BY <1>1, <2>1, <2>2, <3>1 DEF Progress
  <2>5. Buffers'
    <3>1. Len(written') = L /\ taken' # L + r
      BY <1>1, <1>6, <1>7, <1>8, <2>1
    <3> QED BY <1>1, <1>7, <1>9, <1>10, <2>1, <3>1 DEF Buffers
  <2> QED BY <1>1, <1>2, <1>4, <1>5, <1>8, <2>3, <2>4, <2>5 DEF IInv, ProgramOK, InOrder, Ending
<1> QED BY <1>11, <1>12

(* The process ends before the line in the next buffers is printed.        *)
LEMMA LeaveInv == ASSUME IInv, NEW r \in Thread, curr = r, ReaderLeaves(r) PROVE IInv'
<1>1. /\ pc[r] = "inside" /\ r \in Reader /\ eof /\ r # NULL /\ r # Writer /\ isEOF' = TRUE /\ exited' = TRUE
      /\ UNCHANGED <<mem, curr, counter, words, trailing, taken, eof, buffer, g_tid, pc, written>>
  BY Numbers DEF ReaderLeaves, libVars
<1>2. Client!IInv' /\ Ready' = Ready
  BY <1>1, NoStep DEF libVars, IInv
<1>3. Done = r - 1 /\ Done' = Done /\ r \in 1 .. NUM_OF_READER
  BY <1>1, Numbers DEF Done
<1>4. FileTypeOK'
  BY <1>1 DEF IInv, ProgramOK, FileTypeOK
<1>5. Progress'
  BY <1>1, <1>3 DEF IInv, ProgramOK, Progress
<1>6. Buffers'
  BY <1>1, <1>3 DEF IInv, ProgramOK, Buffers, Before
<1>7. Ending'
  <2>1. PICK L : L = Len(written) /\ L \in Nat
    <3>1. Len(written) \in Nat
      BY DEF IInv, ProgramOK, FileTypeOK
    <3> QED BY <3>1
  <2>2. taken = words /\ (taken = L + Done \/ taken = L + Done - 1) /\ words \in Nat
    BY <1>1, <2>1, ReaderAssumption DEF IInv, ProgramOK, Progress, FileTypeOK
  <2>3. words - L < NUM_OF_READER
    BY <1>3, <2>1, <2>2, Numbers
  <2> QED BY <1>1, <2>1, <2>2, <2>3 DEF Ending
<1>8. InTurn' /\ Guarded'
  BY <1>1, <1>2 DEF IInv, InTurn, Guarded, Inside
<1> QED BY <1>1, <1>2, <1>4, <1>5, <1>6, <1>7, <1>8 DEF IInv, ProgramOK, InOrder

(* The writer prints what the buffers hold: a word each, in order, but     *)
(* perhaps for the last.                                                   *)
LEMMA WriteInv == ASSUME IInv, ~exited, curr = Writer, Write PROVE IInv'
<1>1. /\ pc[Writer] = "inside" /\ Writer # NULL /\ Writer \in Thread /\ exited' = isEOF
      /\ written' = written \o [i \in 1 .. NUM_OF_READER |-> buffer[i]]
      /\ UNCHANGED <<mem, curr, counter, words, trailing, taken, eof, buffer, isEOF, g_tid>>
      /\ pc' = [pc EXCEPT ![Writer] = "V"]
  BY Numbers DEF Write, Goto, libVars, fileVars
<1>2. Client!IInv' /\ Ready' = Ready
  BY <1>1, NoStep DEF libVars, IInv
<1>3. pc' \in [Thread -> {"P", "inside", "V"}] /\ pc'[Writer] = "V"
      /\ \A u \in Thread : u # Writer => pc'[u] = pc[u]
  BY <1>1 DEF IInv, Guarded
<1>4. InTurn'
  BY <1>1, <1>2 DEF IInv, InTurn
<1>5. Guarded'
  BY <1>1, <1>3 DEF IInv, Guarded, Inside
<1>6. PICK n, L, b, v : /\ n = NUM_OF_READER /\ L = Len(written) /\ L \in Nat
                        /\ b = [i \in 1 .. n |-> buffer[i]] /\ v = written'
  <2>1. Len(written) \in Nat
    BY DEF IInv, ProgramOK, FileTypeOK
  <2> QED BY <2>1
<1>7. n \in Nat /\ n # 0 /\ Reader = 1 .. n
  BY <1>6, Numbers
<1>8. Done = n /\ Done' = 0
  BY <1>1, <1>3, <1>6 DEF Done
<1>9. FileTypeOK /\ Progress /\ Buffers /\ ~isEOF /\ words \in Nat /\ taken \in Nat
  BY ReaderAssumption DEF IInv, ProgramOK, FileTypeOK, Ending
<1>10. /\ v \in Seq(0 .. words) /\ Len(v) = L + n
       /\ \A i \in 1 .. L : v[i] = written[i]
       /\ \A q \in 1 .. n : v[L + q] = buffer[q]
  <2>1. written \in Seq(0 .. words) /\ buffer \in [1 .. n -> 0 .. words]
    BY <1>7, <1>9 DEF FileTypeOK
  <2>2. b \in Seq(0 .. words) /\ Len(b) = n /\ \A q \in 1 .. n : b[q] = buffer[q]
    BY <1>6, <1>7, <2>1
  <2>3. v = written \o b
    BY <1>1, <1>6
  <2>4. PICK w, S : w = written /\ S = 0 .. words
    OBVIOUS
  <2>5. v = w \o b /\ w \in Seq(S) /\ b \in Seq(S) /\ Len(w) = L
    BY <1>6, <2>1, <2>2, <2>3, <2>4
  <2>6. v \in Seq(S) /\ Len(v) = L + n /\ \A i \in 1 .. L + n : v[i] = IF i <= L THEN w[i] ELSE b[i - L]
    BY <2>2, <2>5, ConcatProperties
  <2>7. ASSUME NEW i \in 1 .. L PROVE v[i] = w[i]
    <3>1. i \in 1 .. L + n /\ i <= L
      BY <1>6, <1>7
    <3> QED BY <2>6, <3>1
  <2>8. ASSUME NEW q \in 1 .. n PROVE v[L + q] = buffer[q]
    <3>1. PICK p : p = L + q
      OBVIOUS
    <3>2. p \in 1 .. L + n /\ ~(p <= L) /\ p - L = q
      BY <1>6, <1>7, <3>1
    <3>3. v[p] = b[p - L]
      BY <2>6, <3>2
    <3> QED BY <2>2, <3>1, <3>2, <3>3
  <2> QED BY <2>4, <2>6, <2>7, <2>8
<1>11. FileTypeOK'
  BY <1>1, <1>6, <1>9, <1>10 DEF FileTypeOK
<1>12. \/ taken = L + n
       \/ eof /\ taken = L + n - 1 /\ (trailing \/ words = 0)
  BY <1>6, <1>8, <1>9 DEF Progress
<1>13. Progress'
  <2>1. taken' = Len(written') + Done' \/ (taken = L + n - 1 /\ taken' = Len(written') + Done' - 1)
    BY <1>1, <1>6, <1>7, <1>8, <1>9, <1>10, <1>12
  <2>2. eof => taken = words
    BY <1>9 DEF Progress
  <2>3. ~eof /\ taken = words => trailing \/ words = 0
    BY <1>9 DEF Progress
  <2>4. L + n = taken => Len(written') + Done' = taken'
    BY <1>1, <1>6, <1>7, <1>8, <1>9, <1>10
  <2> QED BY <1>1, <1>12, <2>1, <2>2, <2>3, <2>4 DEF Progress
<1>14. \A q \in Reader : buffer[q] = IF q < n \/ (q = n /\ taken = L + n) THEN L + q ELSE Before(q)
  BY <1>6, <1>7, <1>8, <1>9 DEF Buffers
<1>15. Buffers'
  <2>1. ASSUME ~eof, NEW q \in Reader PROVE buffer'[q] = Before(q)' /\ ~(q < 0) /\ q # 0
    <3>1. taken = L + n /\ (q < n \/ q = n) /\ ~(q < 0) /\ q # 0
      BY <1>7, <1>12, <2>1
    <3>2. buffer'[q] = L + q
      BY <1>1, <1>14, <2>1, <3>1
    <3>3. Len(v) = L + n /\ L + n # 0 /\ L + n - n + q = L + q
      BY <1>6, <1>7, <1>10, <2>1
    <3>4. Before(q)' = L + q
      <4>1. Before(q)' = IF Len(v) = 0 THEN 0 ELSE Len(v) - n + q
        BY <1>6 DEF Before
      <4> QED BY <1>6, <1>7, <2>1, <3>3, <4>1
    <3> QED BY <3>1, <3>2, <3>4
  <2> QED BY <1>1, <1>8, <2>1 DEF Buffers
<1>16. ASSUME NEW i \in 1 .. L + n PROVE InOrder(i)'
  <2>1. CASE i \in 1 .. L
    <3>1. L # words + 1
      BY <1>6, <1>7, <1>9, <1>12 DEF FileTypeOK
    <3>2. written[i] = i
      BY <1>6, <2>1, <3>1 DEF IInv, ProgramOK, InOrder
    <3> QED BY <1>6, <1>10, <2>1, <3>2 DEF InOrder
  <2>2. CASE ~(i \in 1 .. L)
    <3>1. PICK q : q = i - L
      OBVIOUS
    <3>2. q \in 1 .. n /\ L + q = i
      BY <1>6, <1>7, <2>2, <3>1
    <3>3. v[i] = buffer[q]
      BY <1>10, <3>2
    <3>4. CASE q < n \/ taken = L + n
      <4>1. q < n \/ q = n
        BY <1>7, <3>2
      <4>2. buffer[q] = L + q
        BY <1>7, <1>14, <3>2, <3>4, <4>1
      <4> QED BY <1>6, <3>2, <3>3, <4>2 DEF InOrder
    <3>5. CASE ~(q < n) /\ taken # L + n
      <4>1. q = n /\ i = L + n /\ (i > n <=> L # 0) /\ i - n = L
        BY <1>6, <1>7, <3>2, <3>5
      <4>2. eof /\ taken = words /\ (trailing \/ words = 0) /\ i = words + 1
        <5>1. eof /\ taken = L + n - 1 /\ (trailing \/ words = 0) /\ taken = words
          BY <1>9, <1>12, <3>5 DEF Progress
        <5> QED BY <1>6, <1>7, <4>1, <5>1
      <4>3. buffer[q] = Before(q)
        BY <1>7, <1>14, <3>2, <3>5
      <4>4. Before(q) = IF L = 0 THEN 0 ELSE L
        BY <1>6, <1>7, <4>1 DEF Before
      <4>5. v[i] = IF i > n THEN i - n ELSE 0
        BY <3>3, <4>1, <4>3, <4>4
      <4>6. i = Len(v)
        BY <1>10, <4>1
      <4> QED BY <1>1, <1>6, <4>2, <4>5, <4>6 DEF InOrder
    <3> QED BY <3>4, <3>5
  <2> QED BY <2>1, <2>2
<1>17. Ending'
  BY <1>1, <1>9 DEF Ending
<1> QED BY <1>1, <1>2, <1>4, <1>5, <1>6, <1>10, <1>11, <1>13, <1>15, <1>16, <1>17 DEF IInv, ProgramOK

LEMMA InitInv == Init => IInv
<1> SUFFICES ASSUME Init PROVE IInv
  OBVIOUS
<1>1. /\ mem = [head |-> [q \in Queue |-> NULL], next |-> [t \in Thread |-> NULL],
               prev |-> [t \in Thread |-> NULL], fault |-> "none"]
      /\ curr = NULL /\ counter = 1
      /\ words \in 0 .. MaxWords /\ trailing \in BOOLEAN /\ taken = 0 /\ eof = FALSE
      /\ buffer = [r \in Reader |-> 0] /\ isEOF = FALSE /\ g_tid = 1
      /\ pc = [t \in Thread |-> "P"] /\ written = <<>> /\ exited = FALSE
  BY DEF Init, LibInit
<1>2. Client!Init
  <2>1. 1 .. (g_tid - 1) = {}
    BY <1>1
  <2> QED BY <1>1, <2>1 DEF Client!Init, Client!LibInit, Client!Queue, Queue
<1>3. Client!IInv
  BY <1>2, ClientAssumptions, Client!InitInv
<1>4. Ready = <<>>
  <2>1. PICK s : s = Ready
    OBVIOUS
  <2>2. s \in Seq(Thread) /\ \A i \in 1 .. Len(s) : s[i] \in Thread
    BY <1>3, <2>1, ClientFacts
  <2>3. ASSUME NEW i \in 1 .. Len(s) PROVE FALSE
    <3>1. s[i] \in 1 .. (g_tid - 1)
      BY <1>3, <2>1, <2>2, ClientFacts DEF Client!IInv, Client!InReady
    <3> QED BY <1>1, <3>1
  <2>4. s = <<>>
    BY <2>2, <2>3
  <2> QED BY <2>1, <2>4
<1>5. InTurn
  BY <1>1, <1>4 DEF InTurn
<1>6. Guarded
  BY <1>1, Numbers DEF Guarded, Inside
<1>7. FileTypeOK
  <2>1. words \in Nat
    BY <1>1, ReaderAssumption
  <2>2. buffer \in [Reader -> 0 .. words] /\ taken \in 0 .. words
    BY <1>1, <2>1
  <2>3. written \in Seq(0 .. words)
    BY <1>1
  <2>4. eof \in BOOLEAN /\ isEOF \in BOOLEAN /\ exited \in BOOLEAN
    BY <1>1
  <2> QED BY <1>1, <2>2, <2>3, <2>4 DEF FileTypeOK
<1>8. Done = 0 /\ Len(written) = 0 /\ words \in Nat
  BY <1>1, ReaderAssumption DEF Done
<1>9. Progress /\ Ending
  BY <1>1, <1>8 DEF Progress, Ending
<1>10. Buffers
  BY <1>1, <1>8, Numbers DEF Buffers, Before
<1>11. \A i \in 1 .. Len(written) : InOrder(i)
  BY <1>8
<1> QED BY <1>3, <1>5, <1>6, <1>7, <1>9, <1>10, <1>11 DEF IInv, ProgramOK

LEMMA StepInv == ASSUME IInv, [Next]_vars PROVE IInv'
<1>1. ASSUME NEW t \in Thread, curr = t, ~exited,
             CallP(t) \/ ReaderLeaves(t) \/ Read(t) \/ CallV(t) \/ (t = Writer /\ Write)
      PROVE  IInv'
  BY <1>1, PInv, LeaveInv, ReadInv, VInv, WriteInv
<1>2. CASE UNCHANGED vars
  <2>1. UNCHANGED <<mem, curr, counter, fileVars, g_tid, pc, written, exited>>
    BY <1>2 DEF vars, libVars, fileVars
  <2>2. Client!IInv' /\ Ready' = Ready
    BY <2>1, NoStep DEF libVars
  <2>3. InTurn'
    BY <2>1, <2>2 DEF IInv, InTurn
  <2>4. Guarded'
    BY <2>1 DEF IInv, Guarded, Inside
  <2>5. Done' = Done
    BY <2>1 DEF Done
  <2> QED BY <2>1, <2>2, <2>3, <2>4, <2>5, SameProgram DEF IInv
<1> QED BY <1>1, <1>2, CreateInv, RunInv DEF Next
-----------------------------------------------------------------------------
(***************************************************************************)
(* Theorems                                                                *)
(***************************************************************************)

(* The threads go round in the order of their numbers, the semaphore tells *)
(* whether the current one is between P and V, and what is in the buffers  *)
(* follows from how many readers had their turn since the writer printed.  *)
THEOREM InvCorrect == Spec => []IInv
<1>1. Init => IInv
  BY InitInv
<1>2. IInv /\ [Next]_vars => IInv'
  BY StepInv
<1> QED BY <1>1, <1>2, PTL DEF Spec

(* The program is one of those that never call P when they would have to   *)
(* wait, so all that CoThreadsProofs shows of such programs holds of it.   *)
THEOREM RefinesClient == Spec => Client!Spec
<1>1. Init => Client!Init
  <2>1. ASSUME Init PROVE 1 .. (g_tid - 1) = {}
    BY <2>1 DEF Init
  <2> QED BY <2>1 DEF Init, LibInit, Client!Init, Client!LibInit, Client!Queue, Queue
<1>2. IInv /\ [Next]_vars => [Client!Next]_(Client!vars)
  BY StepIsClient
<1> QED BY <1>1, <1>2, InvCorrect, PTL DEF Spec, Client!Spec

(* The state is well typed.                                                *)
THEOREM TypeCorrect == Spec => []TypeOK
<1>1. IInv => TypeOK
  BY ClientFacts DEF IInv, ProgramOK, FileTypeOK, Guarded, Inside, TypeOK, LibTypeOK
<1> QED BY <1>1, InvCorrect, PTL

(* Two threads are never between P and V, and nobody waits for the         *)
(* semaphore.                                                              *)
THEOREM OneInsideCorrect == Spec => []OneInside
<1>1. IInv => OneInside
  BY ClientFacts DEF IInv, Guarded, OneInside
<1> QED BY <1>1, InvCorrect, PTL

(* The words are printed in the order of the file, but for the last, which *)
(* may be left from the round before; fewer than there are readers are     *)
(* lost.                                                                   *)
THEOREM WrittenInOrderCorrect == Spec => []WrittenInOrder
<1>1. IInv => WrittenInOrder
  BY DEF IInv, ProgramOK, InOrder, Ending, WrittenInOrder
<1> QED BY <1>1, InvCorrect, PTL
=============================================================================
