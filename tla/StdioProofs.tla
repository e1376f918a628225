----------------------------- MODULE StdioProofs -----------------------------
(***************************************************************************)
(* Theorems about the buffered streams of hw5, for a buffer of any size,   *)
(* files of any length and calls of any size: nothing read is stale or     *)
(* lost, feof tells the truth, and no program can tell the stream from a   *)
(* file without a buffer.                                                  *)
(***************************************************************************)
EXTENDS Stdio, SequenceTheorems, TLAPS

(* Bytes are those of the file from `at' on.                               *)
InFile(bytes, at) ==
  /\ at \in Nat
  /\ bytes # <<>> => at + Len(bytes) <= Len(content)
  /\ \A k \in 1 .. Len(bytes) : bytes[k] = content[at + k]

(* An fread in progress: what it has handed out lies in the file before    *)
(* what is left in the buffer, and there is something left.  A round asks  *)
(* for a whole buffer unless the first one is the last, or the file has    *)
(* ended.                                                                  *)
InFread ==
  /\ call \in [op : {"fread"}, total : Nat, data : Seq(Nat), count : Nat]
  /\ mode \in Mode \ Writing
  /\ buf # <<>>
  /\ Len(call.data) <= call.total
  /\ InFile(call.data, offset - Len(buf) - Len(call.data))
  /\ \/ call.total < BUFSIZE /\ call.count > 0
     \/ call.count <= (Len(call.data) + Len(buf)) \div BUFSIZE
     \/ offset >= Len(content)

(* An fwrite in progress: the buffer holds the bytes that are copied next. *)
InFwrite ==
  /\ call \in [op : {"fwrite"}, total : Nat, done : Nat, count : Nat, at : Nat,
               failure : {"none", "unnoticed"}]
  /\ mode \in Mode \ {"r"}
  /\ ptr
  /\ buf # <<>>
  /\ call.done + Len(buf) <= call.total
  /\ call.total \in WriteSizes
  /\ result = NoResult

(* What the last call has left: a buffer that is empty or may be read on.  *)
NoCall ==
  /\ call = Idle
  /\ mode # "none" /\ ~unsynced => buf = <<>>
  /\ mode \in Writing => buf = <<>>
  /\ result.op = "fread" =>
       result \in [op : {"fread"}, data : Seq(Nat), total : Nat, failure : {"none", "noticed"}]

(* What is in the buffer is what the file holds before the offset, unless  *)
(* a write has failed that nobody looked at.                               *)
BufferIsCurrent ==
  mode # "none" /\ ~(call.op = "fwrite" /\ call.failure = "unnoticed") =>
    InFile(buf, offset - Len(buf))

(* The inductive invariant.                                                *)
IInv ==
  /\ TypeOK
  /\ InFread \/ InFwrite \/ NoCall
  /\ BufferIsCurrent
  /\ ShortReadIsEof
-----------------------------------------------------------------------------
(***************************************************************************)
(* Parts of sequences, and bytes written over others                       *)
(***************************************************************************)
LEMMA SliceProperties ==
  ASSUME NEW s \in Seq(Nat), NEW from \in Nat, NEW to \in Nat, from <= to
  PROVE  /\ Slice(s, from, to) \in Seq(Nat)
         /\ Len(Slice(s, from, to)) = IF from < Len(s) THEN AtMost(to, Len(s)) - from ELSE 0
         /\ \A k \in 1 .. Len(Slice(s, from, to)) : Slice(s, from, to)[k] = s[from + k]
<1> DEFINE last == IF to < Len(s) THEN to ELSE Len(s)
<1>1. Len(s) \in Nat /\ last \in Nat /\ last <= Len(s) /\ from + 1 \in Int
  OBVIOUS
<1>2. \A i \in from + 1 .. last : s[i] \in Nat
  BY <1>1, ElementOfSeq
<1> HIDE DEF last
<1>3. /\ SubSeq(s, from + 1, last) \in Seq(Nat)
      /\ Len(SubSeq(s, from + 1, last)) = IF from + 1 <= last THEN last - (from + 1) + 1 ELSE 0
      /\ \A i \in 1 .. last - (from + 1) + 1 : SubSeq(s, from + 1, last)[i] = s[from + 1 + i - 1]
  BY <1>1, <1>2, SubSeqProperties
<1>4. Slice(s, from, to) = SubSeq(s, from + 1, last)
  BY DEF Slice, last
<1>5. Len(SubSeq(s, from + 1, last)) = IF from < Len(s) THEN AtMost(to, Len(s)) - from ELSE 0
  BY <1>1, <1>3 DEF last, AtMost
<1>6. ASSUME NEW k \in 1 .. Len(SubSeq(s, from + 1, last))
      PROVE  SubSeq(s, from + 1, last)[k] = s[from + k]
  <2>1. k \in 1 .. last - (from + 1) + 1 /\ from + 1 + k - 1 = from + k
    BY <1>1, <1>3
  <2> QED BY <1>3, <2>1
<1> QED BY <1>3, <1>4, <1>5, <1>6

(* The bytes of the file from `at' on are a part of it.                    *)
LEMMA InFileIsSubSeq ==
  ASSUME NEW bytes \in Seq(Nat), NEW at, InFile(bytes, at), content \in Seq(Nat)
  PROVE  bytes = SubSeq(content, at + 1, at + Len(bytes))
<1>1. at \in Nat /\ Len(bytes) \in Nat /\ (Len(bytes) # 0 => at + Len(bytes) <= Len(content))
  BY EmptySeq DEF InFile
<1>2. \A i \in at + 1 .. at + Len(bytes) : content[i] \in Nat
  BY <1>1, ElementOfSeq
<1>3. /\ SubSeq(content, at + 1, at + Len(bytes)) \in Seq(Nat)
      /\ Len(SubSeq(content, at + 1, at + Len(bytes))) = Len(bytes)
      /\ \A i \in 1 .. Len(bytes) : SubSeq(content, at + 1, at + Len(bytes))[i] = content[at + i]
  <2>1. /\ SubSeq(content, at + 1, at + Len(bytes)) \in Seq(Nat)
        /\ Len(SubSeq(content, at + 1, at + Len(bytes))) =
             IF at + 1 <= at + Len(bytes) THEN at + Len(bytes) - (at + 1) + 1 ELSE 0
        /\ \A i \in 1 .. at + Len(bytes) - (at + 1) + 1 :
             SubSeq(content, at + 1, at + Len(bytes))[i] = content[at + 1 + i - 1]
    BY <1>1, <1>2, SubSeqProperties
  <2> QED BY <1>1, <2>1
<1> QED BY <1>3, SeqEqual DEF InFile

LEMMA InFileIsSlice ==
  ASSUME NEW bytes \in Seq(Nat), NEW at, InFile(bytes, at), content \in Seq(Nat)
  PROVE  bytes = Slice(content, at, at + Len(bytes)) /\ Len(bytes) \in 0 .. Len(content)
<1>1. at \in Nat /\ Len(bytes) \in Nat /\ (Len(bytes) # 0 => at + Len(bytes) <= Len(content))
  BY EmptySeq DEF InFile
<1>2. /\ Slice(content, at, at + Len(bytes)) \in Seq(Nat)
      /\ Len(Slice(content, at, at + Len(bytes))) =
           IF at < Len(content) THEN AtMost(at + Len(bytes), Len(content)) - at ELSE 0
      /\ \A k \in 1 .. Len(Slice(content, at, at + Len(bytes))) :
           Slice(content, at, at + Len(bytes))[k] = content[at + k]
  BY <1>1, SliceProperties, SMTT(30)
<1>3. Len(Slice(content, at, at + Len(bytes))) = Len(bytes)
  BY <1>1, <1>2 DEF AtMost
<1> QED BY <1>1, <1>2, <1>3, SeqEqual, SMTT(30) DEF InFile

LEMMA OverwriteProperties ==
  ASSUME NEW s \in Seq(Nat), NEW p \in Nat, NEW d \in Seq(Nat)
  PROVE  /\ Overwrite(s, p, d) \in Seq(Nat)
         /\ Len(Overwrite(s, p, d)) >= p + Len(d)
         /\ \A k \in 1 .. Len(d) : Overwrite(s, p, d)[p + k] = d[k]
<1> DEFINE n == IF Len(s) > p + Len(d) THEN Len(s) ELSE p + Len(d)
           e(i) == IF i \in (p + 1) .. (p + Len(d)) THEN d[i - p]
                   ELSE IF i <= Len(s) THEN s[i] ELSE 0
<1>1. n \in Nat /\ n >= p + Len(d) /\ Len(d) \in Nat
  OBVIOUS
<1>2. ASSUME NEW i \in 1 .. n PROVE e(i) \in Nat
  BY <1>1, ElementOfSeq
<1>3. Overwrite(s, p, d) = [i \in 1 .. n |-> e(i)]
  BY DEF Overwrite
<1> HIDE DEF n, e
<1>4. [i \in 1 .. n |-> e(i)] \in Seq(Nat) /\ Len([i \in 1 .. n |-> e(i)]) = n
  BY <1>1, <1>2
<1>5. ASSUME NEW k \in 1 .. Len(d) PROVE Overwrite(s, p, d)[p + k] = d[k]
  <2>1. p + k \in 1 .. n /\ p + k \in (p + 1) .. (p + Len(d)) /\ p + k - p = k
    BY <1>1
  <2>2. e(p + k) = d[k]
    BY <2>1 DEF e
  <2> QED BY <1>3, <2>1, <2>2
<1> QED BY <1>1, <1>3, <1>4, <1>5

LEMMA DataProperties ==
  ASSUME NEW n \in Nat
  PROVE  Data(n) \in Seq(Nat) /\ Len(Data(n)) = n
BY BoundAssumption DEF Data
-----------------------------------------------------------------------------
(***************************************************************************)
(* What the reads and writes of the file do                                *)
(***************************************************************************)
LEMMA CopyBytesProperties ==
  ASSUME NEW total \in Nat, NEW count \in Nat
  PROVE  /\ CopyBytes(total, count) \in 0 .. BUFSIZE
         /\ count <= total \div BUFSIZE => CopyBytes(total, count) = BUFSIZE
         /\ total < BUFSIZE /\ count > 0 => CopyBytes(total, count) = total
BY BufsizeAssumption DEF CopyBytes

LEMMA FillProperties ==
  ASSUME TypeOK, NEW total \in Nat, NEW count \in Nat, FillBuffer(total, count)
  PROVE  /\ buf' \in Seq(Nat) /\ Len(buf') <= CopyBytes(total, count) /\ Len(buf') <= BUFSIZE
         /\ offset' \in Nat /\ offset' = offset + Len(buf')
         /\ failures' \in 0 .. MaxFailures
         /\ eof' \in BOOLEAN /\ ptr' \in BOOLEAN
         /\ buf' = <<>> => eof'
         /\ eof' => eof \/ buf' = <<>>
         /\ buf' # <<>> => offset' <= Len(content)
         /\ \A k \in 1 .. Len(buf') : buf'[k] = content[offset + k]
         /\ \/ Len(buf') = CopyBytes(total, count)
            \/ offset' >= Len(content)
            \/ Failed /\ buf' = <<>>
<1>1. /\ offset \in Nat /\ content \in Seq(Nat) /\ Len(content) \in Nat
      /\ failures \in 0 .. MaxFailures /\ MaxFailures \in Nat
      /\ eof \in BOOLEAN
  BY BoundAssumption DEF TypeOK
<1>2. CopyBytes(total, count) \in 0 .. BUFSIZE /\ BUFSIZE \in Nat
  BY CopyBytesProperties, BufsizeAssumption
<1>3. offset' = offset + Len(buf') /\ eof' = (eof \/ buf' = <<>>) /\ ptr' = TRUE
  BY DEF FillBuffer
<1> DEFINE Marks == /\ eof' \in BOOLEAN /\ ptr' \in BOOLEAN
                    /\ buf' = <<>> => eof'
                    /\ eof' => eof \/ buf' = <<>>
<1>6. Marks
  BY <1>1, <1>3, Zenon
<1> HIDE DEF Marks
<1>4. CASE Succeeds /\ buf' = Filled(total, count)
  <2> DEFINE to == offset + CopyBytes(total, count)
  <2>1. to \in Nat /\ offset <= to
    BY <1>1, <1>2
  <2>2. /\ Slice(content, offset, to) \in Seq(Nat)
        /\ Len(Slice(content, offset, to)) = IF offset < Len(content) THEN AtMost(to, Len(content)) - offset ELSE 0
        /\ \A k \in 1 .. Len(Slice(content, offset, to)) : Slice(content, offset, to)[k] = content[offset + k]
    BY <1>1, <2>1, SliceProperties
  <2>3. buf' = Slice(content, offset, to)
    BY <1>4 DEF Filled
  <2>4. /\ buf' \in Seq(Nat)
        /\ Len(buf') = IF offset < Len(content) THEN AtMost(to, Len(content)) - offset ELSE 0
        /\ \A k \in 1 .. Len(buf') : buf'[k] = content[offset + k]
    BY <2>2, <2>3
  <2>5. buf' # <<>> => Len(buf') # 0
    BY <2>4, EmptySeq
  <2>6. failures' = failures
    BY <1>4 DEF Succeeds
  <2>7. /\ Len(buf') <= CopyBytes(total, count) /\ Len(buf') <= BUFSIZE
        /\ offset' \in Nat
        /\ Len(buf') # 0 => offset' <= Len(content)
        /\ Len(buf') = CopyBytes(total, count) \/ offset' >= Len(content)
    <3>1. Len(buf') \in Nat /\ offset' = offset + Len(buf')
      BY <1>3, <2>4
    <3>2. CASE offset < Len(content)
      BY <1>1, <1>2, <2>1, <2>4, <3>1, <3>2 DEF AtMost
    <3>3. CASE offset >= Len(content)
      BY <1>1, <1>2, <2>4, <3>1, <3>3
    <3> QED BY <1>1, <3>2, <3>3
  <2> QED BY <1>1, <1>3, <1>6, <2>4, <2>5, <2>6, <2>7 DEF Marks
<1>5. CASE Fails /\ buf' = <<>>
  <2>1. failures' \in 0 .. MaxFailures /\ Failed
    BY <1>1, <1>5 DEF Fails, Failed
  <2>2. buf' \in Seq(Nat) /\ Len(buf') = 0
    BY <1>5
  <2> QED BY <1>1, <1>2, <1>3, <1>5, <1>6, <2>1, <2>2 DEF Marks
<1> QED BY <1>4, <1>5 DEF FillBuffer

LEMMA WriteFileProperties ==
  ASSUME TypeOK, NEW d \in Seq(Nat), WriteFile(d)
  PROVE  /\ content' \in Seq(Nat) /\ offset' \in Nat
         /\ failures' \in 0 .. MaxFailures
         /\ \/ ~Failed /\ d # <<>> /\ content' = Overwrite(content, WritePosition, d)
               /\ offset' = WritePosition + Len(d) /\ InFile(d, offset - Len(d))'
            \/ UNCHANGED <<content, offset>> /\ (Failed <=> d # <<>>)
<1>1. /\ offset \in Nat /\ content \in Seq(Nat) /\ WritePosition \in Nat
      /\ failures \in 0 .. MaxFailures /\ MaxFailures \in Nat
  BY BoundAssumption DEF TypeOK, WritePosition
<1>2. CASE /\ d # <<>> /\ Succeeds
           /\ content' = Overwrite(content, WritePosition, d)
           /\ offset' = WritePosition + Len(d)
  <2>1. /\ content' \in Seq(Nat) /\ Len(content') >= WritePosition + Len(d)
        /\ \A k \in 1 .. Len(d) : content'[WritePosition + k] = d[k]
    BY <1>1, <1>2, OverwriteProperties
  <2>2. offset' - Len(d) = WritePosition /\ offset' \in Nat /\ Len(d) \in Nat
    BY <1>1, <1>2
  <2>3. InFile(d, offset - Len(d))'
    BY <1>1, <2>1, <2>2 DEF InFile
  <2> QED BY <1>1, <1>2, <2>1, <2>2, <2>3 DEF Succeeds, Failed
<1>3. CASE /\ IF d = <<>> THEN Succeeds ELSE Fails
           /\ UNCHANGED <<content, offset>>
  BY <1>1, <1>3 DEF Succeeds, Fails, Failed
<1> QED BY <1>2, <1>3 DEF WriteFile

LEMMA UpdateProperties ==
  ASSUME TypeOK, NEW total \in Nat, NEW count \in Nat, NEW done \in 0 .. total,
         UpdateBuffer(total, count, done)
  PROVE  LET bytes == Slice(Data(total), done, done + WriteBytes(total, count)) IN
         /\ bytes \in Seq(Nat) /\ Len(bytes) <= BUFSIZE /\ done + Len(bytes) <= total
         /\ WriteFile(bytes)
         /\ buf' \in {<<>>, bytes}
         /\ {ptr', write_flag'} \subseteq BOOLEAN
         /\ buf' # <<>> => ptr'
         /\ ptr /\ Failed => buf' = <<>>
<1> DEFINE bytes == Slice(Data(total), done, done + WriteBytes(total, count))
<1>1. WriteBytes(total, count) \in 0 .. BUFSIZE /\ BUFSIZE \in Nat
  BY BufsizeAssumption DEF WriteBytes
<1>2. Data(total) \in Seq(Nat) /\ Len(Data(total)) = total
  BY DataProperties
<1>3. /\ bytes \in Seq(Nat)
      /\ Len(bytes) = IF done < total THEN AtMost(done + WriteBytes(total, count), total) - done ELSE 0
  <2>1. done + WriteBytes(total, count) \in Nat /\ done \in Nat /\ done <= done + WriteBytes(total, count)
    BY <1>1
  <2> QED BY <1>2, <2>1, SliceProperties
<1>4. Len(bytes) <= BUFSIZE /\ done + Len(bytes) <= total
  BY <1>1, <1>3 DEF AtMost
<1>5. /\ write_flag' = (write_flag \/ count > total \div BUFSIZE)
      /\ WriteFile(bytes)
      /\ IF ptr /\ (write_flag' \/ Failed)
         THEN buf' = <<>> /\ UNCHANGED ptr
         ELSE buf' = bytes /\ ptr' = TRUE
  BY DEF UpdateBuffer
<1>6. {ptr, write_flag} \subseteq BOOLEAN
  BY DEF TypeOK
<1> HIDE DEF bytes
<1>7. /\ buf' \in {<<>>, bytes}
      /\ {ptr', write_flag'} \subseteq BOOLEAN
      /\ buf' # <<>> => ptr'
      /\ ptr /\ Failed => buf' = <<>>
  BY <1>5, <1>6
<1> QED BY <1>3, <1>4, <1>5, <1>7 DEF bytes
-----------------------------------------------------------------------------
(***************************************************************************)
(* The invariant                                                           *)
(***************************************************************************)
LEMMA EmptyInFile ==
  ASSUME NEW at \in Nat
  PROVE  InFile(<<>>, at) /\ InFile(<<>>, at)'
BY DEF InFile

LEMMA Bounds ==
  /\ BUFSIZE \in Nat /\ MaxCalls \in Nat /\ LargeWrites \in Nat /\ MaxFailures \in Nat
  /\ "none" \notin Mode /\ Writing \subseteq Mode
BY BufsizeAssumption, BoundAssumption DEF Mode, Writing

(* TypeOK in three parts.                                                  *)
StreamType ==
  /\ content \in Seq(Nat) /\ offset \in Nat /\ mode \in Mode \cup {"none"}
  /\ buf \in Seq(Nat) /\ Len(buf) <= BUFSIZE

FlagsType == ptr \in BOOLEAN /\ eof \in BOOLEAN /\ write_flag \in BOOLEAN /\ unsynced \in BOOLEAN

CallsType ==
  /\ call.op \in {"none", "fread", "fwrite"} /\ result.op \in {"none", "fread", "fwrite"}
  /\ calls \in 0 .. MaxCalls /\ large \in 0 .. LargeWrites /\ failures \in 0 .. MaxFailures

LEMMA TypeParts ==
  /\ TypeOK <=> StreamType /\ FlagsType /\ CallsType
  /\ TypeOK' <=> StreamType' /\ FlagsType' /\ CallsType'
BY DEF TypeOK, StreamType, FlagsType, CallsType

LEMMA InitInv == Init => IInv
<1> SUFFICES ASSUME Init PROVE IInv
  OBVIOUS
<1>1. content \in Seq(Nat)
  BY BoundAssumption DEF Init
<1>2. TypeOK
  <2>1. StreamType
    BY <1>1, Bounds DEF Init, StreamType
  <2>2. FlagsType
    BY DEF Init, FlagsType
  <2>3. CallsType
    BY Bounds DEF Init, CallsType, Idle, NoResult
  <2> QED BY <2>1, <2>2, <2>3, TypeParts
<1>3. NoCall
  BY DEF Init, NoCall, NoResult, Writing
<1>4. BufferIsCurrent /\ ShortReadIsEof
  BY DEF Init, BufferIsCurrent, ShortReadIsEof, NoResult
<1> QED BY <1>2, <1>3, <1>4 DEF IInv

(* When no call is in progress, none is.                                   *)
LEMMA Between ==
  ASSUME IInv, call = Idle
  PROVE  NoCall
BY DEF IInv, InFread, InFwrite, Idle

LEMMA FopenInv ==
  ASSUME IInv, NEW m \in Mode, Fopen(m)
  PROVE  IInv'
<1>1. NoCall
  BY Between DEF Fopen, Called
<1>2. TypeOK'
  <2>1. StreamType'
    BY TypeParts, Bounds DEF IInv, StreamType, Fopen
  <2>2. FlagsType'
    BY TypeParts DEF IInv, FlagsType, Fopen
  <2>3. CallsType'
    BY TypeParts, Bounds DEF IInv, CallsType, Fopen, Called, Idle, NoResult
  <2> QED BY <2>1, <2>2, <2>3, TypeParts
<1>3. NoCall'
  BY <1>1 DEF NoCall, Fopen, NoResult
<1>4. BufferIsCurrent' /\ ShortReadIsEof'
  BY EmptyInFile DEF BufferIsCurrent, ShortReadIsEof, Fopen, NoResult
<1> QED BY <1>2, <1>3, <1>4 DEF IInv

LEMMA FcloseInv ==
  ASSUME IInv, Fclose
  PROVE  IInv'
<1>1. NoCall
  BY Between DEF Fclose, Called
<1>2. TypeOK'
  <2>1. StreamType'
    BY TypeParts, Bounds DEF IInv, StreamType, Fclose
  <2>2. FlagsType'
    BY TypeParts DEF IInv, FlagsType, Fclose
  <2>3. CallsType'
    BY TypeParts, Bounds DEF IInv, CallsType, Fclose, Called, Idle, NoResult
  <2> QED BY <2>1, <2>2, <2>3, TypeParts
<1>3. NoCall'
  BY <1>1 DEF NoCall, Fclose, NoResult, Writing
<1>4. BufferIsCurrent' /\ ShortReadIsEof'
  BY DEF BufferIsCurrent, ShortReadIsEof, Fclose, NoResult
<1> QED BY <1>2, <1>3, <1>4 DEF IInv

LEMMA FflushInv ==
  ASSUME IInv, Fflush
  PROVE  IInv'
<1>1. NoCall
  BY Between DEF Fflush, Called
<1>2. TypeOK'
  <2>1. StreamType'
    BY TypeParts, Bounds DEF IInv, StreamType, Fflush
  <2>2. FlagsType'
    BY TypeParts DEF IInv, FlagsType, Fflush
  <2>3. CallsType'
    BY TypeParts, Bounds DEF IInv, CallsType, Fflush, Called, Idle, NoResult
  <2> QED BY <2>1, <2>2, <2>3, TypeParts
<1>3. NoCall'
  BY <1>1 DEF NoCall, Fflush, NoResult
<1>4. offset' \in Nat
  BY DEF IInv, TypeOK, Fflush
<1>5. BufferIsCurrent' /\ ShortReadIsEof'
  BY <1>4, EmptyInFile DEF BufferIsCurrent, ShortReadIsEof, Fflush, NoResult
<1> QED BY <1>2, <1>3, <1>5 DEF IInv

LEMMA SeekInv ==
  ASSUME IInv, NEW p \in Int, Called, mode # "none", SeekTo(p)
  PROVE  IInv'
<1>1. NoCall
  BY Between DEF Called
<1>2. offset' \in Nat /\ buf' \in Seq(Nat) /\ Len(buf') <= BUFSIZE
  <2>1. offset \in Nat /\ buf \in Seq(Nat) /\ Len(buf) <= BUFSIZE
    BY DEF IInv, TypeOK
  <2>2. CASE p >= 0
    BY <2>2, Bounds DEF SeekTo
  <2>3. CASE ~ (p >= 0)
    BY <2>1, <2>3 DEF SeekTo
  <2> QED BY <2>2, <2>3
<1>3. TypeOK'
  <2>1. StreamType'
    BY <1>2, TypeParts, Bounds DEF IInv, StreamType, SeekTo
  <2>2. FlagsType'
    BY TypeParts DEF IInv, FlagsType, SeekTo
  <2>3. CallsType'
    BY TypeParts, Bounds DEF IInv, CallsType, SeekTo, Called, Idle, NoResult
  <2> QED BY <2>1, <2>2, <2>3, TypeParts
<1>4. NoCall'
  BY <1>1 DEF NoCall, SeekTo, NoResult
<1>5. BufferIsCurrent'
  <2>1. CASE p >= 0
    BY <2>1, <1>2, EmptyInFile DEF BufferIsCurrent, SeekTo
  <2>2. CASE ~ (p >= 0)
    BY <2>2 DEF IInv, BufferIsCurrent, InFile, SeekTo
  <2> QED BY <2>1, <2>2
<1>6. ShortReadIsEof'
  BY DEF ShortReadIsEof, SeekTo, NoResult
<1> QED BY <1>3, <1>4, <1>5, <1>6 DEF IInv

LEMMA FseekInv ==
  ASSUME IInv, NEW n \in -1 .. 1, NEW whence \in {"SEEK_SET", "SEEK_CUR", "SEEK_END"},
         Fseek(n, whence)
  PROVE  IInv'
<1>1. /\ n \in Int /\ offset + n - Len(buf) \in Int /\ Len(content) + n \in Int
  BY DEF IInv, TypeOK
<1>2. \E p \in Int : SeekTo(p)
  BY <1>1 DEF Fseek
<1> QED BY <1>2, SeekInv DEF Fseek
-----------------------------------------------------------------------------
(***************************************************************************)
(* fread                                                                   *)
(***************************************************************************)

(* An fread that returns leaves what NoCall says.                          *)
LEMMA ReturnsInv ==
  ASSUME StreamType', FlagsType', calls' \in 0 .. MaxCalls, large' \in 0 .. LargeWrites,
         failures' \in 0 .. MaxFailures,
         NEW data \in Seq(Nat), NEW total \in Nat, Len(data) <= total, FreadReturns(data, total),
         mode' \in Writing \/ Len(data) < total => buf' = <<>>,
         mode' # "none" => InFile(buf, offset - Len(buf))',
         mode' \notin Writing /\ Len(data) < total => eof' /\ (offset' >= Len(content') \/ Failed)
  PROVE  IInv'
<1>1. /\ call' = Idle
      /\ result' = [op |-> "fread", data |-> data, total |-> total, failure |-> Failure]
      /\ unsynced' <=> Len(data) = total
  BY DEF FreadReturns
<1>2. Failure \in {"none", "noticed"} /\ (Failed => Failure = "noticed")
  BY DEF Failure
<1>3. TypeOK'
  BY <1>1, TypeParts DEF CallsType, Idle
<1>4. NoCall'
  <2>1. mode' # "none" /\ ~unsynced' => mode' \in Writing \/ Len(data) < total
    BY <1>1
  <2> QED BY <1>1, <1>2, <2>1 DEF NoCall
<1>5. BufferIsCurrent'
  BY <1>1 DEF BufferIsCurrent, Idle
<1>6. ShortReadIsEof'
  BY <1>1, <1>2 DEF ShortReadIsEof
<1> QED BY <1>3, <1>4, <1>5, <1>6 DEF IInv

LEMMA FreadRefusedInv ==
  ASSUME IInv, NEW n \in ReadSizes, FreadRefused(n)
  PROVE  IInv'
<1>1. NoCall /\ mode \in Writing /\ call = Idle
  BY Between DEF FreadRefused, Called
<1>2. n \in Nat /\ <<>> \in Seq(Nat) /\ Len(<<>>) <= n /\ FreadReturns(<<>>, n)
  BY SizesAssumption DEF FreadRefused
<1>3. UNCHANGED <<streamVars, large, failures>> /\ calls < MaxCalls /\ calls' = calls + 1
  BY DEF FreadRefused, Called, Succeeds
<1>4. StreamType' /\ calls' \in 0 .. MaxCalls /\ large' \in 0 .. LargeWrites
        /\ failures' \in 0 .. MaxFailures
  BY <1>3, TypeParts, Bounds DEF IInv, StreamType, CallsType, streamVars
<1>5. FlagsType'
  <2>1. unsynced' \in BOOLEAN
    BY <1>2 DEF FreadReturns
  <2> QED BY <1>3, <2>1, TypeParts DEF IInv, FlagsType, streamVars
<1>6. buf' = <<>> /\ mode' \in Writing /\ offset' \in Nat
  BY <1>1, <1>3 DEF NoCall, streamVars, IInv, TypeOK
<1>7. InFile(buf, offset - Len(buf))'
  BY <1>6, EmptyInFile
<1> QED BY <1>2, <1>4, <1>5, <1>6, <1>7, ReturnsInv

(* What a round finds in the file, when it is not the end nor a failure.   *)
LEMMA RoundFills ==
  ASSUME TypeOK, NEW total \in Nat, NEW count \in Nat, NEW n \in Nat, n <= total,
         FillBuffer(total, count),
         \/ total < BUFSIZE /\ count > 0
         \/ count <= n \div BUFSIZE
         \/ offset >= Len(content)
  PROVE  /\ 0 < total /\ buf' = <<>> => offset' >= Len(content) \/ Failed
         /\ \/ total < BUFSIZE
            \/ Len(buf') = BUFSIZE /\ count <= total \div BUFSIZE
            \/ offset' >= Len(content)
            \/ Failed /\ buf' = <<>>
<1>1. /\ buf' \in Seq(Nat) /\ Len(buf') \in Nat
      /\ offset \in Nat /\ offset' = offset + Len(buf')
      /\ Len(content) \in Nat
      /\ \/ Len(buf') = CopyBytes(total, count)
         \/ offset' >= Len(content)
         \/ Failed /\ buf' = <<>>
  BY FillProperties DEF TypeOK
<1>2. /\ CopyBytes(total, count) \in 0 .. BUFSIZE
      /\ count <= total \div BUFSIZE => CopyBytes(total, count) = BUFSIZE
      /\ total < BUFSIZE /\ count > 0 => CopyBytes(total, count) = total
  BY CopyBytesProperties
<1>3. buf' = <<>> => Len(buf') = 0
  OBVIOUS
<1>4. CASE total < BUFSIZE /\ count > 0
  BY <1>1, <1>2, <1>3, <1>4
<1>5. CASE count <= n \div BUFSIZE
  <2>1. n \div BUFSIZE <= total \div BUFSIZE /\ n \div BUFSIZE \in Nat /\ total \div BUFSIZE \in Nat
    BY BufsizeAssumption
  <2>2. count <= total \div BUFSIZE
    BY <1>5, <2>1
  <2> QED BY <1>1, <1>2, <1>3, <2>2, BufsizeAssumption
<1>6. CASE offset >= Len(content)
  BY <1>1, <1>6
<1> QED BY <1>4, <1>5, <1>6

(* An fread that goes on.                                                  *)
LEMMA GoesOnInv ==
  ASSUME StreamType', FlagsType', calls' \in 0 .. MaxCalls, large' \in 0 .. LargeWrites,
         failures' \in 0 .. MaxFailures, result'.op \in {"none", "fread", "fwrite"},
         NEW total \in Nat, NEW data \in Seq(Nat), NEW count \in Nat,
         call' = [op |-> "fread", total |-> total, data |-> data, count |-> count],
         mode' \in Mode \ Writing, buf' # <<>>, Len(data) <= total,
         InFile(data, offset - Len(buf) - Len(data))',
         InFile(buf, offset - Len(buf))',
         \/ total < BUFSIZE /\ count > 0
         \/ count <= (Len(data) + Len(buf')) \div BUFSIZE
         \/ offset' >= Len(content')
  PROVE  IInv'
<1>1. call'.op = "fread" /\ call'.total = total /\ call'.data = data /\ call'.count = count
  OBVIOUS
<1>2. TypeOK'
  BY <1>1, TypeParts DEF CallsType
<1>3. InFread'
  BY <1>1 DEF InFread
<1>4. BufferIsCurrent'
  BY DEF BufferIsCurrent
<1>5. ShortReadIsEof'
  BY <1>1 DEF ShortReadIsEof, Idle
<1> QED BY <1>2, <1>3, <1>4, <1>5 DEF IInv

(* What a filled buffer leaves of the types, and that it is current.       *)
LEMMA FilledType ==
  ASSUME IInv, NEW total \in Nat, NEW count \in Nat, FillBuffer(total, count),
         UNCHANGED <<content, mode, write_flag, large>>
  PROVE  /\ StreamType' /\ large' \in 0 .. LargeWrites /\ failures' \in 0 .. MaxFailures
         /\ ptr' \in BOOLEAN /\ eof' \in BOOLEAN /\ write_flag' \in BOOLEAN
         /\ InFile(buf, offset - Len(buf))'
         /\ offset' - Len(buf') = offset
<1>1. /\ buf' \in Seq(Nat) /\ Len(buf') <= BUFSIZE
      /\ offset' \in Nat /\ offset' = offset + Len(buf')
      /\ failures' \in 0 .. MaxFailures /\ eof' \in BOOLEAN /\ ptr' \in BOOLEAN
      /\ buf' # <<>> => offset' <= Len(content)
      /\ \A k \in 1 .. Len(buf') : buf'[k] = content[offset + k]
  BY FillProperties DEF IInv
<1>2. offset \in Nat /\ Len(buf') \in Nat
  BY <1>1 DEF IInv, TypeOK
<1>3. StreamType' /\ large' \in 0 .. LargeWrites
  BY <1>1 DEF IInv, TypeOK, StreamType
<1>4. write_flag' \in BOOLEAN
  BY DEF IInv, TypeOK
<1>5. offset' - Len(buf') = offset
  BY <1>1, <1>2
<1>6. InFile(buf, offset - Len(buf))'
  BY <1>1, <1>2, <1>5 DEF InFile
<1> QED BY <1>1, <1>3, <1>4, <1>5, <1>6

LEMMA FreadInv ==
  ASSUME IInv, NEW n \in ReadSizes, Fread(n)
  PROVE  IInv'
<1>1. /\ NoCall /\ mode \in Mode \ Writing /\ mode # "none"
      /\ UNCHANGED <<content, mode, write_flag, large>>
      /\ calls' \in 0 .. MaxCalls
  BY Between, Bounds DEF Fread, Called, IInv, TypeOK
<1>2. n \in Nat /\ <<>> \in Seq(Nat) /\ Len(<<>>) <= n /\ BUFSIZE \in Nat \ {0}
  BY SizesAssumption, BufsizeAssumption
<1>3. CASE buf = <<>> /\ FillBuffer(n, 1)
  <2>1. /\ StreamType' /\ large' \in 0 .. LargeWrites /\ failures' \in 0 .. MaxFailures
        /\ ptr' \in BOOLEAN /\ eof' \in BOOLEAN /\ write_flag' \in BOOLEAN
        /\ InFile(buf, offset - Len(buf))'
        /\ offset' - Len(buf') = offset
    BY <1>1, <1>2, <1>3, FilledType
  <2>2. 1 \in Nat /\ 0 \in Nat /\ 0 <= n /\ (n < BUFSIZE \/ 1 <= n \div BUFSIZE)
    BY <1>2
  <2>3. /\ 0 < n /\ buf' = <<>> => offset' >= Len(content) \/ Failed
        /\ \/ n < BUFSIZE
           \/ Len(buf') = BUFSIZE /\ 1 <= n \div BUFSIZE
           \/ offset' >= Len(content)
           \/ Failed /\ buf' = <<>>
    BY <1>2, <1>3, <2>2, RoundFills DEF IInv
  <2>4. CASE buf' = <<>>
    <3>1. FreadReturns(<<>>, n) /\ unsynced' \in BOOLEAN /\ eof'
      BY <1>2, <1>3, <2>4, FillProperties DEF Fread, FreadReturns, IInv
    <3>2. FlagsType'
      BY <2>1, <3>1 DEF FlagsType
    <3> QED BY <1>1, <1>2, <2>1, <2>3, <2>4, <3>1, <3>2, ReturnsInv
  <2>5. CASE buf' # <<>>
    <3>1. /\ call' = [op |-> "fread", total |-> n, data |-> <<>>, count |-> 1]
          /\ UNCHANGED <<result, unsynced>>
      BY <1>3, <2>5 DEF Fread
    <3>2. FlagsType' /\ result'.op \in {"none", "fread", "fwrite"}
      BY <2>1, <3>1 DEF FlagsType, IInv, TypeOK
    <3>3. InFile(<<>>, offset - Len(buf) - Len(<<>>))'
      BY <2>1, EmptyInFile DEF IInv, TypeOK
    <3>4. \/ n < BUFSIZE /\ 1 > 0
          \/ 1 <= (Len(<<>>) + Len(buf')) \div BUFSIZE
          \/ offset' >= Len(content')
      BY <1>1, <1>2, <2>3, <2>5
    <3> QED BY <1>1, <1>2, <2>1, <2>2, <2>5, <3>1, <3>2, <3>3, <3>4, GoesOnInv
  <2> QED BY <2>4, <2>5
<1>4. CASE /\ buf # <<>>
           /\ call' = [op |-> "fread", total |-> n, data |-> <<>>, count |-> 0]
           /\ UNCHANGED <<offset, buf, ptr, eof, result, unsynced, failures>>
  <2>1. StreamType' /\ large' \in 0 .. LargeWrites /\ failures' \in 0 .. MaxFailures
    BY <1>1, <1>4 DEF IInv, TypeOK, StreamType
  <2>2. FlagsType' /\ result'.op \in {"none", "fread", "fwrite"}
    BY <1>1, <1>4 DEF FlagsType, IInv, TypeOK
  <2>3. InFile(buf, offset - Len(buf))'
    <3>1. InFile(buf, offset - Len(buf))
      BY <1>1 DEF IInv, BufferIsCurrent, NoCall, Idle
    <3> QED BY <1>1, <1>4, <3>1 DEF InFile
  <2>4. InFile(<<>>, offset - Len(buf) - Len(<<>>))'
    BY <2>3 DEF InFile
  <2>5. 0 \in Nat /\ 0 <= (Len(<<>>) + Len(buf')) \div BUFSIZE
    <3>1. Len(<<>>) + Len(buf') \in Nat
      BY <1>4 DEF IInv, TypeOK
    <3> QED BY <1>2, <3>1
  <2> QED BY <1>1, <1>2, <1>4, <2>1, <2>2, <2>3, <2>4, <2>5, GoesOnInv
<1> QED BY <1>3, <1>4 DEF Fread

(* Bytes that follow each other in the file still do when some of them are *)
(* moved from the buffer to the caller.                                    *)
LEMMA Moved ==
  ASSUME NEW d \in Seq(Nat), NEW b \in Seq(Nat), NEW n \in 0 .. Len(b), NEW at \in Nat,
         content \in Seq(Nat), InFile(d, at), InFile(b, at + Len(d))
  PROVE  /\ d \o SubSeq(b, 1, n) \in Seq(Nat) /\ Len(d \o SubSeq(b, 1, n)) = Len(d) + n
         /\ InFile(d \o SubSeq(b, 1, n), at)
         /\ SubSeq(b, n + 1, Len(b)) \in Seq(Nat) /\ Len(SubSeq(b, n + 1, Len(b))) = Len(b) - n
         /\ InFile(SubSeq(b, n + 1, Len(b)), at + Len(d) + n)
<1> DEFINE first == SubSeq(b, 1, n)
           rest == SubSeq(b, n + 1, Len(b))
<1>1. Len(d) \in Nat /\ Len(b) \in Nat /\ n \in Nat /\ n <= Len(b)
  OBVIOUS
<1>2. first \in Seq(Nat) /\ Len(first) = n /\ \A k \in 1 .. n : first[k] = b[k]
  BY <1>1, SubSeqProperties
<1>3. rest \in Seq(Nat) /\ Len(rest) = Len(b) - n /\ \A k \in 1 .. Len(b) - n : rest[k] = b[n + k]
  <2>1. \A i \in n + 1 .. Len(b) : b[i] \in Nat
    BY <1>1, ElementOfSeq
  <2>2. /\ rest \in Seq(Nat)
        /\ Len(rest) = IF n + 1 <= Len(b) THEN Len(b) - (n + 1) + 1 ELSE 0
        /\ \A i \in 1 .. Len(b) - (n + 1) + 1 : rest[i] = b[n + 1 + i - 1]
    <3>1. n + 1 \in Int /\ Len(b) \in Int
      BY <1>1
    <3> QED BY <2>1, <3>1, SubSeqProperties
  <2> QED BY <1>1, <2>2
<1> HIDE DEF first, rest
<1>4. /\ d \o first \in Seq(Nat) /\ Len(d \o first) = Len(d) + n
      /\ \A i \in 1 .. Len(d) + n : (d \o first)[i] = IF i <= Len(d) THEN d[i] ELSE first[i - Len(d)]
  BY <1>2, ConcatProperties
<1>5. d # <<>> => Len(d) # 0
  BY EmptySeq
<1>6. b # <<>> <=> Len(b) # 0
  BY EmptySeq
<1>7. InFile(d \o first, at)
  <2>1. ASSUME NEW k \in 1 .. Len(d) + n PROVE (d \o first)[k] = content[at + k]
    <3>1. CASE k <= Len(d)
      BY <1>1, <1>4, <3>1 DEF InFile
    <3>2. CASE ~ (k <= Len(d))
      <4>1. k - Len(d) \in 1 .. n /\ k - Len(d) \in 1 .. Len(b) /\ at + Len(d) + (k - Len(d)) = at + k
        BY <1>1, <3>2
      <4>2. (d \o first)[k] = b[k - Len(d)]
        BY <1>1, <1>2, <1>4, <3>2, <4>1
      <4>3. b[k - Len(d)] = content[at + Len(d) + (k - Len(d))]
        BY <4>1 DEF InFile
      <4>4. content[at + Len(d) + (k - Len(d))] = content[at + k]
        BY <4>1, Zenon
      <4> QED BY <4>2, <4>3, <4>4, Zenon
    <3> QED BY <3>1, <3>2
  <2>2. d \o first # <<>> => at + Len(d) + n <= Len(content)
    <3>1. CASE n = 0 /\ Len(d) = 0
      <4>1. Len(d \o first) = 0
        BY <1>4, <3>1
      <4> QED BY <1>4, <4>1, EmptySeq
    <3>2. CASE n = 0 /\ Len(d) # 0
      BY <1>1, <3>2 DEF InFile
    <3>3. CASE n # 0
      <4>1. at + Len(d) + Len(b) <= Len(content) /\ Len(content) \in Nat
        BY <1>1, <1>6, <3>3 DEF InFile
      <4> QED BY <1>1, <4>1
    <3> QED BY <3>1, <3>2, <3>3
  <2>3. at + Len(d \o first) = at + Len(d) + n
    BY <1>1, <1>4
  <2> QED BY <1>4, <2>1, <2>2, <2>3 DEF InFile
<1>8. InFile(rest, at + Len(d) + n)
  <2>1. ASSUME NEW k \in 1 .. Len(b) - n PROVE rest[k] = content[at + Len(d) + n + k]
    <3>1. n + k \in 1 .. Len(b) /\ at + Len(d) + (n + k) = at + Len(d) + n + k
      BY <1>1
    <3> QED BY <1>3, <3>1 DEF InFile
  <2>2. rest # <<>> => b # <<>>
    BY <1>1, <1>3, <1>6, EmptySeq
  <2>3. at + Len(d) + n + (Len(b) - n) = at + Len(d) + Len(b)
    BY <1>1
  <2> QED BY <1>1, <1>3, <2>1, <2>2, <2>3 DEF InFile
<1> QED BY <1>3, <1>4, <1>7, <1>8 DEF first, rest

LEMMA FreadCopyInv ==
  ASSUME IInv, FreadCopy
  PROVE  IInv'
<1>0. PICK n, data, at : /\ n = AtMost(Len(buf), call.total - Len(call.data))
                        /\ data = call.data \o SubSeq(buf, 1, n)
                        /\ at = offset - Len(buf) - Len(call.data)
  OBVIOUS
<1>1. /\ InFread /\ mode # "none" /\ mode \in Mode \ Writing /\ Len(call.data) < call.total
      /\ UNCHANGED <<content, mode, write_flag, large, calls>>
  <2>1. call.op = "fread"
    BY DEF FreadCopy
  <2> QED BY <2>1, Bounds DEF FreadCopy, IInv, InFwrite, NoCall, Idle, InFread
<1>2. /\ call.total \in Nat /\ call.data \in Seq(Nat) /\ call.count \in Nat
      /\ Len(call.data) \in Nat /\ Len(call.data) <= call.total
      /\ buf \in Seq(Nat) /\ Len(buf) \in Nat /\ offset \in Nat /\ content \in Seq(Nat)
      /\ BUFSIZE \in Nat \ {0}
  BY <1>1, BufsizeAssumption DEF InFread, IInv, TypeOK
<1>3. at \in Nat /\ InFile(call.data, at) /\ InFile(buf, at + Len(call.data))
  <2>1. InFile(call.data, at) /\ at \in Nat
    BY <1>0, <1>1 DEF InFread, InFile
  <2>2. InFile(buf, offset - Len(buf))
    BY <1>1 DEF IInv, BufferIsCurrent, InFread
  <2>3. at + Len(call.data) = offset - Len(buf)
    BY <1>0, <1>2
  <2> QED BY <2>1, <2>2, <2>3
<1>4. n \in 0 .. Len(buf) /\ Len(call.data) + n <= call.total
  <2>1. n = AtMost(Len(buf), call.total - Len(call.data))
    BY <1>0
  <2> QED BY <1>2, <2>1 DEF AtMost
<1>5. /\ data \in Seq(Nat) /\ Len(data) = Len(call.data) + n
      /\ InFile(data, at)
      /\ SubSeq(buf, n + 1, Len(buf)) \in Seq(Nat) /\ Len(SubSeq(buf, n + 1, Len(buf))) = Len(buf) - n
      /\ InFile(SubSeq(buf, n + 1, Len(buf)), at + Len(call.data) + n)
  <2>1. data = call.data \o SubSeq(buf, 1, n)
    BY <1>0
  <2>2. /\ call.data \o SubSeq(buf, 1, n) \in Seq(Nat)
        /\ Len(call.data \o SubSeq(buf, 1, n)) = Len(call.data) + n
        /\ InFile(call.data \o SubSeq(buf, 1, n), at)
        /\ SubSeq(buf, n + 1, Len(buf)) \in Seq(Nat) /\ Len(SubSeq(buf, n + 1, Len(buf))) = Len(buf) - n
        /\ InFile(SubSeq(buf, n + 1, Len(buf)), at + Len(call.data) + n)
    <3>1. n \in 0 .. Len(buf)
      BY <1>4
    <3>2. /\ call.data \in Seq(Nat) /\ buf \in Seq(Nat) /\ content \in Seq(Nat) /\ at \in Nat
          /\ InFile(call.data, at) /\ InFile(buf, at + Len(call.data))
      BY <1>2, <1>3
    <3> QED BY <3>1, <3>2, Moved
  <2> QED BY <2>1, <2>2
<1>6. IF n < Len(buf)
      THEN /\ buf' = SubSeq(buf, n + 1, Len(buf))
           /\ call' = [call EXCEPT !.data = data]
           /\ UNCHANGED <<offset, eof, ptr, result, unsynced, failures>>
      ELSE /\ FillBuffer(call.total, call.count)
           /\ IF buf' = <<>>
              THEN FreadReturns(data, call.total)
              ELSE /\ call' = [call EXCEPT !.data = data, !.count = @ + 1]
                   /\ UNCHANGED <<result, unsynced>>
  BY <1>0 DEF FreadCopy
<1>7. \/ call.total < BUFSIZE /\ call.count > 0
      \/ call.count <= (Len(call.data) + Len(buf)) \div BUFSIZE
      \/ offset >= Len(content)
  BY <1>1 DEF InFread
<1>8. calls' \in 0 .. MaxCalls
  BY <1>1 DEF IInv, TypeOK
<1>9. CASE n < Len(buf)
  <2>1. /\ buf' = SubSeq(buf, n + 1, Len(buf)) /\ Len(buf') = Len(buf) - n
        /\ UNCHANGED <<offset, eof, ptr, result, unsynced, failures>>
    BY <1>5, <1>6, <1>9
  <2>10. buf' \in Seq(Nat) /\ Len(buf') <= BUFSIZE
    <3>1. Len(buf) <= BUFSIZE
      BY DEF IInv, TypeOK
    <3> QED BY <1>2, <1>4, <1>5, <2>1, <3>1, SMTT(30)
  <2>2. StreamType'
    BY <1>1, <2>1, <2>10 DEF StreamType, IInv, TypeOK
  <2>3. FlagsType' /\ result'.op \in {"none", "fread", "fwrite"}
    BY <1>1, <2>1 DEF FlagsType, IInv, TypeOK
  <2>4. large' \in 0 .. LargeWrites /\ failures' \in 0 .. MaxFailures
    BY <1>1, <2>1 DEF IInv, TypeOK
  <2>5. call' = [op |-> "fread", total |-> call.total, data |-> data, count |-> call.count]
    BY <1>1, <1>6, <1>9 DEF InFread
  <2>6. offset' - Len(buf') = at + Len(call.data) + n /\ offset' - Len(buf') - Len(data) = at
    <3>1. offset - (Len(buf) - n) = (offset - Len(buf) - Len(call.data)) + Len(call.data) + n
      BY <1>2, <1>4
    <3>2. offset - (Len(buf) - n) - (Len(call.data) + n) = offset - Len(buf) - Len(call.data)
      BY <1>2, <1>4
    <3> QED BY <1>0, <1>5, <2>1, <3>1, <3>2
  <2>7. InFile(data, offset - Len(buf) - Len(data))' /\ InFile(buf, offset - Len(buf))'
    <3>1. InFile(data, at)' <=> InFile(data, at)
      BY <1>1 DEF InFile
    <3>2. InFile(buf', offset' - Len(buf'))
      BY <1>5, <2>1, <2>6
    <3>3. InFile(buf, offset - Len(buf))' <=> InFile(buf', offset' - Len(buf'))
      BY <1>1 DEF InFile
    <3> QED BY <1>5, <2>6, <3>1, <3>2, <3>3
  <2>8. Len(data) + Len(buf') = Len(call.data) + Len(buf) /\ buf' # <<>>
    <3>1. (Len(call.data) + n) + (Len(buf) - n) = Len(call.data) + Len(buf) /\ Len(buf) - n # 0
      BY <1>2, <1>4, <1>9
    <3> QED BY <1>5, <2>1, <3>1
  <2>9. \/ call.total < BUFSIZE /\ call.count > 0
        \/ call.count <= (Len(data) + Len(buf')) \div BUFSIZE
        \/ offset' >= Len(content')
    BY <1>1, <1>7, <2>1, <2>8
  <2> QED BY <1>1, <1>2, <1>4, <1>5, <1>8, <2>2, <2>3, <2>4, <2>5, <2>7, <2>8, <2>9, GoesOnInv
<1>10. CASE ~ (n < Len(buf))
  <2>1. n = Len(buf) /\ Len(data) = Len(call.data) + Len(buf) /\ Len(data) <= call.total
        /\ Len(data) \in Nat /\ at + Len(data) = offset
    <3>1. n = Len(buf)
      BY <1>2, <1>4, <1>10
    <3>2. Len(data) = Len(call.data) + Len(buf)
      BY <1>5, <3>1
    <3>3. Len(data) <= call.total
      BY <1>4, <1>5
    <3>4. at + (Len(call.data) + Len(buf)) = offset
      BY <1>0, <1>2
    <3> QED BY <1>2, <3>1, <3>2, <3>3, <3>4
  <2>2. FillBuffer(call.total, call.count)
    BY <1>6, <1>10
  <2>3. /\ StreamType' /\ large' \in 0 .. LargeWrites /\ failures' \in 0 .. MaxFailures
        /\ ptr' \in BOOLEAN /\ eof' \in BOOLEAN /\ write_flag' \in BOOLEAN
        /\ InFile(buf, offset - Len(buf))'
        /\ offset' - Len(buf') = offset
    BY <1>1, <1>2, <2>2, FilledType
  <2>4. /\ 0 < call.total /\ buf' = <<>> => offset' >= Len(content) \/ Failed
        /\ \/ call.total < BUFSIZE
           \/ Len(buf') = BUFSIZE /\ call.count <= call.total \div BUFSIZE
           \/ offset' >= Len(content)
           \/ Failed /\ buf' = <<>>
    BY <1>2, <1>7, <2>1, <2>2, RoundFills DEF IInv
  <2>5. CASE buf' = <<>>
    <3>1. FreadReturns(data, call.total) /\ unsynced' \in BOOLEAN /\ eof'
      BY <1>2, <1>6, <1>10, <2>2, <2>5, FillProperties DEF FreadReturns, IInv
    <3>2. FlagsType'
      BY <2>3, <3>1 DEF FlagsType
    <3> QED BY <1>1, <1>2, <1>5, <1>8, <2>1, <2>3, <2>4, <2>5, <3>1, <3>2, ReturnsInv
  <2>6. CASE buf' # <<>>
    <3>1. /\ call' = [op |-> "fread", total |-> call.total, data |-> data, count |-> call.count + 1]
          /\ UNCHANGED <<result, unsynced>>
      BY <1>1, <1>6, <1>10, <2>6 DEF InFread
    <3>2. FlagsType' /\ result'.op \in {"none", "fread", "fwrite"}
      BY <2>3, <3>1 DEF FlagsType, IInv, TypeOK
    <3>3. InFile(data, offset - Len(buf) - Len(data))'
      <4>1. offset' - Len(buf') - Len(data) = at
        <5>1. offset - (Len(call.data) + Len(buf)) = offset - Len(buf) - Len(call.data)
          BY <1>2
        <5> QED BY <1>0, <2>1, <2>3, <5>1
      <4> QED BY <1>1, <1>5, <4>1 DEF InFile
    <3>4. \/ call.total < BUFSIZE /\ call.count + 1 > 0
          \/ call.count + 1 <= (Len(data) + Len(buf')) \div BUFSIZE
          \/ offset' >= Len(content')
      <4>1. CASE Len(buf') = BUFSIZE /\ call.count <= Len(data) \div BUFSIZE
        <5>1. (Len(data) + BUFSIZE) \div BUFSIZE = (Len(data) \div BUFSIZE) + 1 /\ Len(data) \div BUFSIZE \in Nat
          <6>1. \A x \in Nat : (x + BUFSIZE) \div BUFSIZE = (x \div BUFSIZE) + 1 /\ x \div BUFSIZE \in Nat
            BY BufsizeAssumption
          <6> QED BY <2>1, <6>1
        <5> QED BY <1>2, <4>1, <5>1
      <4>2. CASE offset >= Len(content)
        <5>1. offset' \in Nat /\ Len(buf') \in Nat /\ Len(content) \in Nat
          BY <1>2, <2>3 DEF StreamType
        <5>2. offset' >= Len(content)
          BY <1>2, <2>3, <4>2, <5>1
        <5> QED BY <1>1, <5>2
      <4>3. CASE offset' >= Len(content)
        BY <1>1, <4>3
      <4>4. CASE call.total < BUFSIZE
        BY <1>2, <4>4
      <4> QED BY <1>7, <2>1, <2>4, <2>6, <4>1, <4>2, <4>3, <4>4
    <3>5. call.count + 1 \in Nat
      BY <1>2
    <3> QED BY <1>1, <1>2, <1>5, <1>8, <2>1, <2>3, <2>6, <3>1, <3>2, <3>3, <3>4, <3>5, GoesOnInv
  <2> QED BY <2>5, <2>6
<1> QED BY <1>9, <1>10

LEMMA FreadDoneInv ==
  ASSUME IInv, FreadDone
  PROVE  IInv'
<1>1. InFread
  <2>1. call.op = "fread"
    BY DEF FreadDone
  <2> QED BY <2>1 DEF IInv, InFwrite, NoCall, Idle
<1>2. /\ call.data \in Seq(Nat) /\ call.total \in Nat /\ Len(call.data) = call.total
      /\ FreadReturns(call.data, call.total)
      /\ UNCHANGED <<streamVars, large, calls, failures>>
  BY <1>1 DEF InFread, FreadDone, Succeeds
<1>3. StreamType' /\ calls' \in 0 .. MaxCalls /\ large' \in 0 .. LargeWrites
        /\ failures' \in 0 .. MaxFailures
  BY <1>2, TypeParts DEF IInv, StreamType, CallsType, streamVars
<1>4. FlagsType'
  <2>1. unsynced' \in BOOLEAN
    BY <1>2 DEF FreadReturns
  <2> QED BY <1>2, <2>1, TypeParts DEF IInv, FlagsType, streamVars
<1>5. InFile(buf, offset - Len(buf))'
  <2>1. InFile(buf, offset - Len(buf))
    BY <1>1, Bounds DEF InFread, IInv, BufferIsCurrent
  <2> QED BY <1>2, <2>1 DEF InFile, streamVars
<1>6. ~ (Len(call.data) < call.total) /\ Len(call.data) <= call.total /\ mode' \notin Writing
  BY <1>1, <1>2 DEF InFread, streamVars
<1> QED BY <1>2, <1>3, <1>4, <1>5, <1>6, ReturnsInv
-----------------------------------------------------------------------------
(***************************************************************************)
(* fwrite                                                                  *)
(***************************************************************************)

(* What a write to the file leaves of the types, whatever is in the buffer *)
(* after it.                                                               *)
LEMMA WrittenType ==
  ASSUME IInv, NEW d \in Seq(Nat), WriteFile(d), mode' = mode,
         buf' \in Seq(Nat), Len(buf') <= BUFSIZE
  PROVE  StreamType' /\ failures' \in 0 .. MaxFailures
<1>1. content' \in Seq(Nat) /\ offset' \in Nat /\ failures' \in 0 .. MaxFailures
  BY WriteFileProperties DEF IInv
<1> QED BY <1>1 DEF IInv, TypeOK, StreamType

(* An fwrite that returns, with an empty buffer.                           *)
LEMMA FwriteReturnsInv ==
  ASSUME StreamType', ptr' \in BOOLEAN, eof' \in BOOLEAN, write_flag' \in BOOLEAN,
         calls' \in 0 .. MaxCalls, large' \in 0 .. LargeWrites, failures' \in 0 .. MaxFailures,
         NEW n, NEW total, NEW at, NEW failure, FwriteReturns(n, total, at, failure),
         buf' = <<>>
  PROVE  IInv'
<1>1. call' = Idle /\ result'.op = "fwrite" /\ unsynced' = FALSE
  BY DEF FwriteReturns
<1>2. FlagsType' /\ CallsType'
  BY <1>1 DEF FlagsType, CallsType, Idle
<1>3. TypeOK'
  BY <1>2, TypeParts
<1>4. NoCall'
  BY <1>1 DEF NoCall
<1>5. BufferIsCurrent'
  BY EmptyInFile DEF BufferIsCurrent, StreamType
<1>6. ShortReadIsEof'
  BY <1>1 DEF ShortReadIsEof
<1> QED BY <1>3, <1>4, <1>5, <1>6 DEF IInv

LEMMA SmallFwriteInv ==
  ASSUME IInv, NEW n \in WriteSizes, SmallFwrite(n)
  PROVE  IInv'
<1>1. /\ NoCall /\ ~unsynced /\ mode \in Mode /\ mode # "none" /\ buf = <<>>
      /\ UNCHANGED <<mode, buf, ptr, eof, write_flag, large>>
      /\ calls' \in 0 .. MaxCalls
  BY Between, Bounds DEF SmallFwrite, Called, NoCall, IInv, TypeOK
<1>2. ptr' \in BOOLEAN /\ eof' \in BOOLEAN /\ write_flag' \in BOOLEAN /\ large' \in 0 .. LargeWrites
  BY <1>1 DEF IInv, TypeOK
<1>3. buf' = <<>> /\ buf' \in Seq(Nat) /\ Len(buf') <= BUFSIZE
  BY <1>1, Bounds
<1>4. CASE mode = "r"
  <2>1. FwriteReturns(0, 0, offset, "none") /\ UNCHANGED <<content, offset, failures>>
    BY <1>4 DEF SmallFwrite
  <2>2. StreamType' /\ failures' \in 0 .. MaxFailures
    BY <1>1, <1>3, <2>1 DEF IInv, TypeOK, StreamType
  <2> QED BY <1>1, <1>2, <1>3, <2>1, <2>2, FwriteReturnsInv
<1>5. CASE mode # "r"
  <2>1. /\ WriteFile(Data(n))
        /\ FwriteReturns(IF Failed THEN -1 ELSE n, n, WritePosition, Failure)
    BY <1>5 DEF SmallFwrite
  <2>2. StreamType' /\ failures' \in 0 .. MaxFailures
    BY <1>1, <1>3, <2>1, WrittenType, DataProperties, SizesAssumption
  <2> QED BY <1>1, <1>2, <1>3, <2>1, <2>2, FwriteReturnsInv
<1> QED BY <1>4, <1>5

(* An updated buffer: written to the file unless that failed.              *)
LEMMA UpdatedType ==
  ASSUME IInv, NEW total \in WriteSizes, NEW count \in Nat, NEW done \in 0 .. total,
         UpdateBuffer(total, count, done), mode' = mode
  PROVE  /\ StreamType' /\ failures' \in 0 .. MaxFailures
         /\ ptr' \in BOOLEAN /\ write_flag' \in BOOLEAN
         /\ done + Len(buf') <= total
         /\ buf' # <<>> => ptr'
         /\ buf' # <<>> /\ ~Failed => InFile(buf, offset - Len(buf))'
         /\ ptr /\ Failed => buf' = <<>>
<1>1. total \in Nat
  BY SizesAssumption
<1>2. PICK d : d = Slice(Data(total), done, done + WriteBytes(total, count))
  OBVIOUS
<1>3. /\ d \in Seq(Nat) /\ Len(d) <= BUFSIZE /\ done + Len(d) <= total
      /\ WriteFile(d)
      /\ buf' \in {<<>>, d}
      /\ {ptr', write_flag'} \subseteq BOOLEAN
      /\ buf' # <<>> => ptr'
      /\ ptr /\ Failed => buf' = <<>>
  BY <1>1, <1>2, UpdateProperties DEF IInv
<1>4. buf' \in Seq(Nat) /\ Len(buf') <= BUFSIZE /\ done + Len(buf') <= total
  <2>1. CASE buf' = d
    BY <1>3, <2>1
  <2>2. CASE buf' = <<>>
    <3>1. buf' \in Seq(Nat) /\ Len(buf') = 0
      BY <2>2
    <3> QED BY <1>1, <3>1, Bounds
  <2> QED BY <1>3, <2>1, <2>2
<1>5. StreamType' /\ failures' \in 0 .. MaxFailures
  BY <1>3, <1>4, WrittenType
<1>6. ASSUME buf' # <<>>, ~Failed
      PROVE  InFile(buf, offset - Len(buf))'
  <2>1. buf' = d /\ d # <<>>
    BY <1>3, <1>6
  <2>2. InFile(d, offset - Len(d))'
    BY <1>3, <1>6, <2>1, WriteFileProperties DEF IInv
  <2> QED BY <2>1, <2>2
<1> QED BY <1>3, <1>4, <1>5, <1>6

(* An fwrite that goes on.                                                 *)
LEMMA FwriteGoesOnInv ==
  ASSUME StreamType', FlagsType', calls' \in 0 .. MaxCalls, large' \in 0 .. LargeWrites,
         failures' \in 0 .. MaxFailures, result' = NoResult,
         NEW total \in WriteSizes, NEW done \in Nat, NEW count \in Nat, NEW at \in Nat,
         NEW failure \in {"none", "unnoticed"},
         call' = [op |-> "fwrite", total |-> total, done |-> done, count |-> count,
                  at |-> at, failure |-> failure],
         mode' \in Mode \ {"r"}, ptr', buf' # <<>>, done + Len(buf') <= total,
         failure = "none" => InFile(buf, offset - Len(buf))'
  PROVE  IInv'
<1>1. call'.op = "fwrite" /\ call'.failure = failure /\ call'.total = total /\ call'.done = done
  OBVIOUS
<1>2. TypeOK'
  BY <1>1, TypeParts DEF CallsType, NoResult
<1>3. InFwrite'
  <2>1. call' \in [op : {"fwrite"}, total : Nat, done : Nat, count : Nat, at : Nat,
                   failure : {"none", "unnoticed"}]
    BY SizesAssumption
  <2> QED BY <1>1, <2>1 DEF InFwrite
<1>4. BufferIsCurrent'
  BY <1>1 DEF BufferIsCurrent
<1>5. ShortReadIsEof'
  BY DEF ShortReadIsEof, NoResult
<1> QED BY <1>2, <1>3, <1>4, <1>5 DEF IInv

LEMMA LargeFwriteInv ==
  ASSUME IInv, NEW n \in WriteSizes, LargeFwrite(n)
  PROVE  IInv'
<1>1. /\ mode \in Mode \ {"r"} /\ UNCHANGED <<mode, eof>>
      /\ calls' \in 0 .. MaxCalls /\ large' \in 0 .. LargeWrites
      /\ UpdateBuffer(n, 1, 0)
  BY Bounds DEF LargeFwrite, Called, IInv, TypeOK
<1>2. n \in Nat /\ 1 \in Nat /\ 0 \in 0 .. n /\ 0 \in Nat
  BY SizesAssumption
<1>3. /\ StreamType' /\ failures' \in 0 .. MaxFailures
      /\ ptr' \in BOOLEAN /\ write_flag' \in BOOLEAN
      /\ 0 + Len(buf') <= n
      /\ buf' # <<>> => ptr'
      /\ buf' # <<>> /\ ~Failed => InFile(buf, offset - Len(buf))'
  BY <1>1, <1>2, UpdatedType
<1>4. eof' \in BOOLEAN /\ unsynced \in BOOLEAN
  BY <1>1 DEF IInv, TypeOK
<1>5. CASE buf' = <<>>
  <2>1. FwriteReturns(0, n, WritePosition, Failure)
    BY <1>5 DEF LargeFwrite
  <2> QED BY <1>1, <1>3, <1>4, <1>5, <2>1, FwriteReturnsInv
<1>6. CASE buf' # <<>>
  <2>1. PICK at, failure :
          /\ at = WritePosition
          /\ failure = IF Failed THEN "unnoticed" ELSE "none"
    OBVIOUS
  <2>2. /\ call' = [op |-> "fwrite", total |-> n, done |-> 0, count |-> 1, at |-> at, failure |-> failure]
        /\ result' = NoResult /\ unsynced' = unsynced
    BY <1>6, <2>1 DEF LargeFwrite
  <2>3. at \in Nat
    BY <2>1 DEF WritePosition, IInv, TypeOK
  <2>4. FlagsType'
    BY <1>3, <1>4, <2>2 DEF FlagsType
  <2>5. failure \in {"none", "unnoticed"} /\ (failure = "none" => ~Failed)
    BY <2>1
  <2> QED BY <1>1, <1>2, <1>3, <1>6, <2>2, <2>3, <2>4, <2>5, FwriteGoesOnInv
<1> QED BY <1>5, <1>6

LEMMA FwriteCopyInv ==
  ASSUME IInv, FwriteCopy
  PROVE  IInv'
<1>1. InFwrite
  <2>1. call.op = "fwrite"
    BY DEF FwriteCopy
  <2> QED BY <2>1 DEF IInv, InFread, NoCall, Idle
<1>2. PICK done : done = call.done + Len(buf)
  OBVIOUS
<1>3. /\ call.total \in WriteSizes /\ call.total \in Nat /\ call.count + 1 \in Nat /\ call.count + 2 \in Nat
      /\ call.at \in Nat /\ call.failure \in {"none", "unnoticed"}
      /\ done \in 0 .. call.total /\ done \in Nat
      /\ ptr /\ result = NoResult /\ mode \in Mode \ {"r"}
  BY <1>1, <1>2 DEF InFwrite, IInv, TypeOK
<1>4. /\ UpdateBuffer(call.total, call.count + 1, done)
      /\ UNCHANGED <<mode, eof, large, calls>>
  BY <1>2 DEF FwriteCopy
<1>5. /\ StreamType' /\ failures' \in 0 .. MaxFailures
      /\ ptr' \in BOOLEAN /\ write_flag' \in BOOLEAN
      /\ done + Len(buf') <= call.total
      /\ buf' # <<>> => ptr'
      /\ buf' # <<>> /\ ~Failed => InFile(buf, offset - Len(buf))'
      /\ ptr /\ Failed => buf' = <<>>
  BY <1>3, <1>4, UpdatedType
<1>6. /\ eof' \in BOOLEAN /\ unsynced \in BOOLEAN
      /\ calls' \in 0 .. MaxCalls /\ large' \in 0 .. LargeWrites
  BY <1>4 DEF IInv, TypeOK
<1>7. CASE buf' = <<>> \/ done = call.total
  <2>1. FwriteReturns(done, call.total, call.at,
                      IF call.failure = "unnoticed" THEN call.failure ELSE Failure)
    BY <1>2, <1>7 DEF FwriteCopy
  <2>2. done = call.total => Len(buf') = 0
    BY <1>3, <1>5 DEF StreamType
  <2>3. buf' = <<>>
    BY <1>5, <1>7, <2>2, EmptySeq DEF StreamType
  <2> QED BY <1>4, <1>5, <1>6, <2>1, <2>3, FwriteReturnsInv
<1>8. CASE ~ (buf' = <<>> \/ done = call.total)
  <2>1. /\ call' = [op |-> "fwrite", total |-> call.total, done |-> done, count |-> call.count + 2,
                    at |-> call.at, failure |-> call.failure]
        /\ result' = result /\ unsynced' = unsynced
    BY <1>1, <1>2, <1>8 DEF FwriteCopy, InFwrite
  <2>2. FlagsType'
    BY <1>5, <1>6, <2>1 DEF FlagsType
  <2>3. ptr' /\ buf' # <<>> /\ InFile(buf, offset - Len(buf))' /\ mode' \in Mode \ {"r"}
    BY <1>3, <1>4, <1>5, <1>8
  <2> QED BY <1>3, <1>5, <1>6, <2>1, <2>2, <2>3, FwriteGoesOnInv
<1> QED BY <1>7, <1>8
-----------------------------------------------------------------------------
(***************************************************************************)
(* The theorems                                                            *)
(***************************************************************************)
LEMMA StutterInv ==
  ASSUME IInv, UNCHANGED vars
  PROVE  IInv'
<1>1. TypeOK'
  <2>1. StreamType' /\ CallsType'
    BY TypeParts DEF IInv, StreamType, CallsType, vars, streamVars
  <2>2. FlagsType'
    BY TypeParts DEF IInv, FlagsType, vars, streamVars
  <2> QED BY <2>1, <2>2, TypeParts
<1>2. (InFread \/ InFwrite \/ NoCall)'
  BY DEF IInv, InFread, InFwrite, NoCall, InFile, vars, streamVars
<1>3. BufferIsCurrent'
  BY DEF IInv, BufferIsCurrent, InFile, vars, streamVars
<1>4. ShortReadIsEof'
  BY DEF IInv, ShortReadIsEof, vars, streamVars
<1> QED BY <1>1, <1>2, <1>3, <1>4 DEF IInv

(* The invariant that the theorems rest on: what an fread has handed out   *)
(* and what is still in the buffer follow each other in the file.          *)
THEOREM InvCorrect == Spec => []IInv
<1>1. Init => IInv
  BY InitInv
<1>2. IInv /\ [Next]_vars => IInv'
  <2> SUFFICES ASSUME IInv, [Next]_vars PROVE IInv'
    OBVIOUS
  <2> QED
    BY StutterInv, FopenInv, FcloseInv, FreadInv, FreadRefusedInv, SmallFwriteInv, LargeFwriteInv,
       FreadCopyInv, FreadDoneInv, FwriteCopyInv, FseekInv, FflushInv DEF Next
<1> QED BY <1>1, <1>2, PTL DEF Spec

(* The type invariant of a stream with a buffer of any size.               *)
THEOREM TypeCorrect == Spec => []TypeOK
<1>1. IInv => TypeOK
  BY DEF IInv
<1> QED BY <1>1, InvCorrect, PTL

(* No read is stale: what is in the buffer is what the file holds before   *)
(* the offset, and between calls only an fread that got all it asked for   *)
(* leaves anything there.                                                  *)
THEOREM NothingUnreadCorrect == Spec => []NothingUnread
<1>1. IInv => NothingUnread
  <2> SUFFICES ASSUME IInv PROVE NothingUnread
    OBVIOUS
  <2>1. ASSUME mode # "none", ~(call.op = "fwrite" /\ call.failure = "unnoticed")
        PROVE  Len(buf) <= offset /\ buf = SubSeq(content, offset - Len(buf) + 1, offset)
    <3>1. /\ buf \in Seq(Nat) /\ content \in Seq(Nat) /\ offset \in Nat
          /\ InFile(buf, offset - Len(buf))
      BY <2>1 DEF IInv, BufferIsCurrent, TypeOK
    <3>2. offset - Len(buf) \in Nat /\ offset - Len(buf) + Len(buf) = offset
      BY <3>1 DEF InFile
    <3>3. buf = SubSeq(content, offset - Len(buf) + 1, offset - Len(buf) + Len(buf))
      BY <3>1, InFileIsSubSeq
    <3> QED BY <3>1, <3>2, <3>3
  <2>2. call = Idle /\ mode # "none" /\ ~unsynced => buf = <<>>
    BY Between DEF NoCall
  <2> QED BY <2>1, <2>2 DEF NothingUnread
<1> QED BY <1>1, InvCorrect, PTL

(* A short fread means the end of the file or a failed read, and feof says *)
(* so, whatever is asked for and whatever the buffer holds.                *)
THEOREM ShortReadIsEofCorrect == Spec => []ShortReadIsEof
<1>1. IInv => ShortReadIsEof
  BY DEF IInv
<1> QED BY <1>1, InvCorrect, PTL

(* feof is not raised before the end of the file, but for a failed read or *)
(* an fread of no bytes.                                                   *)
THEOREM EofOnlyAtEndCorrect == Spec => EofOnlyAtEnd
<1> DEFINE AtEnd == ~eof /\ eof' =>
                      /\ buf' = <<>>
                      /\ offset' >= Len(content) \/ Failed \/ (result'.op = "fread" /\ result'.total = 0)
<1>1. ASSUME IInv, [Next]_vars PROVE AtEnd
  <2> SUFFICES ASSUME ~eof, eof'
               PROVE  /\ buf' = <<>>
                      /\ offset' >= Len(content) \/ Failed \/ (result'.op = "fread" /\ result'.total = 0)
    BY DEF AtEnd
  <2>1. ASSUME NEW n \in ReadSizes, Fread(n)
        PROVE  AtEnd
    <3>1. buf = <<>> /\ FillBuffer(n, 1)
      BY <2>1 DEF Fread
    <3>2. n \in Nat /\ 1 \in Nat /\ (n < BUFSIZE \/ 1 <= n \div BUFSIZE)
      BY SizesAssumption, BufsizeAssumption
    <3>3. buf' = <<>>
      BY <1>1, <3>1, <3>2, FillProperties DEF IInv
    <3>4. 0 < n => offset' >= Len(content) \/ Failed
      BY <1>1, <3>1, <3>2, <3>3, RoundFills DEF IInv
    <3>5. result'.op = "fread" /\ result'.total = n
      BY <2>1, <3>1, <3>3 DEF Fread, FreadReturns
    <3> QED BY <3>2, <3>3, <3>4, <3>5
  <2>2. CASE FreadCopy
    <3>1. PICK n : n = AtMost(Len(buf), call.total - Len(call.data))
      OBVIOUS
    <3>2. ~ (n < Len(buf)) /\ FillBuffer(call.total, call.count) /\ Len(call.data) < call.total
      BY <2>2, <3>1 DEF FreadCopy
    <3>3. InFread
      BY <1>1, <2>2 DEF FreadCopy, IInv, InFwrite, NoCall, Idle
    <3>4. PICK d : d = Len(call.data) + Len(buf)
      OBVIOUS
    <3>5. /\ call.total \in Nat /\ call.count \in Nat /\ 0 < call.total
          /\ d \in Nat /\ d <= call.total
      <4>1. /\ call.total \in Nat /\ call.count \in Nat
            /\ Len(call.data) \in Nat /\ Len(buf) \in Nat
        BY <1>1, <3>3 DEF InFread, IInv, TypeOK
      <4> QED BY <3>1, <3>2, <3>4, <4>1 DEF AtMost
    <3>6. buf' = <<>>
      BY <1>1, <3>2, <3>5, FillProperties DEF IInv
    <3>7. \/ call.total < BUFSIZE /\ call.count > 0
          \/ call.count <= d \div BUFSIZE
          \/ offset >= Len(content)
      BY <3>3, <3>4 DEF InFread
    <3> QED BY <1>1, <3>2, <3>5, <3>6, <3>7, RoundFills DEF IInv
  <2>3. CASE UNCHANGED eof
    BY <2>3
  <2>4. UNCHANGED eof \/ eof' = FALSE \/ FreadCopy \/ (\E n \in ReadSizes : Fread(n))
    <3>1. UNCHANGED vars => UNCHANGED eof
      BY DEF vars, streamVars
    <3>2. ASSUME NEW n \in WriteSizes, SmallFwrite(n) \/ LargeFwrite(n) PROVE UNCHANGED eof
      BY <3>2 DEF SmallFwrite, LargeFwrite
    <3>3. ASSUME NEW n \in -1 .. 1, NEW whence \in {"SEEK_SET", "SEEK_CUR", "SEEK_END"}, Fseek(n, whence)
          PROVE  UNCHANGED eof
      BY <3>3 DEF Fseek, SeekTo
    <3>4. (\E n \in ReadSizes : FreadRefused(n)) \/ FreadDone \/ FwriteCopy \/ Fclose \/ Fflush => UNCHANGED eof
      BY DEF FreadRefused, FreadDone, FwriteCopy, Fclose, Fflush, streamVars
    <3>5. (\E m \in Mode : Fopen(m)) => eof' = FALSE
      BY DEF Fopen
    <3> QED BY <1>1, <3>1, <3>2, <3>3, <3>4, <3>5 DEF Next
  <2> QED BY <2>1, <2>2, <2>3, <2>4
<1>2. IInv /\ [Next]_vars => [AtEnd]_vars
  BY <1>1
<1> QED BY <1>2, InvCorrect, PTL DEF Spec, EofOnlyAtEnd
-----------------------------------------------------------------------------
(***************************************************************************)
(* The stream implements ByteStream                                        *)
(***************************************************************************)

(* Where the program is in the file, and what the last call gave it.       *)
Pos == offset - (IF call.op = "fwrite" THEN 0 ELSE Len(buf))
              - (IF call.op = "fread" THEN Len(call.data) ELSE 0)

Got == IF result.op = "fread" THEN result.data ELSE <<>>

Chunk == UNION {{Slice(Data(n), i, j) : i, j \in 0 .. n} : n \in WriteSizes}

(* ByteStream's actions in these terms.                                    *)
LEMMA StreamRead ==
  ASSUME NEW d, NEW n \in 0 .. Len(content), d = Slice(content, Pos, Pos + n),
         Got' = d, Pos' = Pos + Len(d), UNCHANGED <<content, mode>>
  PROVE  Stream!Next
<1>1. Stream!Read(n)
  BY DEF Stream!Read, Stream!Slice, Slice, Pos, Got
<1> QED BY <1>1 DEF Stream!Next

LEMMA StreamSeek ==
  ASSUME Pos' \in Nat, Got' = <<>>, UNCHANGED <<content, mode>>
  PROVE  Stream!Next
<1>1. Stream!Seek
  BY DEF Stream!Seek, Pos, Got
<1> QED BY <1>1 DEF Stream!Next

LEMMA StreamWrite ==
  ASSUME NEW d \in Chunk, d # <<>>, Pos = offset,
         content' = Overwrite(content, WritePosition, d), Pos' = WritePosition + Len(d),
         Got' = <<>>, UNCHANGED mode
  PROVE  Stream!Next
<1>1. Stream!Write(d)
  BY DEF Stream!Write, Stream!Overwrite, Overwrite, WritePosition, Pos, Got
<1> QED BY <1>1 DEF Stream!Next, Chunk

LEMMA StreamStutters ==
  ASSUME UNCHANGED <<content, mode, Pos, Got>>
  PROVE  UNCHANGED Stream!vars
BY DEF Stream!vars, Pos, Got

LEMMA PosIs ==
  ASSUME TypeOK
  PROVE  /\ call = Idle => Pos = offset - Len(buf)
         /\ call.op = "fwrite" => Pos = offset
         /\ call.op = "fread" => Pos = offset - Len(buf) - Len(call.data)
<1>1. offset \in Int /\ Len(buf) \in Int
  BY DEF TypeOK
<1>2. call = Idle => Pos = offset - Len(buf)
  BY <1>1 DEF Pos, Idle
<1>3. call.op = "fwrite" => Pos = offset
  BY <1>1 DEF Pos
<1>4. call.op = "fread" => Pos = offset - Len(buf) - Len(call.data)
  BY DEF Pos
<1> QED BY <1>2, <1>3, <1>4

LEMMA PosIsNext ==
  ASSUME TypeOK'
  PROVE  /\ call' = Idle => Pos' = offset' - Len(buf')
         /\ call'.op = "fwrite" => Pos' = offset'
         /\ call'.op = "fread" => Pos' = offset' - Len(buf') - Len(call'.data)
<1>1. offset' \in Int /\ Len(buf') \in Int
  BY DEF TypeOK
<1> QED BY <1>1 DEF Pos, Idle

(* Between calls that follow no fread, the buffer is empty.                *)
LEMMA EmptyBuffer ==
  ASSUME IInv, call = Idle, mode # "none", ~unsynced
  PROVE  buf = <<>> /\ Pos = offset /\ offset \in Nat
<1>1. buf = <<>> /\ Len(buf) = 0 /\ offset \in Nat
  BY Between DEF NoCall, IInv, TypeOK
<1> QED BY <1>1, PosIs DEF IInv

LEMMA OpenStep ==
  ASSUME IInv, IInv', NEW m \in Mode, Fopen(m)
  PROVE  Stream!Next
<1>1. Len(buf') = 0 /\ offset' = 0 /\ call' = Idle /\ content' \in {content, <<>>} /\ Got' = <<>>
  BY DEF Fopen, Called, Got, NoResult
<1>2. Pos' = 0
  BY <1>1, PosIsNext DEF IInv
<1>3. (m \in Appending) \in BOOLEAN /\ mode' = m
  BY DEF Fopen
<1>4. Stream!Open
  BY <1>1, <1>2, <1>3 DEF Stream!Open, Pos, Got
<1> QED BY <1>4 DEF Stream!Next

LEMMA CloseStep ==
  ASSUME IInv, IInv', Fclose
  PROVE  Stream!Next
<1>1. /\ UNCHANGED <<content, offset, buf, call>> /\ mode' \notin Appending /\ Got' = <<>>
  BY DEF Fclose, Got, NoResult, Appending
<1>2. Pos' = Pos
  BY <1>1 DEF Pos
<1>3. Stream!Close
  BY <1>1, <1>2 DEF Stream!Close, Pos, Got
<1> QED BY <1>3 DEF Stream!Next

LEMMA SeekStep ==
  ASSUME IInv, IInv', Called, mode # "none", NEW p \in Int, SeekTo(p)
  PROVE  Stream!Next
<1>1. call = Idle /\ call' = Idle /\ UNCHANGED <<content, mode>> /\ Got' = <<>>
  BY DEF Called, SeekTo, Got, NoResult
<1>2. Pos' = offset' - Len(buf')
  BY <1>1, PosIsNext DEF IInv
<1>3. offset' - Len(buf') \in Nat
  BY <1>1 DEF IInv, BufferIsCurrent, InFile, Idle
<1> QED BY <1>1, <1>2, <1>3, StreamSeek

LEMMA FlushStep ==
  ASSUME IInv, IInv', Fflush
  PROVE  Stream!Next
<1>1. call' = Idle /\ UNCHANGED <<content, mode>> /\ Got' = <<>> /\ mode # "none"
  BY DEF Fflush, Called, Got, NoResult
<1>2. Pos' = offset' - Len(buf')
  BY <1>1, PosIsNext DEF IInv
<1>3. offset' - Len(buf') \in Nat
  BY <1>1 DEF IInv, BufferIsCurrent, InFile, Idle
<1> QED BY <1>1, <1>2, <1>3, StreamSeek

(* An fread that returns is one reading of the file.                       *)
LEMMA ReturnStep ==
  ASSUME IInv, NEW data \in Seq(Nat), NEW total, FreadReturns(data, total),
         UNCHANGED <<content, mode>>, InFile(data, Pos), Pos' = Pos + Len(data)
  PROVE  Stream!Next
<1>1. data = Slice(content, Pos, Pos + Len(data)) /\ Len(data) \in 0 .. Len(content)
  BY InFileIsSlice DEF IInv, TypeOK
<1>2. Got' = data
  BY DEF FreadReturns, Got
<1> QED BY <1>1, <1>2, StreamRead

LEMMA ReadSteps ==
  ASSUME IInv, IInv',
         \/ \E n \in ReadSizes : Fread(n) \/ FreadRefused(n)
         \/ FreadCopy \/ FreadDone
  PROVE  Stream!Next \/ UNCHANGED Stream!vars
<1>1. ASSUME NEW n \in ReadSizes, FreadRefused(n) PROVE Stream!Next
  <2>1. /\ call = Idle /\ call' = Idle /\ FreadReturns(<<>>, n)
        /\ UNCHANGED <<content, mode, offset, buf>> /\ mode # "none"
    BY <1>1, Bounds DEF FreadRefused, Called, FreadReturns, streamVars
  <2>2. Pos = offset - Len(buf) /\ Pos' = Pos /\ Pos \in Nat
    BY <2>1, PosIs, PosIsNext DEF IInv, BufferIsCurrent, InFile, Idle
  <2>3. InFile(<<>>, Pos) /\ Pos' = Pos + Len(<<>>) /\ <<>> \in Seq(Nat)
    BY <2>2, EmptyInFile
  <2> QED BY <2>1, <2>3, ReturnStep
<1>2. ASSUME NEW n \in ReadSizes, Fread(n) PROVE Stream!Next \/ UNCHANGED Stream!vars
  <2>1. /\ call = Idle /\ mode # "none" /\ UNCHANGED <<content, mode>>
        /\ Pos = offset - Len(buf) /\ Pos \in Nat
    <3>1. call = Idle /\ mode # "none" /\ UNCHANGED <<content, mode>>
      BY <1>2, Bounds DEF Fread, Called
    <3> QED BY <3>1, PosIs DEF IInv, BufferIsCurrent, InFile, Idle
  <2>2. offset' - Len(buf') = offset - Len(buf)
    <3>1. CASE buf = <<>> /\ FillBuffer(n, 1)
      <4>1. offset' - Len(buf') = offset /\ n \in Nat /\ 1 \in Nat /\ Len(buf) = 0 /\ offset \in Nat
        <5>1. n \in Nat /\ 1 \in Nat /\ Len(buf) = 0 /\ offset \in Nat
          BY <3>1, SizesAssumption DEF IInv, TypeOK
        <5>2. UNCHANGED <<content, mode, write_flag, large>>
          BY <1>2 DEF Fread
        <5> QED BY <3>1, <5>1, <5>2, FilledType
      <4> QED BY <4>1
    <3> QED BY <1>2, <3>1 DEF Fread
  <2>3. CASE call'.op = "fread"
    <3>1. Len(call'.data) = 0 /\ result' = result
      BY <1>2, <2>3 DEF Fread, FreadReturns, Idle
    <3>2. Pos' = Pos /\ Got' = Got
      BY <2>1, <2>2, <2>3, <3>1, PosIsNext DEF IInv, Got
    <3> QED BY <2>1, <3>2, StreamStutters
  <2>4. CASE call'.op # "fread"
    <3>1. FreadReturns(<<>>, n) /\ call' = Idle
      BY <1>2, <2>4 DEF Fread, FreadReturns
    <3>2. Pos' = Pos + Len(<<>>) /\ InFile(<<>>, Pos) /\ <<>> \in Seq(Nat)
      BY <2>1, <2>2, <3>1, PosIsNext, EmptyInFile DEF IInv
    <3> QED BY <2>1, <3>1, <3>2, ReturnStep
  <2> QED BY <2>3, <2>4
<1>3. ASSUME FreadDone PROVE Stream!Next
  <2>1. InFread /\ call.op = "fread"
    BY <1>3 DEF FreadDone, IInv, InFwrite, NoCall, Idle
  <2>2. /\ FreadReturns(call.data, call.total) /\ call' = Idle
        /\ UNCHANGED <<content, mode, offset, buf>> /\ call.data \in Seq(Nat)
    BY <1>3, <2>1 DEF FreadDone, FreadReturns, streamVars, InFread
  <2>3. Pos = offset - Len(buf) - Len(call.data) /\ Pos' = offset - Len(buf)
    BY <2>1, <2>2, PosIs, PosIsNext DEF IInv
  <2>4. InFile(call.data, Pos) /\ Pos' = Pos + Len(call.data)
    BY <2>1, <2>2, <2>3 DEF InFread, IInv, TypeOK
  <2> QED BY <2>2, <2>4, ReturnStep
<1>4. ASSUME FreadCopy PROVE Stream!Next \/ UNCHANGED Stream!vars
  <2>1. InFread /\ call.op = "fread" /\ UNCHANGED <<content, mode, write_flag, large>>
    BY <1>4 DEF FreadCopy, IInv, InFwrite, NoCall, Idle
  <2>2. PICK n, data : /\ n = AtMost(Len(buf), call.total - Len(call.data))
                       /\ data = call.data \o SubSeq(buf, 1, n)
    OBVIOUS
  <2>3. /\ call.data \in Seq(Nat) /\ Len(call.data) \in Nat /\ call.total \in Nat /\ call.count \in Nat
        /\ buf \in Seq(Nat) /\ Len(buf) \in Nat /\ offset \in Nat /\ content \in Seq(Nat)
        /\ n \in 0 .. Len(buf)
    <3>1. /\ call.data \in Seq(Nat) /\ Len(call.data) \in Nat /\ call.total \in Nat /\ call.count \in Nat
          /\ buf \in Seq(Nat) /\ Len(buf) \in Nat /\ offset \in Nat /\ content \in Seq(Nat)
      <4>1. call.data \in Seq(Nat) /\ call.total \in Nat /\ call.count \in Nat
        BY <2>1 DEF InFread
      <4>2. buf \in Seq(Nat) /\ offset \in Nat /\ content \in Seq(Nat)
        BY DEF IInv, TypeOK
      <4> QED BY <4>1, <4>2
    <3>2. n = AtMost(Len(buf), call.total - Len(call.data)) /\ Len(call.data) <= call.total
      BY <2>1, <2>2 DEF InFread
    <3> QED BY <3>1, <3>2 DEF AtMost
  <2>4. /\ Pos = offset - Len(buf) - Len(call.data) /\ Pos \in Nat
        /\ InFile(call.data, Pos) /\ InFile(buf, Pos + Len(call.data))
    <3>1. Pos = offset - Len(buf) - Len(call.data)
      BY <2>1, PosIs DEF IInv
    <3>2. InFile(call.data, Pos) /\ Pos \in Nat
      BY <2>1, <3>1 DEF InFread, InFile
    <3>3. InFile(buf, offset - Len(buf))
      BY <2>1, Bounds DEF InFread, IInv, BufferIsCurrent
    <3>4. Pos + Len(call.data) = offset - Len(buf)
      BY <2>3, <3>1
    <3> QED BY <3>1, <3>2, <3>3, <3>4
  <2>5. /\ data \in Seq(Nat) /\ Len(data) = Len(call.data) + n /\ InFile(data, Pos)
        /\ Len(SubSeq(buf, n + 1, Len(buf))) = Len(buf) - n
    <3>1. PICK at : at = Pos
      OBVIOUS
    <3>2. at \in Nat /\ InFile(call.data, at) /\ InFile(buf, at + Len(call.data))
      BY <2>4, <3>1
    <3>3. /\ call.data \o SubSeq(buf, 1, n) \in Seq(Nat)
          /\ Len(call.data \o SubSeq(buf, 1, n)) = Len(call.data) + n
          /\ InFile(call.data \o SubSeq(buf, 1, n), at)
          /\ Len(SubSeq(buf, n + 1, Len(buf))) = Len(buf) - n
      BY <2>3, <3>2, Moved
    <3> QED BY <2>2, <3>1, <3>3
  <2>6. IF n < Len(buf)
        THEN /\ buf' = SubSeq(buf, n + 1, Len(buf))
             /\ call' = [call EXCEPT !.data = data]
             /\ UNCHANGED <<offset, result>>
        ELSE /\ FillBuffer(call.total, call.count)
             /\ IF buf' = <<>>
                THEN FreadReturns(data, call.total)
                ELSE /\ call' = [call EXCEPT !.data = data, !.count = @ + 1]
                     /\ UNCHANGED result
    BY <1>4, <2>2 DEF FreadCopy
  <2>7. CASE n < Len(buf)
    <3>1. Len(buf') = Len(buf) - n /\ offset' = offset /\ result' = result
      BY <2>5, <2>6, <2>7
    <3>2. call'.op = "fread" /\ call'.data = data
      BY <2>1, <2>6, <2>7 DEF InFread
    <3>3. Pos' = offset' - Len(buf') - Len(data)
      BY <3>2, PosIsNext DEF IInv
    <3>4. offset - (Len(buf) - n) - (Len(call.data) + n) = offset - Len(buf) - Len(call.data)
      BY <2>3
    <3>5. Pos' = Pos /\ Got' = Got
      BY <2>4, <2>5, <3>1, <3>3, <3>4 DEF Got
    <3> QED BY <2>1, <3>5, StreamStutters
  <2>8. CASE ~ (n < Len(buf))
    <3>1. n = Len(buf) /\ FillBuffer(call.total, call.count)
      BY <2>3, <2>6, <2>8
    <3>2. offset' - Len(buf') = offset
      BY <2>1, <2>3, <3>1, FilledType
    <3>3. Pos + Len(data) = offset
      <4>1. offset - Len(buf) - Len(call.data) + (Len(call.data) + Len(buf)) = offset
        BY <2>3
      <4> QED BY <2>4, <2>5, <3>1, <4>1
    <3>4. CASE buf' = <<>>
      <4>1. FreadReturns(data, call.total) /\ call' = Idle
        BY <2>6, <2>8, <3>4 DEF FreadReturns
      <4>2. Pos' = Pos + Len(data)
        BY <3>2, <3>3, <4>1, PosIsNext DEF IInv
      <4> QED BY <2>1, <2>5, <4>1, <4>2, ReturnStep
    <3>5. CASE buf' # <<>>
      <4>1. call'.op = "fread" /\ call'.data = data /\ result' = result
        BY <2>1, <2>6, <2>8, <3>5 DEF InFread
      <4>2. Pos' = offset - Len(data)
        BY <3>2, <4>1, PosIsNext DEF IInv
      <4>3. Pos' = Pos /\ Got' = Got
        <5>1. Len(data) \in Nat
          BY <2>5
        <5>2. offset - Len(data) = Pos
          BY <2>3, <2>4, <3>3, <5>1
        <5> QED BY <4>1, <4>2, <5>2 DEF Got
      <4> QED BY <2>1, <4>3, StreamStutters
    <3> QED BY <3>4, <3>5
  <2> QED BY <2>7, <2>8
<1> QED BY <1>1, <1>2, <1>3, <1>4

(* A write of the file is one writing; one that fails, or writes none,     *)
(* moves nothing.                                                          *)
LEMMA WriteStep ==
  ASSUME IInv, NEW d \in Seq(Nat), d \in Chunk, WriteFile(d), UNCHANGED mode,
         Pos = offset, Pos' = offset', Got' = <<>>
  PROVE  Stream!Next
<1>1. offset' \in Nat
  BY WriteFileProperties DEF IInv
<1>2. CASE /\ d # <<>>
           /\ content' = Overwrite(content, WritePosition, d)
           /\ offset' = WritePosition + Len(d)
  BY <1>2, StreamWrite
<1>3. CASE UNCHANGED <<content, offset>>
  BY <1>1, <1>3, StreamSeek
<1> QED BY <1>2, <1>3 DEF WriteFile

LEMMA UpdateStep ==
  ASSUME IInv, NEW total \in WriteSizes, NEW count \in Nat, NEW done \in 0 .. total,
         UpdateBuffer(total, count, done), UNCHANGED mode,
         Pos = offset, Pos' = offset', Got' = <<>>
  PROVE  Stream!Next
<1>1. PICK d : d = Slice(Data(total), done, done + WriteBytes(total, count))
  OBVIOUS
<1>2. total \in Nat /\ WriteBytes(total, count) \in Nat /\ Data(total) \in Seq(Nat) /\ Len(Data(total)) = total
  BY SizesAssumption, BufsizeAssumption, DataProperties DEF WriteBytes
<1>3. d \in Seq(Nat) /\ WriteFile(d)
  BY <1>1, <1>2, UpdateProperties DEF IInv
<1>4. PICK to \in 0 .. total : d = Slice(Data(total), done, to)
  <2>1. CASE done + WriteBytes(total, count) <= total
    BY <1>1, <1>2, <2>1
  <2>2. CASE ~ (done + WriteBytes(total, count) <= total)
    BY <1>1, <1>2, <2>2 DEF Slice
  <2> QED BY <2>1, <2>2
<1>5. d \in Chunk
  BY <1>4 DEF Chunk
<1> QED BY <1>3, <1>5, WriteStep

LEMMA WriteSteps ==
  ASSUME IInv, IInv',
         FwriteCopy \/ \E n \in WriteSizes : SmallFwrite(n) \/ LargeFwrite(n)
  PROVE  Stream!Next
<1>1. ASSUME NEW n \in WriteSizes, SmallFwrite(n) PROVE Stream!Next
  <2>1. /\ call = Idle /\ call' = Idle /\ mode # "none" /\ ~unsynced /\ UNCHANGED <<mode, buf>>
        /\ result'.op = "fwrite"
    BY <1>1, Bounds DEF SmallFwrite, Called, FwriteReturns
  <2>2. Pos = offset /\ offset \in Nat /\ Got' = <<>> /\ buf' = <<>>
    BY <2>1, EmptyBuffer DEF Got
  <2>3. Pos' = offset'
    <3>1. offset' \in Nat /\ Len(buf') = 0
      BY <2>2 DEF IInv, TypeOK
    <3>2. Pos' = offset' - Len(buf')
      BY <2>1, PosIsNext DEF IInv
    <3>3. \A x \in Nat : x - 0 = x
      OBVIOUS
    <3> QED BY <3>1, <3>2, <3>3, Zenon
  <2>4. CASE mode = "r"
    BY <1>1, <2>1, <2>2, <2>3, <2>4, StreamSeek DEF SmallFwrite
  <2>5. CASE mode # "r"
    <3>1. WriteFile(Data(n)) /\ n \in Nat
      BY <1>1, <2>5, SizesAssumption DEF SmallFwrite
    <3>2. Data(n) \in Seq(Nat) /\ Len(Data(n)) = n
      BY <3>1, DataProperties
    <3>3. Data(n) \in Chunk
      <4>1. Slice(Data(n), 0, n) = Data(n)
        BY <3>1, <3>2, SubSeqFull DEF Slice
      <4>2. 0 \in 0 .. n /\ n \in 0 .. n
        BY <3>1
      <4> QED BY <4>1, <4>2 DEF Chunk
    <3> QED BY <2>1, <2>2, <2>3, <3>1, <3>2, <3>3, WriteStep
  <2> QED BY <2>4, <2>5
<1>2. ASSUME NEW n \in WriteSizes, LargeFwrite(n) PROVE Stream!Next
  <2>1. /\ call = Idle /\ mode # "none" /\ ~unsynced /\ UNCHANGED mode
        /\ UpdateBuffer(n, 1, 0)
        /\ Got' = <<>>
        /\ (call' = Idle /\ buf' = <<>>) \/ call'.op = "fwrite"
    BY <1>2, Bounds DEF LargeFwrite, Called, FwriteReturns, Got, NoResult
  <2>2. Pos = offset
    BY <2>1, EmptyBuffer
  <2>3. Pos' = offset'
    <3>1. offset' \in Nat /\ (buf' = <<>> => Len(buf') = 0)
      BY DEF IInv, TypeOK
    <3> QED BY <2>1, <3>1, PosIsNext DEF IInv
  <2>4. 1 \in Nat /\ 0 \in 0 .. n
    BY SizesAssumption
  <2> QED BY <2>1, <2>2, <2>3, <2>4, UpdateStep
<1>3. ASSUME FwriteCopy PROVE Stream!Next
  <2>1. InFwrite /\ call.op = "fwrite"
    BY <1>3 DEF FwriteCopy, IInv, InFread, NoCall, Idle
  <2>2. PICK done : done = call.done + Len(buf)
    OBVIOUS
  <2>3. /\ call.total \in WriteSizes /\ call.count + 1 \in Nat /\ done \in 0 .. call.total
        /\ result = NoResult
    <3>1. /\ call.total \in WriteSizes /\ call.total \in Nat /\ call.count \in Nat /\ call.done \in Nat
          /\ call.done + Len(buf) <= call.total /\ result = NoResult
      BY <2>1 DEF InFwrite
    <3>2. Len(buf) \in Nat
      BY DEF IInv, TypeOK
    <3> QED BY <2>2, <3>1, <3>2
  <2>4. UpdateBuffer(call.total, call.count + 1, done) /\ UNCHANGED mode
    BY <1>3, <2>2 DEF FwriteCopy
  <2>5. Got' = <<>>
    BY <1>3, <2>3 DEF FwriteCopy, FwriteReturns, Got, NoResult
  <2>6. (call' = Idle /\ call'.op = "none") \/ call'.op = "fwrite"
    <3>1. call' = Idle \/ call' = [call EXCEPT !.done = done, !.count = @ + 2]
      BY <1>3, <2>2 DEF FwriteCopy, FwriteReturns
    <3>2. call' = [call EXCEPT !.done = done, !.count = @ + 2] => call'.op = "fwrite"
      BY <2>1 DEF InFwrite
    <3> QED BY <3>1, <3>2 DEF Idle
  <2>7. call' = Idle => buf' = <<>>
    <3>1. CASE call' = Idle
      <4>1. unsynced' = FALSE /\ mode' # "none"
        BY <1>3, <2>1, <3>1, Bounds DEF FwriteCopy, FwriteReturns, InFwrite, Idle
      <4> QED BY <3>1, <4>1 DEF IInv, InFread, InFwrite, NoCall, Idle
    <3> QED BY <3>1
  <2>8. Pos = offset /\ Pos' = offset'
    <3>1. offset' \in Nat /\ (buf' = <<>> => Len(buf') = 0)
      BY DEF IInv, TypeOK
    <3> QED BY <2>1, <2>6, <2>7, <3>1, PosIs, PosIsNext DEF IInv
  <2> QED BY <2>3, <2>4, <2>5, <2>8, UpdateStep
<1> QED BY <1>1, <1>2, <1>3

(* Whatever the size of the buffer and of the calls, a program cannot tell *)
(* the stream from a file it reads, writes and seeks directly.             *)
THEOREM RefinesByteStream == Spec => ImplementsByteStream
<1>1. Init => Stream!Init
  <2> SUFFICES ASSUME Init PROVE Stream!Init
    OBVIOUS
  <2>1. IInv
    BY InitInv
  <2>2. call = Idle /\ Len(buf) = 0 /\ offset = 0 /\ Got = <<>> /\ content \in Seq(Nat) /\ mode \notin Appending
    BY <2>1 DEF Init, Got, NoResult, IInv, TypeOK, Appending
  <2>3. Pos = 0
    BY <2>1, <2>2, PosIs DEF IInv
  <2> QED BY <2>2, <2>3 DEF Stream!Init, Pos, Got
<1>2. IInv /\ IInv' /\ [Next]_vars => [Stream!Next]_(Stream!vars)
  <2> SUFFICES ASSUME IInv, IInv', [Next]_vars PROVE Stream!Next \/ UNCHANGED Stream!vars
    OBVIOUS
  <2>1. CASE UNCHANGED vars
    BY <2>1, StreamStutters DEF vars, streamVars, Pos, Got
  <2>2. ASSUME NEW n \in -1 .. 1, NEW whence \in {"SEEK_SET", "SEEK_CUR", "SEEK_END"}, Fseek(n, whence)
        PROVE  Stream!Next
    <3>1. n \in Int /\ offset + n - Len(buf) \in Int /\ Len(content) + n \in Int
      BY DEF IInv, TypeOK
    <3>2. \E p \in Int : SeekTo(p)
      BY <2>2, <3>1 DEF Fseek
    <3> QED BY <2>2, <3>2, SeekStep DEF Fseek
  <2> QED
    BY <2>1, <2>2, OpenStep, CloseStep, FlushStep, ReadSteps, WriteSteps DEF Next
<1> QED BY <1>1, <1>2, InvCorrect, PTL DEF Spec, ImplementsByteStream, Stream!Spec
-----------------------------------------------------------------------------
(***************************************************************************)
(* What fwrite has written                                                 *)
(***************************************************************************)

(* The bytes of an fwrite, n of them, lie in the file from `at' on.        *)
Written(at, n) ==
  /\ at \in Nat /\ n \in Nat /\ (n # 0 => at + n <= Len(content))
  /\ \A k \in 1 .. n : content[at + k] = MaxLen + k

(* An fwrite in progress is where its last bytes end; the last fwrite left *)
(* as many as it returned.                                                 *)
WrittenInv ==
  /\ call.op = "fwrite" /\ call.failure # "unnoticed" =>
       /\ Written(call.at, call.done + Len(buf))
       /\ offset = call.at + call.done + Len(buf)
       /\ mode \in Appending => offset = Len(content)
  /\ result.op = "fwrite" /\ result.failure # "unnoticed" =>
       (result.at \in Nat /\ result.count = -1) \/ Written(result.at, result.count)

LEMMA WrittenIsSubSeq ==
  ASSUME NEW at, NEW n, Written(at, n), content \in Seq(Nat)
  PROVE  SubSeq(content, at + 1, at + n) = Data(n)
<1>1. at \in Nat /\ n \in Nat /\ (n # 0 => at + n <= Len(content))
  BY DEF Written
<1>2. Data(n) \in Seq(Nat) /\ Len(Data(n)) = n /\ \A k \in 1 .. n : Data(n)[k] = MaxLen + k
  BY <1>1, DataProperties DEF Data
<1>3. InFile(Data(n), at)
  <2>1. Data(n) # <<>> => n # 0
    BY <1>2, EmptySeq
  <2> QED BY <1>1, <1>2, <2>1 DEF InFile, Written
<1> QED BY <1>2, <1>3, InFileIsSubSeq

(* Bytes written where the last ones end make one piece with them.         *)
LEMMA WriteOn ==
  ASSUME IInv, NEW at \in Nat, NEW done \in Nat, NEW d \in Seq(Nat),
         Written(at, done), WritePosition = at + done,
         \A k \in 1 .. Len(d) : d[k] = MaxLen + (done + k),
         WriteFile(d), ~Failed, UNCHANGED mode
  PROVE  /\ Written(at, done + Len(d))'
         /\ d # <<>> => offset' = at + done + Len(d)
         /\ d # <<>> /\ mode \in Appending => offset' = Len(content')
<1>1. content \in Seq(Nat) /\ Len(content) \in Nat /\ Len(d) \in Nat
  BY DEF IInv, TypeOK
<1>2. CASE d = <<>>
  <2>1. Len(d) = 0 /\ done + Len(d) = done
    BY <1>2
  <2>2. content' = content
    BY <1>2 DEF WriteFile
  <2> QED BY <1>2, <2>1, <2>2 DEF Written
<1>3. CASE d # <<>>
  <2>1. content' = Overwrite(content, at + done, d) /\ offset' = at + done + Len(d) /\ content' \in Seq(Nat)
    BY <1>3, WriteFileProperties DEF IInv
  <2>2. /\ Len(content') = IF Len(content) > at + done + Len(d) THEN Len(content) ELSE at + done + Len(d)
        /\ \A i \in 1 .. Len(content') :
             content'[i] = IF i \in (at + done + 1) .. (at + done + Len(d)) THEN d[i - (at + done)]
                           ELSE IF i <= Len(content) THEN content[i] ELSE 0
    BY <1>1, <2>1 DEF Overwrite
  <2>3. ASSUME NEW k \in 1 .. done + Len(d) PROVE content'[at + k] = MaxLen + k
    <3>1. at + k \in 1 .. Len(content')
      BY <1>1, <2>2
    <3>2. CASE k <= done
      <4>1. at + k <= Len(content) /\ at + k \notin (at + done + 1) .. (at + done + Len(d)) /\ k \in 1 .. done
        BY <1>1, <3>2 DEF Written
      <4> QED BY <2>2, <3>1, <4>1 DEF Written
    <3>3. CASE ~ (k <= done)
      <4>1. /\ at + k \in (at + done + 1) .. (at + done + Len(d)) /\ at + k - (at + done) = k - done
            /\ k - done \in 1 .. Len(d) /\ done + (k - done) = k
        BY <1>1, <3>3
      <4>2. content'[at + k] = d[k - done]
        BY <2>2, <3>1, <4>1
      <4>3. d[k - done] = MaxLen + (done + (k - done))
        BY <4>1
      <4> QED BY <4>1, <4>2, <4>3
    <3> QED BY <3>2, <3>3
  <2>4. at + (done + Len(d)) <= Len(content') /\ done + Len(d) \in Nat
    BY <1>1, <2>2
  <2>5. Written(at, done + Len(d))'
    BY <2>3, <2>4 DEF Written
  <2>6. mode \in Appending => offset' = Len(content')
    <3>1. mode \in Appending => at + done = Len(content)
      BY DEF WritePosition
    <3> QED BY <1>1, <2>1, <2>2, <3>1
  <2> QED BY <2>1, <2>5, <2>6
<1> QED BY <1>2, <1>3

LEMMA WrittenKept ==
  ASSUME WrittenInv, content' = content, call'.op # "fwrite",
         result' = result \/ result'.op # "fwrite"
  PROVE  WrittenInv'
BY DEF WrittenInv, Written

(* The bytes of a turn of fwrite are those that come next.                 *)
LEMMA UpdateBytes ==
  ASSUME IInv, NEW total \in WriteSizes, NEW count \in Nat, NEW done \in 0 .. total,
         UpdateBuffer(total, count, done)
  PROVE  \E d \in Seq(Nat) :
           /\ WriteFile(d) /\ buf' \in {<<>>, d}
           /\ \A k \in 1 .. Len(d) : d[k] = MaxLen + (done + k)
<1>1. PICK d : d = Slice(Data(total), done, done + WriteBytes(total, count))
  OBVIOUS
<1>2. /\ total \in Nat /\ WriteBytes(total, count) \in Nat
      /\ Data(total) \in Seq(Nat) /\ Len(Data(total)) = total
      /\ done \in Nat /\ done + WriteBytes(total, count) \in Nat
      /\ done <= done + WriteBytes(total, count)
  <2>1. total \in Nat
    BY SizesAssumption
  <2>2. WriteBytes(total, count) \in Nat
    BY <2>1, BufsizeAssumption DEF WriteBytes
  <2>3. Data(total) \in Seq(Nat) /\ Len(Data(total)) = total
    BY <2>1, DataProperties
  <2> QED BY <2>1, <2>2, <2>3
<1>3. /\ d \in Seq(Nat) /\ WriteFile(d) /\ buf' \in {<<>>, d} /\ done + Len(d) <= total
  BY <1>1, <1>2, UpdateProperties DEF IInv
<1>4. \A k \in 1 .. Len(d) : d[k] = Data(total)[done + k]
  BY <1>1, <1>2, SliceProperties
<1>5. ASSUME NEW k \in 1 .. Len(d) PROVE d[k] = MaxLen + (done + k)
  <2>1. done + k \in 1 .. total
    BY <1>2, <1>3
  <2> QED BY <1>4, <2>1 DEF Data
<1> QED BY <1>3, <1>5

LEMMA SmallFwriteWritten ==
  ASSUME IInv, WrittenInv, NEW n \in WriteSizes, SmallFwrite(n)
  PROVE  WrittenInv'
<1>1. UNCHANGED mode /\ n \in Nat /\ offset \in Nat /\ content \in Seq(Nat) /\ WritePosition \in Nat
  BY SizesAssumption DEF SmallFwrite, IInv, TypeOK, WritePosition
<1>2. PICK count, at :
        /\ call'.op # "fwrite" /\ result'.count = count /\ result'.at = at
        /\ IF mode = "r" THEN count = 0 /\ at = offset
           ELSE /\ WriteFile(Data(n))
                /\ count = IF Failed THEN -1 ELSE n
                /\ at = WritePosition
  BY DEF SmallFwrite, FwriteReturns, Idle
<1>3. count = -1 \/ Written(at, count)'
  <2>1. CASE mode = "r"
    BY <1>1, <1>2, <2>1 DEF Written
  <2>2. CASE mode # "r" /\ ~Failed
    <3>1. /\ Data(n) \in Seq(Nat) /\ Len(Data(n)) = n
          /\ \A k \in 1 .. Len(Data(n)) : Data(n)[k] = MaxLen + (0 + k)
      BY <1>1, DataProperties, BoundAssumption DEF Data
    <3>2. Written(at, 0) /\ WritePosition = at + 0 /\ at \in Nat /\ 0 \in Nat
      BY <1>1, <1>2, <2>2 DEF Written
    <3>3. Written(at, 0 + Len(Data(n)))'
      BY <1>1, <1>2, <2>2, <3>1, <3>2, WriteOn
    <3>4. count = 0 + Len(Data(n))
      BY <1>1, <1>2, <2>2, <3>1
    <3> QED BY <3>3, <3>4
  <2> QED BY <1>2, <2>1, <2>2
<1>4. at \in Nat
  BY <1>1, <1>2
<1> QED BY <1>2, <1>3, <1>4 DEF WrittenInv

LEMMA LargeFwriteWritten ==
  ASSUME IInv, WrittenInv, NEW n \in WriteSizes, LargeFwrite(n)
  PROVE  WrittenInv'
<1>1. /\ UNCHANGED mode /\ UpdateBuffer(n, 1, 0) /\ WritePosition \in Nat
      /\ 1 \in Nat /\ 0 \in Nat /\ 0 \in 0 .. n
  BY SizesAssumption DEF LargeFwrite, IInv, TypeOK, WritePosition
<1>2. PICK at : at = WritePosition
  OBVIOUS
<1>3. PICK d \in Seq(Nat) :
        /\ WriteFile(d) /\ buf' \in {<<>>, d}
        /\ \A k \in 1 .. Len(d) : d[k] = MaxLen + (0 + k)
  BY <1>1, UpdateBytes
<1>4. Written(at, 0) /\ Written(at, 0)' /\ WritePosition = at + 0 /\ at \in Nat
  BY <1>1, <1>2 DEF Written
<1>5. CASE buf' = <<>>
  <2>1. call'.op # "fwrite" /\ result'.count = 0 /\ result'.at = at
    BY <1>2, <1>5 DEF LargeFwrite, FwriteReturns, Idle
  <2> QED BY <1>4, <2>1 DEF WrittenInv
<1>6. CASE buf' # <<>>
  <2>1. /\ call'.failure = IF Failed THEN "unnoticed" ELSE "none"
        /\ call'.at = at /\ call'.done = 0 /\ result'.op = "none"
    BY <1>2, <1>6 DEF LargeFwrite, NoResult
  <2>2. CASE ~Failed
    <3>1. /\ Written(at, 0 + Len(d))' /\ offset' = at + 0 + Len(d)
          /\ mode \in Appending => offset' = Len(content')
      BY <1>1, <1>3, <1>4, <1>6, <2>2, WriteOn
    <3>2. buf' = d
      BY <1>3, <1>6
    <3> QED BY <1>1, <2>1, <3>1, <3>2 DEF WrittenInv
  <2> QED BY <2>1, <2>2 DEF WrittenInv
<1> QED BY <1>5, <1>6

LEMMA FwriteCopyWritten ==
  ASSUME IInv, WrittenInv, FwriteCopy
  PROVE  WrittenInv'
<1>1. InFwrite /\ call.op = "fwrite" /\ UNCHANGED mode
  BY DEF FwriteCopy, IInv, InFread, NoCall, Idle
<1>2. PICK done, at : done = call.done + Len(buf) /\ at = call.at
  OBVIOUS
<1>3. /\ call.total \in WriteSizes /\ call.count + 1 \in Nat /\ at \in Nat
      /\ done \in 0 .. call.total /\ done \in Nat /\ result = NoResult /\ ptr
      /\ call.failure \in {"none", "unnoticed"}
  <2>1. /\ call.total \in WriteSizes /\ call.total \in Nat /\ call.count \in Nat /\ call.done \in Nat
        /\ call.at \in Nat /\ call.done + Len(buf) <= call.total /\ result = NoResult /\ ptr
        /\ call.failure \in {"none", "unnoticed"}
    BY <1>1 DEF InFwrite
  <2>2. Len(buf) \in Nat
    BY DEF IInv, TypeOK
  <2> QED BY <1>2, <2>1, <2>2
<1>4. UpdateBuffer(call.total, call.count + 1, done)
  BY <1>2 DEF FwriteCopy
<1>5. \/ /\ call'.op # "fwrite" /\ result'.count = done /\ result'.at = at
         /\ result'.failure = IF call.failure = "unnoticed" THEN call.failure ELSE Failure
      \/ /\ call'.at = at /\ call'.done = done /\ call'.failure = call.failure
         /\ result'.op = "none" /\ buf' # <<>>
  <2>1. CASE buf' = <<>> \/ done = call.total
    BY <1>2, <2>1 DEF FwriteCopy, FwriteReturns, Idle
  <2>2. CASE ~ (buf' = <<>> \/ done = call.total)
    <3>1. /\ call' = [call EXCEPT !.done = done, !.count = @ + 2] /\ result' = result
          /\ buf' # <<>>
      BY <1>2, <2>2 DEF FwriteCopy
    <3>2. call'.at = call.at /\ call'.done = done /\ call'.failure = call.failure
      BY <1>1, <3>1 DEF InFwrite
    <3> QED BY <1>2, <1>3, <3>1, <3>2 DEF NoResult
  <2> QED BY <2>1, <2>2
<1>6. CASE call.failure = "unnoticed"
  BY <1>5, <1>6 DEF WrittenInv
<1>7. CASE call.failure = "none"
  <2>1. /\ Written(at, done) /\ offset = at + done
        /\ mode \in Appending => offset = Len(content)
    <3>1. /\ Written(call.at, call.done + Len(buf))
          /\ offset = call.at + call.done + Len(buf)
          /\ mode \in Appending => offset = Len(content)
      BY <1>1, <1>7 DEF WrittenInv
    <3>2. call.at + call.done + Len(buf) = call.at + (call.done + Len(buf))
      BY <1>1 DEF InFwrite, IInv, TypeOK
    <3> QED BY <1>2, <3>1, <3>2
  <2>2. WritePosition = at + done
    BY <2>1 DEF WritePosition
  <2>3. PICK d \in Seq(Nat) :
          /\ WriteFile(d) /\ buf' \in {<<>>, d}
          /\ \A k \in 1 .. Len(d) : d[k] = MaxLen + (done + k)
    BY <1>3, <1>4, UpdateBytes
  <2>4. ~Failed => /\ Written(at, done + Len(d))'
                   /\ d # <<>> => offset' = at + done + Len(d)
                   /\ d # <<>> /\ mode \in Appending => offset' = Len(content')
    BY <1>1, <1>3, <2>1, <2>2, <2>3, WriteOn
  <2>5. Written(at, done)'
    <3>1. CASE Failed
      <4>1. content' = content
        BY <2>3, <3>1, WriteFileProperties DEF IInv
      <4> QED BY <2>1, <4>1 DEF Written
    <3>2. CASE ~Failed
      <4>1. Len(d) \in Nat /\ Len(content') \in Nat
        BY DEF IInv, TypeOK, WrittenInv
      <4>2. Written(at, done + Len(d))'
        BY <2>4, <3>2
      <4> QED BY <1>3, <4>1, <4>2 DEF Written
    <3> QED BY <3>1, <3>2
  <2>6. CASE call'.op # "fwrite" /\ result'.count = done /\ result'.at = at
    BY <2>5, <2>6 DEF WrittenInv
  <2>7. CASE call'.at = at /\ call'.done = done /\ result'.op = "none" /\ buf' # <<>>
    <3>1. ptr /\ Failed => buf' = <<>>
      BY <1>3, <1>4, SizesAssumption, UpdateProperties DEF IInv
    <3>2. ~Failed /\ buf' = d
      BY <1>3, <2>3, <2>7, <3>1
    <3>3. /\ Written(at, done + Len(d))' /\ offset' = at + done + Len(d)
          /\ mode' \in Appending => offset' = Len(content')
      <4>1. d # <<>>
        BY <2>7, <3>2
      <4> QED BY <1>1, <2>4, <3>2, <4>1
    <3>4. (Written(call.at, call.done + Len(buf)))' /\ (offset = call.at + call.done + Len(buf))'
      <4>1. buf' = d /\ call'.at = at /\ call'.done = done
        BY <2>7, <3>2
      <4> QED BY <3>3, <4>1 DEF Written
    <3>5. result'.op # "fwrite"
      BY <2>7
    <3> QED BY <3>3, <3>4, <3>5 DEF WrittenInv
  <2> QED BY <1>5, <2>6, <2>7
<1> QED BY <1>3, <1>6, <1>7

(* What fwrite says it has written, at once or a buffer at a time, at the  *)
(* position or at the end, is in the file in one piece.                    *)
THEOREM WrittenIsInFileCorrect == Spec => []WrittenIsInFile
<1>1. Init => WrittenInv
  BY DEF Init, WrittenInv, Idle, NoResult
<1>2. IInv /\ WrittenInv /\ [Next]_vars => WrittenInv'
  <2> SUFFICES ASSUME IInv, WrittenInv, [Next]_vars PROVE WrittenInv'
    OBVIOUS
  <2>1. CASE UNCHANGED vars
    BY <2>1 DEF vars, streamVars, WrittenInv, Written
  <2>2. CASE (\E m \in Mode : Fopen(m)) \/ Fclose \/ Fflush
    BY <2>2 DEF Fopen, Fclose, Fflush, Called, Idle, NoResult, WrittenInv
  <2>3. CASE \E n \in -1 .. 1, whence \in {"SEEK_SET", "SEEK_CUR", "SEEK_END"} : Fseek(n, whence)
    <3>1. call'.op = "none" /\ result'.op = "none"
      BY <2>3 DEF Fseek, SeekTo, Called, Idle, NoResult
    <3> QED BY <3>1 DEF WrittenInv
  <2>4. ASSUME NEW n \in ReadSizes, Fread(n) \/ FreadRefused(n) PROVE WrittenInv'
    <3>1. content' = content /\ call'.op # "fwrite" /\ (result' = result \/ result'.op # "fwrite")
      BY <2>4 DEF Fread, FreadRefused, FreadReturns, Idle, streamVars
    <3> QED BY <3>1, WrittenKept
  <2>5. CASE FreadCopy \/ FreadDone
    <3>1. InFread
      BY <2>5 DEF FreadCopy, FreadDone, IInv, InFwrite, NoCall, Idle
    <3>2. content' = content /\ (result' = result \/ result'.op = "fread")
      BY <2>5 DEF FreadCopy, FreadDone, FreadReturns, streamVars
    <3>3. \/ call' = Idle
          \/ \E data : call' = [call EXCEPT !.data = data]
          \/ \E data : call' = [call EXCEPT !.data = data, !.count = @ + 1]
      BY <2>5 DEF FreadCopy, FreadDone, FreadReturns
    <3>4. call'.op # "fwrite"
      <4>1. call.op = "fread"
        BY <3>1 DEF InFread
      <4>2. CASE call' = Idle
        BY <4>2 DEF Idle
      <4>3. ASSUME NEW data, \/ call' = [call EXCEPT !.data = data]
                             \/ call' = [call EXCEPT !.data = data, !.count = @ + 1]
            PROVE  call'.op # "fwrite"
        BY <3>1, <4>1, <4>3 DEF InFread
      <4> QED BY <3>3, <4>2, <4>3
    <3> QED BY <3>2, <3>4, WrittenKept
  <2> QED
    BY <2>1, <2>2, <2>3, <2>4, <2>5, SmallFwriteWritten, LargeFwriteWritten, FwriteCopyWritten DEF Next
<1>3. IInv /\ WrittenInv => WrittenIsInFile
  <2> SUFFICES ASSUME IInv, WrittenInv, result.op = "fwrite", result.failure # "unnoticed"
               PROVE  SubSeq(content, result.at + 1, result.at + result.count) = Data(result.count)
    BY DEF WrittenIsInFile
  <2>1. CASE Written(result.at, result.count)
    BY <2>1, WrittenIsSubSeq DEF IInv, TypeOK
  <2>2. CASE result.at \in Nat /\ result.count = -1
    <3>1. 1 .. -1 = 1 .. 0 /\ Data(-1) = Data(0)
      BY DEF Data
    <3>2. Len(Data(0)) = 0 /\ Data(0) \in Seq(Nat)
      BY DataProperties
    <3>3. Data(-1) = <<>>
      BY <3>1, <3>2, EmptySeq
    <3>4. SubSeq(content, result.at + 1, result.at + -1) = <<>>
      BY <2>2, SubSeqEmpty
    <3> QED BY <2>2, <3>3, <3>4
  <2> QED BY <2>1, <2>2 DEF WrittenInv
<1> QED BY <1>1, <1>2, <1>3, InvCorrect, PTL DEF Spec
-----------------------------------------------------------------------------
(***************************************************************************)
(* What fwrite returns                                                     *)
(***************************************************************************)

(* Writes the loop of fwrite gets right: less than a buffer, one, or two.  *)
OneLargeWrite ==
  /\ LargeWrites <= 1
  /\ \A n \in WriteSizes : n < BUFSIZE \/ n \in {BUFSIZE, 2 * BUFSIZE}

(* An fwrite in progress copies its first or its second whole buffer, and  *)
(* write_flag is not yet set; the last fwrite, if no write failed, left as *)
(* many bytes as it was given.                                             *)
CountedInv ==
  /\ large = 0 => ~write_flag
  /\ call.op = "fwrite" =>
       /\ large # 0 /\ ~write_flag
       /\ Len(buf) = BUFSIZE
       /\ \/ call.total \in {BUFSIZE, 2 * BUFSIZE} /\ call.done = 0 /\ call.count = 1
          \/ call.total = 2 * BUFSIZE /\ call.done = BUFSIZE /\ call.count = 3
  /\ result.op = "fwrite" /\ result.failure = "none" => result.count = result.total

(* How many whole buffers there are.                                       *)
LEMMA WholeBuffers ==
  /\ BUFSIZE \in Nat \ {0} /\ 2 * BUFSIZE \in Nat /\ 2 * BUFSIZE > BUFSIZE
  /\ BUFSIZE \div BUFSIZE = 1 /\ (2 * BUFSIZE) \div BUFSIZE = 2
<1>1. PICK b : b = BUFSIZE
  OBVIOUS
<1>2. b \in Nat \ {0}
  BY <1>1, BufsizeAssumption
<1>3. 2 * b \in Nat /\ 2 * b > b
  BY <1>2
<1>4. b \div b = 1
  BY <1>2
<1>5. (2 * b) \div b = 2
  BY <1>2
<1> QED BY <1>1, <1>2, <1>3, <1>4, <1>5

(* A turn that begins with a whole buffer still to be written writes it,   *)
(* unless a write fails that is noticed.                                   *)
LEMMA WritesWhole ==
  ASSUME IInv, NEW total \in {BUFSIZE, 2 * BUFSIZE}, total \in WriteSizes,
         NEW count \in Nat, NEW done \in Nat,
         count <= total \div BUFSIZE, done + BUFSIZE <= total, ~write_flag,
         UpdateBuffer(total, count, done)
  PROVE  /\ ~write_flag'
         /\ IF ptr /\ Failed THEN buf' = <<>> ELSE Len(buf') = BUFSIZE /\ buf' # <<>>
<1>1. PICK d : d = Slice(Data(total), done, done + WriteBytes(total, count))
  OBVIOUS
<1>2. /\ total \in Nat /\ BUFSIZE \in Nat \ {0} /\ done + BUFSIZE \in Nat /\ done <= done + BUFSIZE
      /\ WriteBytes(total, count) = BUFSIZE
  BY WholeBuffers DEF WriteBytes
<1>3. Data(total) \in Seq(Nat) /\ Len(Data(total)) = total
  BY <1>2, DataProperties
<1>4. d \in Seq(Nat) /\ Len(d) = IF done < total THEN AtMost(done + BUFSIZE, total) - done ELSE 0
  BY <1>1, <1>2, <1>3, SliceProperties
<1>5. Len(d) = BUFSIZE
  BY <1>2, <1>4 DEF AtMost
<1>6. d # <<>>
  BY <1>2, <1>5
<1>7. write_flag' = (write_flag \/ count > total \div BUFSIZE)
      /\ IF ptr /\ (write_flag' \/ Failed) THEN buf' = <<>> ELSE buf' = d
  BY <1>1 DEF UpdateBuffer
<1>8. ~ (count > total \div BUFSIZE)
  BY WholeBuffers
<1>9. ~write_flag'
  BY <1>7, <1>8, Zenon
<1> QED BY <1>5, <1>6, <1>7, <1>9, Zenon

LEMMA SmallFwriteCounted ==
  ASSUME IInv, CountedInv, NEW n \in WriteSizes, SmallFwrite(n)
  PROVE  CountedInv'
<1>1. /\ write_flag' = write_flag /\ large' = large /\ call'.op # "fwrite"
      /\ \/ result'.count = 0 /\ result'.total = 0
         \/ result'.failure = Failure /\ result'.total = n /\ result'.count = IF Failed THEN -1 ELSE n
  BY DEF SmallFwrite, FwriteReturns, Idle
<1>2. result'.failure = "none" => result'.count = result'.total
  <2>1. CASE result'.count = 0 /\ result'.total = 0
    BY <2>1
  <2>2. CASE result'.failure = Failure /\ result'.total = n /\ result'.count = IF Failed THEN -1 ELSE n
    BY <2>2 DEF Failure
  <2> QED BY <1>1, <2>1, <2>2
<1> QED BY <1>1, <1>2, Zenon DEF CountedInv

LEMMA LargeFwriteCounted ==
  ASSUME IInv, CountedInv, OneLargeWrite, NEW n \in WriteSizes, LargeFwrite(n)
  PROVE  CountedInv'
<1>1. /\ n >= BUFSIZE /\ large < LargeWrites /\ large' = large + 1
      /\ UpdateBuffer(n, 1, 0)
  BY DEF LargeFwrite
<1>2. large = 0 /\ large' # 0
  BY <1>1, BoundAssumption DEF IInv, TypeOK, OneLargeWrite
<1>3. ~write_flag
  BY <1>2, Zenon DEF CountedInv
<1>4. n \in {BUFSIZE, 2 * BUFSIZE}
  BY <1>1, WholeBuffers, SizesAssumption DEF OneLargeWrite
<1>5. 1 <= n \div BUFSIZE /\ 0 + BUFSIZE <= n /\ 0 \in Nat /\ 1 \in Nat
  BY <1>4, WholeBuffers
<1>6. /\ ~write_flag'
      /\ IF ptr /\ Failed THEN buf' = <<>> ELSE Len(buf') = BUFSIZE /\ buf' # <<>>
  BY <1>1, <1>3, <1>4, <1>5, WritesWhole
<1>7. CASE buf' = <<>>
  <2>1. call'.op # "fwrite" /\ result'.failure = Failure
    BY <1>7 DEF LargeFwrite, FwriteReturns, Idle
  <2>2. Failed
    BY <1>6, <1>7, Zenon
  <2>3. result'.failure # "none"
    BY <2>1, <2>2 DEF Failure
  <2> QED BY <1>6, <2>1, <2>3, Zenon DEF CountedInv
<1>8. CASE buf' # <<>>
  <2>1. call'.total = n /\ call'.done = 0 /\ call'.count = 1 /\ result'.op # "fwrite"
    BY <1>8 DEF LargeFwrite, NoResult
  <2>2. Len(buf') = BUFSIZE
    BY <1>6, <1>8, Zenon
  <2> QED BY <1>2, <1>4, <1>6, <2>1, <2>2, Zenon DEF CountedInv
<1> QED BY <1>7, <1>8

LEMMA FwriteCopyCounted ==
  ASSUME IInv, CountedInv, FwriteCopy
  PROVE  CountedInv'
<1>1. InFwrite /\ call.op = "fwrite"
  BY DEF FwriteCopy, IInv, InFread, NoCall, Idle
<1>2. PICK total, count, done : total = call.total /\ count = call.count + 1 /\ done = call.done + Len(buf)
  OBVIOUS
<1>3. /\ total \in WriteSizes /\ ptr /\ ~write_flag
      /\ \/ total = BUFSIZE /\ done = BUFSIZE /\ count = 2
         \/ total = 2 * BUFSIZE /\ done = BUFSIZE /\ count = 2
         \/ total = 2 * BUFSIZE /\ done = 2 * BUFSIZE /\ count = 4
  <2>1. call.total \in WriteSizes /\ ptr
    BY <1>1 DEF InFwrite
  <2>2. /\ ~write_flag
        /\ Len(buf) = BUFSIZE
        /\ \/ call.total \in {BUFSIZE, 2 * BUFSIZE} /\ call.done = 0 /\ call.count = 1
           \/ call.total = 2 * BUFSIZE /\ call.done = BUFSIZE /\ call.count = 3
    BY <1>1, Zenon DEF CountedInv
  <2> QED BY <1>2, <2>1, <2>2, WholeBuffers
<1>4. UpdateBuffer(total, count, done) /\ large' = large
  BY <1>2 DEF FwriteCopy
<1>5. large' # 0
  BY <1>1, <1>4, Zenon DEF CountedInv
<1>6. CASE done = total
  <2>1. call'.op # "fwrite" /\ result'.count = done /\ result'.total = total
    BY <1>2, <1>6 DEF FwriteCopy, FwriteReturns, Idle
  <2> QED BY <1>5, <1>6, <2>1, Zenon DEF CountedInv
<1>7. CASE done # total
  <2>1. total = 2 * BUFSIZE /\ done = BUFSIZE /\ count = 2
    BY <1>3, <1>7
  <2>2. count <= total \div BUFSIZE /\ done + BUFSIZE <= total /\ count \in Nat /\ done \in Nat
    BY <2>1, WholeBuffers
  <2>3. /\ ~write_flag'
        /\ IF ptr /\ Failed THEN buf' = <<>> ELSE Len(buf') = BUFSIZE /\ buf' # <<>>
    BY <1>3, <1>4, <2>1, <2>2, WritesWhole
  <2>4. CASE buf' = <<>>
    <3>1. /\ call'.op # "fwrite"
          /\ result'.failure = IF call.failure = "unnoticed" THEN call.failure ELSE Failure
      BY <2>4 DEF FwriteCopy, FwriteReturns, Idle
    <3>2. Failed
      BY <2>3, <2>4, Zenon
    <3>3. result'.failure # "none"
      BY <3>1, <3>2 DEF Failure
    <3> QED BY <1>5, <3>1, <3>3, Zenon DEF CountedInv
  <2>5. CASE buf' # <<>>
    <3>1. call' = [call EXCEPT !.done = done, !.count = @ + 2] /\ result' = result
      BY <1>2, <1>7, <2>5 DEF FwriteCopy
    <3>2. call'.total = total /\ call'.done = done /\ call'.count = call.count + 2
      BY <1>1, <1>2, <3>1 DEF InFwrite
    <3>3. call'.count = 3
      BY <1>1, <1>2, <2>1, <3>2 DEF InFwrite
    <3>4. result'.op # "fwrite"
      BY <1>1, <3>1 DEF InFwrite, NoResult
    <3>5. Len(buf') = BUFSIZE
      BY <2>3, <2>5, Zenon
    <3> QED BY <1>5, <2>1, <2>3, <3>2, <3>3, <3>4, <3>5, Zenon DEF CountedInv
  <2> QED BY <2>4, <2>5
<1> QED BY <1>6, <1>7

(* The turns of fread leave alone what this is about.                      *)
LEMMA FreadGoesOn ==
  ASSUME IInv, FreadCopy \/ FreadDone
  PROVE  /\ write_flag' = write_flag /\ large' = large /\ content' = content /\ call'.op # "fwrite"
         /\ result' = result \/ result'.op # "fwrite"
<1>1. InFread
  BY DEF FreadCopy, FreadDone, IInv, InFwrite, NoCall, Idle
<1>2. /\ write_flag' = write_flag /\ large' = large /\ content' = content
      /\ result' = result \/ result'.op = "fread"
  BY DEF FreadCopy, FreadDone, FreadReturns, streamVars
<1>3. \/ call' = Idle
      \/ \E data : call' = [call EXCEPT !.data = data]
      \/ \E data : call' = [call EXCEPT !.data = data, !.count = @ + 1]
  BY DEF FreadCopy, FreadDone, FreadReturns
<1>4. call'.op # "fwrite"
  <2>1. CASE call' = Idle
    BY <2>1 DEF Idle
  <2>2. ASSUME NEW data, \/ call' = [call EXCEPT !.data = data]
                         \/ call' = [call EXCEPT !.data = data, !.count = @ + 1]
        PROVE  call'.op # "fwrite"
    BY <1>1, <2>2 DEF InFread
  <2> QED BY <1>3, <2>1, <2>2
<1> QED BY <1>2, <1>4

LEMMA CountedKept ==
  ASSUME CountedInv, write_flag' = write_flag, large' = large, call'.op # "fwrite",
         result' = result \/ result'.op # "fwrite"
  PROVE  CountedInv'
BY Zenon DEF CountedInv

(* An fwrite of less than a buffer, or of one or two whole ones, the only  *)
(* large one on its stream, returns as many bytes as it was given unless a *)
(* write has failed; and what it returns is in the file.  No other size is *)
(* counted in full: from three buffers on, the count of line 337 is ahead  *)
(* of the buffers written, and a remainder is written but not counted.     *)
THEOREM FwriteWritesAllCorrect ==
  ASSUME OneLargeWrite
  PROVE  Spec => []FwriteWritesAll
<1>1. Init => CountedInv
  BY DEF Init, CountedInv, Idle, NoResult
<1>2. IInv /\ CountedInv /\ [Next]_vars => CountedInv'
  <2> SUFFICES ASSUME IInv, CountedInv, [Next]_vars PROVE CountedInv'
    OBVIOUS
  <2>1. CASE UNCHANGED vars
    BY <2>1, Zenon DEF vars, streamVars, CountedInv
  <2>2. ASSUME NEW m \in Mode, Fopen(m) PROVE CountedInv'
    <3>1. write_flag' = FALSE /\ call'.op # "fwrite" /\ result'.op # "fwrite"
      BY <2>2 DEF Fopen, Called, Idle, NoResult
    <3> QED BY <3>1, Zenon DEF CountedInv
  <2>3. CASE Fclose \/ Fflush
    <3>1. write_flag' = write_flag /\ large' = large /\ call'.op # "fwrite" /\ result'.op # "fwrite"
      BY <2>3 DEF Fclose, Fflush, Called, Idle, NoResult
    <3> QED BY <3>1, CountedKept
  <2>4. CASE \E n \in -1 .. 1, whence \in {"SEEK_SET", "SEEK_CUR", "SEEK_END"} : Fseek(n, whence)
    <3>1. write_flag' = write_flag /\ large' = large /\ call'.op # "fwrite" /\ result'.op # "fwrite"
      BY <2>4 DEF Fseek, SeekTo, Called, Idle, NoResult
    <3> QED BY <3>1, CountedKept
  <2>5. ASSUME NEW n \in ReadSizes, Fread(n) \/ FreadRefused(n) PROVE CountedInv'
    <3>1. /\ write_flag' = write_flag /\ large' = large /\ call'.op # "fwrite"
          /\ result' = result \/ result'.op # "fwrite"
      BY <2>5 DEF Fread, FreadRefused, FreadReturns, Idle, streamVars
    <3> QED BY <3>1, CountedKept
  <2>6. CASE FreadCopy \/ FreadDone
    <3>1. /\ write_flag' = write_flag /\ large' = large /\ call'.op # "fwrite"
          /\ result' = result \/ result'.op # "fwrite"
      BY <2>6, FreadGoesOn
    <3> QED BY <3>1, CountedKept
  <2> QED
    BY <2>1, <2>2, <2>3, <2>4, <2>5, <2>6, SmallFwriteCounted, LargeFwriteCounted, FwriteCopyCounted DEF Next
<1>3. IInv /\ CountedInv => (result.op = "fwrite" /\ result.failure = "none" => result.count = result.total)
  BY DEF CountedInv
<1>4. Spec => [](IInv /\ CountedInv)
  BY <1>1, <1>2, InvCorrect, PTL DEF Spec
<1>5. WrittenIsInFile /\ (IInv /\ CountedInv) => FwriteWritesAll
  BY <1>3 DEF FwriteWritesAll
<1> QED BY <1>4, <1>5, WrittenIsInFileCorrect, PTL
=============================================================================
