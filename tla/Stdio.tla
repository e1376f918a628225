-------------------------------- MODULE Stdio -------------------------------
(***************************************************************************)
(* hw5/mystdio.h: a FILE with one buffer over open, read, write and lseek. *)
(* A program opens a stream and calls fread, fwrite, fseek and fflush on   *)
(* it.  fread and fwrite move a buffer at a time; the loops that copy byte *)
(* by byte are taken in one step per buffer, as nothing can come between.  *)
(*                                                                         *)
(* stream->size is Len(buf): `buf' is what is left of the buffer from ptr  *)
(* on.  Files are regular, so a short read means the end of the file.  A   *)
(* read or a write of an open file may fail (an I/O error), but no write   *)
(* writes only a part; fopen and lseek fail only as the code's arguments   *)
(* make them.                                                              *)
(***************************************************************************)
EXTENDS Integers, Sequences

CONSTANTS
  BUFSIZE,       \* size of the buffer, 1024 in the code
  MaxLen,        \* bound on the length of the file before the first fopen
  MaxCalls,      \* bound on the calls a program makes
  ReadSizes,     \* the totals a program asks fread for
  WriteSizes,    \* the totals a program gives fwrite
  LargeWrites,   \* how many writes of BUFSIZE or more it makes per stream
  MaxFailures    \* how many reads and writes of the file fail

ASSUME BufsizeAssumption == BUFSIZE \in Nat \ {0}
ASSUME SizesAssumption == ReadSizes \subseteq Nat /\ WriteSizes \subseteq Nat
ASSUME BoundAssumption == MaxLen \in Nat /\ MaxCalls \in Nat /\ LargeWrites \in Nat /\ MaxFailures \in Nat

VARIABLES
  content,      \* the bytes of the file
  offset,       \* the offset of the descriptor
  mode,         \* how the stream was opened, "none" if it is not
  buf,          \* the bytes left in the buffer
  ptr,          \* is stream->ptr set?
  eof,          \* stream->eof
  write_flag,   \* stream->write_flag
  call,         \* the fread or fwrite in progress
  result,       \* what the last fread or fwrite did
  unsynced,     \* was the last call an fread that returned all it was asked?
  large,        \* writes of BUFSIZE or more on this stream
  calls,        \* calls made
  failures      \* reads and writes of the file that have failed

streamVars == <<content, offset, mode, buf, ptr, eof, write_flag>>
vars == <<streamVars, call, result, unsynced, large, calls, failures>>

Mode == {"r", "r+", "w", "w+", "a", "a+"}
Writing == {"w", "a"}
Appending == {"a", "a+"}

Idle == [op |-> "none"]
NoResult == [op |-> "none"]
Slice(s, from, to) == SubSeq(s, from + 1, IF to < Len(s) THEN to ELSE Len(s))
AtMost(a, b) == IF a < b THEN a ELSE b

(* The bytes a program writes: any that the file does not start with.      *)
Data(n) == [i \in 1 .. n |-> MaxLen + i]

Init ==
  /\ \E n \in 0 .. MaxLen : content = [i \in 1 .. n |-> i]
  /\ offset = 0
  /\ mode = "none"
  /\ buf = <<>> /\ ptr = FALSE /\ eof = FALSE /\ write_flag = FALSE
  /\ call = Idle
  /\ result = NoResult
  /\ unsynced = FALSE /\ large = 0 /\ calls = 0 /\ failures = 0

Called == call = Idle /\ calls < MaxCalls /\ calls' = calls + 1

(* A system call of this step returns -1, or none does.                    *)
Fails == failures < MaxFailures /\ failures' = failures + 1
Succeeds == UNCHANGED failures
Failed == failures' # failures
Failure == IF Failed THEN "noticed" ELSE "none"

Fopen(m) ==
  /\ Called
  /\ mode = "none"
  /\ mode' = m
  /\ content' = IF m \in {"w", "w+"} THEN <<>> ELSE content
  /\ offset' = 0
  /\ buf' = <<>> /\ ptr' = FALSE /\ eof' = FALSE /\ write_flag' = FALSE
  /\ result' = NoResult
  /\ unsynced' = FALSE /\ large' = 0
  /\ UNCHANGED <<call, failures>>

Fclose ==
  /\ Called
  /\ mode # "none"
  /\ mode' = "none"
  /\ result' = NoResult
  /\ UNCHANGED <<content, offset, buf, ptr, eof, write_flag, call, unsynced, large, failures>>

(***************************************************************************)
(* fread                                                                   *)
(***************************************************************************)

(* Fault: everything is asked for at once, whatever the buffer can hold.   *)
CopyBytes_Unlimited(total, count) == total

(* Fault: the rounds are counted from 0.                                   *)
CopyBytes_OneLess(total, count) == IF count < total \div BUFSIZE THEN BUFSIZE ELSE total % BUFSIZE

(* fillBuffer: a whole buffer, or, after read_loop of them, read_remain    *)
(* bytes; the end of the file is noticed when nothing is read.             *)
CopyBytes(total, count) == IF count <= total \div BUFSIZE THEN BUFSIZE ELSE total % BUFSIZE

Filled(total, count) == Slice(content, offset, offset + CopyBytes(total, count))

(* Fault: a read of less than a buffer is taken for the end of the file.   *)
FillBuffer_ShortIsEof(total, count) ==
  /\ Succeeds
  /\ buf' = Filled(total, count)
  /\ offset' = offset + Len(buf')
  /\ eof' = (eof \/ Len(buf') < BUFSIZE)
  /\ ptr' = TRUE

(* A read that fails is taken for one that meets the end of the file.      *)
FillBuffer(total, count) ==
  /\ \/ Succeeds /\ buf' = Filled(total, count)
     \/ Fails /\ buf' = <<>>
  /\ offset' = offset + Len(buf')
  /\ eof' = (eof \/ buf' = <<>>)
  /\ ptr' = TRUE

FreadReturns(data, total) ==
  /\ call' = Idle
  /\ result' = [op |-> "fread", data |-> data, total |-> total, failure |-> Failure]
  /\ unsynced' = (Len(data) = total)

(* A stream that is only written to returns 0 at once.                     *)
FreadRefused(n) ==
  /\ Called
  /\ mode \in Writing
  /\ Succeeds
  /\ FreadReturns(<<>>, n)
  /\ UNCHANGED <<streamVars, large>>

Fread(n) ==
  /\ Called
  /\ mode \in Mode \ Writing
  /\ \/ /\ buf = <<>>
        /\ FillBuffer(n, 1)
        /\ IF buf' = <<>>
           THEN FreadReturns(<<>>, n)
           ELSE /\ call' = [op |-> "fread", total |-> n, data |-> <<>>, count |-> 1]
                /\ UNCHANGED <<result, unsynced>>
     \/ /\ buf # <<>>
        /\ call' = [op |-> "fread", total |-> n, data |-> <<>>, count |-> 0]
        /\ UNCHANGED <<offset, buf, ptr, eof, result, unsynced, failures>>
  /\ UNCHANGED <<content, mode, write_flag, large>>

(* Fault: the loop goes on when nothing more can be read.                  *)
FreadCopy_NeverGivesUp ==
  /\ call.op = "fread"
  /\ Len(call.data) < call.total
  /\ LET n == AtMost(Len(buf), call.total - Len(call.data))
         data == call.data \o SubSeq(buf, 1, n)
     IN  IF n < Len(buf)
         THEN /\ buf' = SubSeq(buf, n + 1, Len(buf))
              /\ call' = [call EXCEPT !.data = data]
              /\ UNCHANGED <<offset, eof, ptr, failures>>
         ELSE /\ FillBuffer(call.total, call.count)
              /\ call' = [call EXCEPT !.data = data, !.count = IF buf' = <<>> THEN @ ELSE @ + 1]
  /\ UNCHANGED <<content, mode, write_flag, result, unsynced, large, calls>>

(* One turn of the loop for as many bytes as the buffer and the caller     *)
(* have room for; an emptied buffer is filled at once, even if the caller  *)
(* has got all it asked for.                                               *)
FreadCopy ==
  /\ call.op = "fread"
  /\ Len(call.data) < call.total
  /\ LET n == AtMost(Len(buf), call.total - Len(call.data))
         data == call.data \o SubSeq(buf, 1, n)
     IN  IF n < Len(buf)
         THEN /\ buf' = SubSeq(buf, n + 1, Len(buf))
              /\ call' = [call EXCEPT !.data = data]
              /\ UNCHANGED <<offset, eof, ptr, result, unsynced, failures>>
         ELSE /\ FillBuffer(call.total, call.count)
              /\ IF buf' = <<>>
                 THEN FreadReturns(data, call.total)
                 ELSE /\ call' = [call EXCEPT !.data = data, !.count = @ + 1]
                      /\ UNCHANGED <<result, unsynced>>
  /\ UNCHANGED <<content, mode, write_flag, large, calls>>

FreadDone ==
  /\ call.op = "fread"
  /\ Len(call.data) = call.total
  /\ Succeeds
  /\ FreadReturns(call.data, call.total)
  /\ UNCHANGED <<streamVars, large, calls>>

(* Fault: O_APPEND is forgotten.                                           *)
WritePosition_NoAppend == offset

(***************************************************************************)
(* fwrite                                                                  *)
(***************************************************************************)
WritePosition == IF mode \in Appending THEN Len(content) ELSE offset

Overwrite(s, p, d) ==
  [i \in 1 .. (IF Len(s) > p + Len(d) THEN Len(s) ELSE p + Len(d)) |->
     IF i \in (p + 1) .. (p + Len(d)) THEN d[i - p]
     ELSE IF i <= Len(s) THEN s[i] ELSE 0]

(* write(): the bytes go to the file at once; writing none, or failing,    *)
(* moves nothing.                                                          *)
WriteFile(d) ==
  \/ /\ d # <<>>
     /\ Succeeds
     /\ content' = Overwrite(content, WritePosition, d)
     /\ offset' = WritePosition + Len(d)
  \/ /\ IF d = <<>> THEN Succeeds ELSE Fails
     /\ UNCHANGED <<content, offset>>

FwriteReturns(n, total, at, failure) ==
  /\ call' = Idle
  /\ result' = [op |-> "fwrite", count |-> n, total |-> total, at |-> at, failure |-> failure]
  /\ unsynced' = FALSE

(* Less than a buffer is written directly, and fwrite returns what write   *)
(* does; a stream that is only read writes nothing.                        *)
SmallFwrite(n) ==
  /\ Called
  /\ ~unsynced
  /\ mode \in Mode
  /\ mode # "r" => n < BUFSIZE
  /\ IF mode = "r"
     THEN FwriteReturns(0, 0, offset, "none") /\ UNCHANGED <<content, offset, failures>>
     ELSE /\ WriteFile(Data(n))
          /\ FwriteReturns(IF Failed THEN -1 ELSE n, n, WritePosition, Failure)
  /\ UNCHANGED <<mode, buf, ptr, eof, write_flag, large>>

(* Fault: the rounds are counted from 0.                                   *)
WriteBytes_OneLess(total, count) == IF count < total \div BUFSIZE THEN BUFSIZE ELSE total % BUFSIZE

(* BUFSIZE bytes or more.  Nothing is left in the buffer then (the second  *)
(* part of NothingUnread), so updateBuffer always runs first (line 311).   *)
(* updateBuffer writes the next buffer, or after write_loop of them the    *)
(* write_remain bytes.  It leaves the stream a full buffer to go through,  *)
(* unless write_flag, which is never cleared, says this was the last; or   *)
(* the write has failed, which only a stream whose ptr is set looks at.    *)
WriteBytes(total, count) == IF count <= total \div BUFSIZE THEN BUFSIZE ELSE total % BUFSIZE

UpdateBuffer(total, count, done) ==
  LET bytes == Slice(Data(total), done, done + WriteBytes(total, count)) IN
    /\ write_flag' = (write_flag \/ count > total \div BUFSIZE)
    /\ WriteFile(bytes)
    /\ IF ptr /\ (write_flag' \/ Failed)
       THEN buf' = <<>> /\ UNCHANGED ptr
       ELSE buf' = bytes /\ ptr' = TRUE

LargeFwrite(n) ==
  /\ Called
  /\ ~unsynced
  /\ mode \in Mode \ {"r"}
  /\ n >= BUFSIZE
  /\ large < LargeWrites
  /\ large' = large + 1
  /\ UpdateBuffer(n, 1, 0)
  /\ IF buf' = <<>>
     THEN FwriteReturns(0, n, WritePosition, Failure)
     ELSE /\ call' = [op |-> "fwrite", total |-> n, done |-> 0, count |-> 1,
                      at |-> WritePosition, failure |-> IF Failed THEN "unnoticed" ELSE "none"]
          /\ result' = NoResult
          /\ UNCHANGED unsynced
  /\ UNCHANGED <<mode, eof>>

(* The loop copies the bytes just written into the buffer they are in; an  *)
(* emptied buffer is updated, and `count' counts that twice (238 and 337). *)
FwriteCopy ==
  /\ call.op = "fwrite"
  /\ LET done == call.done + Len(buf) IN
       /\ UpdateBuffer(call.total, call.count + 1, done)
       /\ IF buf' = <<>> \/ done = call.total
          THEN FwriteReturns(done, call.total, call.at,
                             IF call.failure = "unnoticed" THEN call.failure ELSE Failure)
          ELSE /\ call' = [call EXCEPT !.done = done, !.count = @ + 2]
               /\ UNCHANGED <<result, unsynced>>
  /\ UNCHANGED <<mode, eof, large, calls>>

(* Fault: fseek moves the descriptor and keeps the buffer.                 *)
SeekTo_KeepsBuffer(p) ==
  /\ IF p >= 0 THEN offset' = p ELSE UNCHANGED offset
  /\ result' = NoResult
  /\ UNCHANGED <<content, mode, buf, ptr, eof, write_flag, call, unsynced, large, failures>>

(***************************************************************************)
(* fseek and fflush                                                        *)
(***************************************************************************)
SeekTo(p) ==
  /\ IF p >= 0
     THEN offset' = p /\ buf' = <<>> /\ ptr' = FALSE /\ unsynced' = FALSE
     ELSE UNCHANGED <<offset, buf, ptr, unsynced>>
  /\ result' = NoResult
  /\ UNCHANGED <<content, mode, eof, write_flag, call, large, failures>>

Fseek(n, whence) ==
  /\ Called
  /\ mode # "none"
  /\ SeekTo(CASE whence = "SEEK_SET" -> n
              [] whence = "SEEK_CUR" -> offset + n - Len(buf)
              [] whence = "SEEK_END" -> Len(content) + n)

(* fflush drops what is in the buffer: only the buffer of a stream that is *)
(* not being read may be flushed.                                          *)
Fflush ==
  /\ Called
  /\ mode # "none"
  /\ ~unsynced
  /\ buf' = <<>> /\ ptr' = FALSE
  /\ result' = NoResult
  /\ UNCHANGED <<content, offset, mode, eof, write_flag, call, unsynced, large, failures>>

Next ==
  \/ \E m \in Mode : Fopen(m)
  \/ Fclose
  \/ \E n \in ReadSizes : Fread(n) \/ FreadRefused(n)
  \/ \E n \in WriteSizes : SmallFwrite(n) \/ LargeFwrite(n)
  \/ FreadCopy \/ FreadDone \/ FwriteCopy
  \/ \E n \in -1 .. 1, whence \in {"SEEK_SET", "SEEK_CUR", "SEEK_END"} : Fseek(n, whence)
  \/ Fflush

Spec == Init /\ [][Next]_vars

(* A call that has begun goes on.                                          *)
FairSpec == Spec /\ WF_vars(FreadCopy \/ FreadDone \/ FwriteCopy)
-----------------------------------------------------------------------------
(***************************************************************************)
(* Properties                                                              *)
(***************************************************************************)

(* The type invariant.                                                     *)
TypeOK ==
  /\ content \in Seq(Nat)
  /\ offset \in Nat
  /\ mode \in Mode \cup {"none"}
  /\ buf \in Seq(Nat) /\ Len(buf) <= BUFSIZE
  /\ ptr \in BOOLEAN /\ eof \in BOOLEAN /\ write_flag \in BOOLEAN /\ unsynced \in BOOLEAN
  /\ call.op \in {"none", "fread", "fwrite"}
  /\ result.op \in {"none", "fread", "fwrite"}
  /\ calls \in 0 .. MaxCalls /\ large \in 0 .. LargeWrites
  /\ failures \in 0 .. MaxFailures

(* What is in the buffer is what the file holds before the offset, so no   *)
(* read is stale, not even after one that failed; and unless the last read *)
(* may have left something in the buffer it is empty, so that a write      *)
(* lands at the stream's position.  (An fwrite whose first write has       *)
(* failed goes through a buffer that the file has not got.)                *)
NothingUnread ==
  /\ mode # "none" /\ ~(call.op = "fwrite" /\ call.failure = "unnoticed") =>
       Len(buf) <= offset /\ buf = SubSeq(content, offset - Len(buf) + 1, offset)
  /\ call = Idle /\ mode # "none" /\ ~unsynced => buf = <<>>

(* fread returns less than it was asked for only at the end of the file or *)
(* when a read failed (lines 147-152), and feof tells so.                  *)
ShortReadIsEof ==
  result.op = "fread" /\ mode \notin Writing /\ call = Idle
    /\ Len(result.data) < result.total =>
      eof /\ buf = <<>> /\ (offset >= Len(content) \/ result.failure = "noticed")

(* feof does not speak too early: it is raised (lines 143 and 151) only    *)
(* when the last byte of the file has been handed out or is just being, by *)
(* a read that fails, or by an fread of no bytes, which reads none.        *)
EofOnlyAtEnd ==
  [][~eof /\ eof' =>
       /\ buf' = <<>>
       /\ offset' >= Len(content) \/ Failed \/ (result'.op = "fread" /\ result'.total = 0)]_vars

(* What fwrite says it has written is in the file, in one piece, from the  *)
(* stream's position on.  Only the first write of a large fwrite on a      *)
(* stream without a ptr fails unnoticed (line 271).                        *)
WrittenIsInFile ==
  result.op = "fwrite" /\ result.failure # "unnoticed" =>
    SubSeq(content, result.at + 1, result.at + result.count) = Data(result.count)

(* Comment at line 281: fwrite copies its size*nmemb bytes to the stream,  *)
(* at the stream's position, and returns how many they were; when a write  *)
(* fails, as many as it returns.                                           *)
FwriteWritesAll ==
  /\ WrittenIsInFile
  /\ result.op = "fwrite" /\ result.failure = "none" => result.count = result.total

(* Every call returns: the loops of fread and fwrite end.                  *)
CallsReturn == []<>(call = Idle)

Stream == INSTANCE ByteStream WITH
            Chunk <- UNION {{Slice(Data(n), i, j) : i, j \in 0 .. n} : n \in WriteSizes},
            pos <- offset - (IF call.op = "fwrite" THEN 0 ELSE Len(buf))
                          - (IF call.op = "fread" THEN Len(call.data) ELSE 0),
            appending <- mode \in Appending,
            got <- IF result.op = "fread" THEN result.data ELSE <<>>

(* Buffering cannot be told from reading, writing and seeking the file     *)
(* directly.                                                               *)
ImplementsByteStream == Stream!Spec
=============================================================================
