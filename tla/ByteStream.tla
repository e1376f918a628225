----------------------------- MODULE ByteStream -----------------------------
(***************************************************************************)
(* What a buffered stream promises: a position in a sequence of bytes that *)
(* reading, writing and seeking move, as if there were no buffer.          *)
(***************************************************************************)
EXTENDS Integers, Sequences

CONSTANT Chunk   \* the sequences of bytes that may be written at once

VARIABLES
  content,     \* the bytes of the file
  pos,         \* the position of the stream in them
  appending,   \* is everything written at the end?
  got          \* what the last operation read

vars == <<content, pos, appending, got>>

Slice(s, from, to) == SubSeq(s, from + 1, IF to < Len(s) THEN to ELSE Len(s))

(* Bytes d written at position p; a gap before p reads as zeros.           *)
Overwrite(s, p, d) ==
  [i \in 1 .. (IF Len(s) > p + Len(d) THEN Len(s) ELSE p + Len(d)) |->
     IF i \in (p + 1) .. (p + Len(d)) THEN d[i - p]
     ELSE IF i <= Len(s) THEN s[i] ELSE 0]

Init ==
  /\ content \in Seq(Nat)
  /\ pos = 0
  /\ appending = FALSE
  /\ got = <<>>

(* The stream is opened, on the file as it is or emptied.                  *)
Open ==
  /\ content' \in {content, <<>>}
  /\ pos' = 0
  /\ appending' \in BOOLEAN
  /\ got' = <<>>

Close == appending' = FALSE /\ got' = <<>> /\ UNCHANGED <<content, pos>>

Read(n) ==
  /\ got' = Slice(content, pos, pos + n)
  /\ pos' = pos + Len(got')
  /\ UNCHANGED <<content, appending>>

Write(d) ==
  LET at == IF appending THEN Len(content) ELSE pos IN
    /\ content' = Overwrite(content, at, d)
    /\ pos' = at + Len(d)
    /\ got' = <<>>
    /\ UNCHANGED appending

Seek ==
  /\ pos' \in Nat
  /\ got' = <<>>
  /\ UNCHANGED <<content, appending>>

Next ==
  \/ Open \/ Close \/ Seek
  \/ \E n \in 0 .. Len(content) : Read(n)
  \/ \E d \in Chunk : d # <<>> /\ Write(d)

Spec == Init /\ [][Next]_vars
=============================================================================
