------------------------------ MODULE AtomicFile ------------------------------
(***************************************************************************)
(* What the secure file system promises a caller (spec.md sections 4.6,   *)
(* 7 and 8): the file is a byte sequence that changes only as a whole     *)
(* operation, a write or truncate either takes effect or leaves the file  *)
(* as it was (a write past the end may leave only its zero-filled         *)
(* extension), and a read returns the bytes of the file at the position, *)
(* clamped to its length.  Power loss closes the handle and keeps the     *)
(* file.                                                                  *)
(***************************************************************************)
EXTENDS Integers, Sequences

CONSTANTS MAX_FILE_SIZE, TEE_DATA_MAX_POSITION, DataValues, WriteLens, ReadLens,
          NoData

VARIABLES content, opened, pos, rd

vars == <<content, opened, pos, rd>>

Resize(c, n) == [i \in 1 .. n |-> IF i <= Len(c) THEN c[i] ELSE 0]

Overwrite(c, p, len, v) ==
    [i \in 1 .. (IF p + len > Len(c) THEN p + len ELSE Len(c)) |->
        IF p < i /\ i <= p + len THEN v
        ELSE IF i <= Len(c) THEN c[i] ELSE 0]

\* The bytes a read of n bytes at position p returns.
Slice(c, p, n) ==
    IF p > Len(c) THEN <<>>
    ELSE SubSeq(c, p + 1, IF p + n > Len(c) THEN Len(c) ELSE p + n)

Init ==
    /\ content = <<>>
    /\ opened = FALSE
    /\ pos = 0
    /\ rd = NoData

Open ==
    /\ ~opened
    /\ \/ opened' = TRUE /\ pos' = 0
       \/ UNCHANGED <<opened, pos>>
    /\ rd' = NoData
    /\ UNCHANGED content

\* Close, or power loss with no operation in progress.
Close ==
    /\ opened
    /\ opened' = FALSE /\ pos' = 0
    /\ rd' = NoData
    /\ UNCHANGED content

\* An operation that leaves the file c or changes it to c2, possibly
\* interrupted by power loss; c1 is the file after the step.
Update(c, c1, c2, newPos) ==
    /\ opened
    /\ rd' = NoData
    /\ \/ opened' = TRUE /\ pos' \in newPos
       \/ opened' = FALSE /\ pos' = 0
    /\ c1 \in {c, c2}

\* A write takes effect, or leaves the file as it was or with only its zero
\* extension to pos; either way the cursor stays or is past the data, since
\* a refused commit after the block loop does not restore it.
Write ==
    LET c == content  c1 == content' IN
    \E len \in WriteLens, v \in DataValues :
       /\ pos + len <= MAX_FILE_SIZE
       /\ \/ Update(c, c1, Overwrite(c, pos, len, v), {pos, pos + len})
          \/ Update(c, c1, Resize(c, pos), {pos, pos + len})

Truncate ==
    LET c == content  c1 == content' IN
    \E n \in 0 .. MAX_FILE_SIZE : Update(c, c1, Resize(c, n), {pos})

Seek ==
    /\ opened
    /\ pos' \in 0 .. TEE_DATA_MAX_POSITION
    /\ rd' = NoData
    /\ UNCHANGED <<content, opened>>

\* A read returns the bytes at pos and moves past them, or fails having
\* moved over part of them.
Read ==
    LET c == content IN
    /\ opened
    /\ UNCHANGED opened
    /\ \E n \in ReadLens :
          LET s == Slice(c, pos, n)
          IN  \/ rd' = s /\ pos' = pos + Len(s)
              \/ rd' = NoData /\ pos' \in pos .. pos + Len(s)
    /\ content' = c

Next == Seek \/ Read \/ Open \/ Close \/ Truncate \/ Write

Spec == Init /\ [][Next]_vars

=============================================================================
