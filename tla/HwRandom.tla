------------------------------- MODULE HwRandom -------------------------------
(***************************************************************************)
(* hw_get_random_bytes of src/compat/random.c, the entropy source behind   *)
(* FEK generation: it fills buf with getrandom(buf, blen, GRND_RANDOM).    *)
(* getrandom may fail (-1), or return fewer bytes than asked when the      *)
(* entropy pool runs short or a signal arrives; with blen = 0 it returns   *)
(* 0.  The buffer is abstracted to the number of bytes filled.             *)
(***************************************************************************)
EXTENDS Integers

CONSTANTS
    Lens          \* buffer lengths callers pass

VARIABLES
    asked,        \* blen of the last call
    filled,       \* bytes of buf the last call filled
    res           \* its result

vars == <<asked, filled, res>>

\* The byte counts getrandom(buf, blen, GRND_RANDOM) may return; -1 is an
\* error, which fills nothing.
getrandom(blen) == IF blen = 0 THEN {-1, 0} ELSE {-1} \cup 1 .. blen

Init ==
    /\ asked = 0
    /\ filled = 0
    /\ res = "SUCCESS"

\* One call; buf_null is a NULL buffer.
hw_get_random_bytes(buf_null, blen) ==
    /\ asked' = blen
    /\ IF buf_null
       THEN res' = "BAD_PARAMETERS" /\ filled' = 0
       ELSE \E ret \in getrandom(blen) :
               /\ filled' = IF ret > 0 THEN ret ELSE 0
               /\ res' = IF ret > 0 THEN "SUCCESS" ELSE "GENERIC"

Next == \E buf_null \in BOOLEAN, blen \in Lens : hw_get_random_bytes(buf_null, blen)

Spec == Init /\ [][Next]_vars

\* A successful call filled the whole buffer: the key manager uses all
\* blen bytes as key material once hw_get_random_bytes returns SUCCESS,
\* and the code treats any positive getrandom count as success.
FilledOnSuccess == res = "SUCCESS" => filled = asked

=============================================================================
