---------------------------- MODULE ImageStream ----------------------------
(***************************************************************************)
(* What nl_push()'s payload phase promises, with no buffers and no writer  *)
(* thread: the image reaches the flash from its first byte on, each byte   *)
(* behind the ones before it and none beyond a gap, and the answer is "ok" *)
(* only if all of it is there.                                             *)
(***************************************************************************)
EXTENDS Naturals

CONSTANTS
  MaxLen,
  Erased     \* a byte of flash that was not programmed

VARIABLES
  len,       \* length of the image being pushed
  slot,      \* the flash under it: one byte for each byte of the image
  result     \* "none" while the transfer is going on

streamVars == << len, slot, result >>

\* A slot of l bytes that holds the first n bytes of the image and no other; a
\* byte of the image is its position.
Prefix(l, n) == [p \in 0..(l - 1) |-> IF p < n THEN p ELSE Erased]

Init == len = 0 /\ slot = Prefix(0, 0) /\ result = "none"

\* A push begins on a freshly erased slot.
Begin == /\ len' \in 1..MaxLen
         /\ slot' = Prefix(len', 0)
         /\ result' = "none"

\* More of the image is programmed, right behind what is already there.
Extend == /\ \E n \in 0..len : \E m \in (n + 1)..len :
               slot = Prefix(len, n) /\ slot' = Prefix(len, m)
          /\ UNCHANGED << len, result >>

Succeed == /\ result = "none"
           /\ slot = Prefix(len, len)
           /\ result' = "ok"
           /\ UNCHANGED << len, slot >>

Fail == /\ result = "none"
        /\ result' = "failed"
        /\ UNCHANGED << len, slot >>

Next == Begin \/ Extend \/ Succeed \/ Fail

Spec == Init /\ [][Next]_streamVars
=============================================================================
