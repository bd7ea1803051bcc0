---------------------------- MODULE StripStore ----------------------------
(***************************************************************************)
(* What the SSD functions promise: every strip of a stripe has storage of  *)
(* its own.  A transfer concerns one strip and a contiguous part of it,    *)
(* which may be shorter than the part asked for.                           *)
(***************************************************************************)
EXTENDS Naturals

CONSTANTS
  Strips, Size,     \* blocks of a strip
  Versions, Blank   \* data stored, and content of a block never written

VARIABLES strip, matrix   \* what is stored, and the caller's read buffers

vars == <<strip, matrix>>

Positions == 0 .. Size - 1
Image == [Strips -> [Positions -> (Strips \X Versions) \cup {Blank}]]

Init == strip \in Image /\ matrix \in Image

(* Blocks from .. to of strip s get the data v. *)
Put(s, from, to, v) ==
  /\ UNCHANGED matrix
  /\ strip' = [strip EXCEPT ![s] = [p \in Positions |->
                  IF p \in from .. to THEN <<s, v>> ELSE @[p]]]

Get(s, from, to) ==
  /\ UNCHANGED strip
  /\ LET stored == strip[s] IN
       matrix' = [matrix EXCEPT ![s] = [p \in Positions |->
                    IF p \in from .. to THEN stored[p] ELSE @[p]]]

Next == \E s \in Strips, from \in Positions : \E to \in from .. Size - 1 :
          \/ \E v \in Versions : Put(s, from, to, v)
          \/ Get(s, from, to)

Spec == Init /\ [][Next]_vars
=============================================================================
