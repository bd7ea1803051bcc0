---------------------------- MODULE Decompressor ----------------------------
(***************************************************************************)
(* What a caller of isal_inflate is promised (include/igzip_lib.h), of     *)
(* whatever size its buffers are: the bytes written to them, put together, *)
(* are the text of the file; the end is reported when all of the text has  *)
(* been written, and only then; a file is refused only if it is invalid.   *)
(***************************************************************************)
EXTENDS Integers, Sequences

VARIABLES
  text,   \* what the file decompresses to, as far as it is valid
  valid,  \* whether all of it is
  out,    \* what was written to the caller's buffers so far
  status  \* "more", "end" or "refused"

dvars == <<text, valid, out, status>>

(* t starts with s.                                                        *)
Continues(s, t) == Len(s) <= Len(t) /\ s = SubSeq(t, 1, Len(s))

Init == out = <<>> /\ status = "more"

Write ==
  /\ status = "more"
  /\ Continues(out, out') /\ Continues(out', text)
  /\ UNCHANGED <<text, valid, status>>
Finish == /\ status = "more" /\ valid /\ out = text /\ status' = "end"
          /\ UNCHANGED <<text, valid, out>>
Refuse == /\ status = "more" /\ ~valid /\ status' = "refused"
          /\ Continues(out, out') /\ Continues(out', text)
          /\ UNCHANGED <<text, valid>>

Spec == Init /\ [][Write \/ Finish \/ Refuse]_dvars
=============================================================================
