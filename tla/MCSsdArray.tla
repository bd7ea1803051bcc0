---------------------------- MODULE MCSsdArray ----------------------------
(***************************************************************************)
(* Model-checking instance of SsdArray: an odd number of data strips, and  *)
(* devices that end inside the region of the second strip on a device.     *)
(***************************************************************************)
EXTENDS SsdArray

MCCalls == {<<0, 2>>, <<1, 1>>}
=============================================================================
