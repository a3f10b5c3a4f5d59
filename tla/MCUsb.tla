-------------------------------- MODULE MCUsb --------------------------------
(***************************************************************************)
(* Rings of eight TRBs: the keyboard's ring is used up by the third key    *)
(* report.  The user types held, repeated and rolled-over keys.            *)
(***************************************************************************)
EXTENDS Xhci

\* 4 is the code of A, 5 of B and 31 of 2.
SomeTyping ==
  {<<<<4, 31>>, <<31, 5>>>>,
   <<<<4>>, <<>>, <<4, 5>>>>}
============================================================================
