--------------------------- MODULE MCTelnetSession ---------------------------
(* Lines of up to three characters and a history of two lines reach every place
   of the cursor; the memory of a new socket can hold anything, one value of each
   kind. *)
EXTENDS TelnetSession

MCStartHistPos == {-7, 0, 9}
=============================================================================
