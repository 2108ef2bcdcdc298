------------------------------ MODULE MCATADisk ------------------------------
(* Requests of one sector, a chunk, and two chunks and a part; counts of a *)
(* chunk are 0 in the count register, as 256 is.                           *)
EXTENDS ATADisk

MCRequests == {<<0, 1>>, <<2, 4>>, <<1, 9>>}
=============================================================================
