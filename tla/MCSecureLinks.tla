---------------------------- MODULE MCSecureLinks ----------------------------
(* Two workers with the key file of one machine and a third one with       *)
(* another: a hop between users of one file, a hop between files, and two  *)
(* users of one file besides `lankamind keys`.  In the shorter chain every *)
(* hop is one between users of one file, the best case for encryption.     *)
EXTENDS SecureLinks

const_Files == {10, 11}
const_File == [w \in 0 .. 2 |-> IF w < 2 THEN 10 ELSE 11]

const_OneFile == {10}
const_Shared == [w \in 0 .. 1 |-> 10]
=============================================================================
