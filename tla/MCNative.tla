------------------------------ MODULE MCNative ------------------------------
(***************************************************************************)
(* Small instances of NativeOvsdb.                                         *)
(***************************************************************************)
EXTENDS NativeOvsdb, TLC

CONSTANTS vPlain, vUser, r1, r2, r3, r4

MCVifs  == {vPlain, vUser}
MCPlain == {vPlain}
MCRows  == {r1, r2, r3, r4}

\* Which name a new row gets does not matter.
RowNames == Permutations(MCRows)
=============================================================================
