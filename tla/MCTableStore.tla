---------------------------- MODULE MCTableStore ----------------------------
(* Small instances of TableStore.                                          *)
EXTENDS TableStoreInv

CONSTANTS p1, p2, users, orders, ghost, noid

(* Files as INSERT leaves them: none, empty, and some numbered rows.       *)
MCNumberedFiles == {NoFile, << >>, <<1, 9>>, <<1, 9, 2, 8>>}
MCShortFiles == {NoFile, <<1, 9>>}

(* Files that INSERT did not leave: the next id is taken, at once or later. *)
MCForeignFiles == MCShortFiles \union {<<2, 9>>, <<3, 9>>, <<3, 9, 1, 8>>}
=============================================================================
