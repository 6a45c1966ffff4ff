--------------------------- MODULE MCSearchIndex ---------------------------
(***************************************************************************)
(* A small instance of SearchIndex: texts of which one has a chunk more than  *)
(* the other, and an upgrade that joins two chunks and splits another.       *)
(***************************************************************************)
EXTENDS SearchIndex

Piece(kind, ord, text) == [kind |-> kind, ord |-> ord, text |-> text]

MCChunks(t) ==
    IF t = "short" THEN {Piece("task", 0, "a b")}
    ELSE {Piece("task", 0, "a"), Piece("paragraph", 1, "b")}

MCOldChunks(t) ==
    IF t = "short" THEN {Piece("task", 0, "a"), Piece("task", 1, "b")}
    ELSE {Piece("task", 0, "a b")}

=============================================================================
