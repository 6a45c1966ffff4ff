---------------------------- MODULE MCNoteStore ----------------------------
(***************************************************************************)
(* Small instances of NoteStore: two daily notes, two writers, and requests  *)
(* that meet in them.                                                        *)
(***************************************************************************)
EXTENDS NoteStore

CONSTANTS d1, d2, k1, k2, a, b

Plain(op, n, t)     == [op |-> op, note |-> n, id |-> NoId, text |-> t, arg |-> 1, state |-> "next"]
Marked(op, n, k, t) == [Plain(op, n, t) EXCEPT !.id = k]

\* Every operation; one operation ID addressed to two notes, as after a change
\* of the day, and with two texts.
Mixed == {Marked("once", d1, k1, a), Marked("once", d2, k1, a), Marked("once", d1, k1, b),
          Marked("pathOnce", d1, k2, b), Plain("append", d1, b), Plain("path", d1, b),
          Plain("ensure", d1, a), Plain("rating", d1, a), Plain("task", d1, a),
          Plain("status", d1, a), [Plain("status", d1, a) EXCEPT !.state = "completed"]}

Toggling == {Plain("task", d1, a), Plain("status", d1, a)}

=============================================================================
