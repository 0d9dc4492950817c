------------------------------- MODULE MCFiles -------------------------------
EXTENDS Files, TLC

CONSTANTS na, nb, nc, nd, t1, t2

(* Two buckets; na and nc share one, and nd has the hash of na. *)
MCHash == (na :> 2) @@ (nb :> 1) @@ (nc :> 4) @@ (nd :> 2) @@ (NoName :> 3)

Rel(names, len) == [abs |-> FALSE, names |-> names, len |-> len]
Abs(names, len) == [abs |-> TRUE, names |-> names, len |-> len]

(* A directory, a file with contents in it, and an empty file. *)
MCArchive ==
  <<[path |-> Rel(<<na>>, 2), dir |-> TRUE, size |-> 0],
    [path |-> Rel(<<na, nb>>, 3), dir |-> FALSE, size |-> 1],
    [path |-> Rel(<<nc>>, 1), dir |-> FALSE, size |-> 0]>>

MCLoad(calls, tasks, paths, modes, offsets, ids, most) ==
  [calls |-> calls, tasks |-> tasks, paths |-> paths, modes |-> modes, offsets |-> offsets,
   ids |-> ids, handles |-> most]

(* Handles and sockets of two tasks; a file written, read and positioned   *)
(* through two handles, and one of the archive; the standard handles;      *)
(* listings while directories are made; paths.                             *)
MCWorkloads ==
  {MCLoad({"open", "close", "socket"}, {t1, t2}, {Abs(<<nc>>, 2)}, {"rw"}, {0}, {0, 6, 7, 8}, 3),
   MCLoad({"open", "io", "seek"}, {t1}, {Abs(<<nc>>, 2)}, {"r", "rw"}, {-2, 0, 1}, {6, 7}, 2),
   MCLoad({"open", "io", "close"}, {t1}, {Rel(<<na, nb>>, 3), Rel(<<na>>, 2)}, {"w", "rw"}, {0}, {0, 6}, 1),
   MCLoad({"io", "seek"}, {t1, t2}, {}, {}, {-2, 0, 1}, {1}, 0),
   MCLoad({"open", "entries", "mkdir", "seek"}, {t1},
          {Abs(<<>>, 1), Rel(<<nb>>, 1), Rel(<<na, nc>>, 3), Rel(<<nb, nd>>, 3)},
          {"r"}, {0}, {6, 7}, 2),
   MCLoad({"openat", "chdir", "stat", "mkdir"}, {t1},
          {Abs(<<>>, 1), Rel(<<na>>, 1), Rel(<<na, nb>>, 3), Abs(<<nc>>, 2), Rel(<<nb>>, 1),
           Rel(<<na, nc>>, 8), Rel(<<nb, nd>>, 3)}, {"r"}, {0}, {}, 1)}
=============================================================================
