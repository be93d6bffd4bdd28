------------------------------ MODULE TypeOrm ------------------------------
(***************************************************************************)
(* The part of TypeORM's Repository that the services rely on.  A service  *)
(* loads an entity with findOne, assigns some of its properties and hands  *)
(* the whole entity back to repository.save.  save is not atomic: it loads *)
(* the stored row once more, computes which columns of the entity differ   *)
(* from it, and then issues an UPDATE of exactly these columns (an INSERT, *)
(* when it found no row).  A concurrent request can therefore slip in      *)
(* between findOne and save, and between the two queries of save itself.   *)
(* A row is a record whose fields are the columns that matter.             *)
(***************************************************************************)

CONSTANT Absent     \* what findOne answers when no row has the identifier

\* The columns save will write: those in which the entity differs from the
\* row it has just loaded.
Dirty(entity, row) == {c \in DOMAIN entity : entity[c] # row[c]}

\* The row after UPDATE ... SET cols WHERE id = ...: the other columns keep
\* whatever value they have by now.
Patched(row, entity, cols) ==
    [c \in DOMAIN row |-> IF c \in cols THEN entity[c] ELSE row[c]]

\* Effect of that UPDATE on a row that may have been deleted in between: an
\* UPDATE that matches no row changes nothing, and save does not notice.
Updated(row, entity, cols) ==
    IF row = Absent THEN Absent ELSE Patched(row, entity, cols)
=============================================================================
