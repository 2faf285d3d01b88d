--------------------------- MODULE MCUpdateSystem ---------------------------
(***************************************************************************)
(* Small instances of UpdateSystem: two firmware files.                    *)
(***************************************************************************)
EXTENDS UpdateSystem, TLC

CONSTANTS a, b   \* the files

MCImages == {a, b}

\* One block and two.
FittingSize == a :> 2 @@ b :> 1


\* a is an empty file.
EmptySize == a :> 0 @@ b :> 1
=============================================================================
