------------------------ MODULE MCWorkingMemoryCache ------------------------
(***************************************************************************)
(* Instances of WorkingMemoryCache: the contents of files as sequences of  *)
(* line sizes, and the ranges of lines that are read.                      *)
(***************************************************************************)
EXTENDS WorkingMemoryCache

\* two lines, another with a first line of another size, more than the cache holds
SomeContents == {<<1, 1>>, <<2, 1>>, Absent}
\* the first line of every file, and one of them whole
SomeKeys == File \X {<<1, 1>>} \cup {<<CHOOSE f \in File : TRUE, Whole>>}
=============================================================================
