----------------------------- MODULE MCConsole -----------------------------
(* Instances of Console for TLC: see the .cfg file. *)
EXTENDS Console

\* A plain command and a piped one.
ShortDemo == << <<"prog">>, <<"pipe", "prog">> >>
=============================================================================
