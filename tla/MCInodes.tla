------------------------------ MODULE MCInodes ------------------------------
(* For TLC: which paths each call is used with, and interchangeable        *)
(* processes.                                                              *)
EXTENDS Inodes, TLC

Path(abs, names) == [abs |-> abs, names |-> names]
SlashA == Path(TRUE, <<"a">>)
B      == Path(FALSE, <<"b">>)
SlashAB == Path(TRUE, <<"a", "b">>)
ABUp == Path(TRUE, <<"a", "b", "..">>)
Slash == Path(TRUE, <<>>)
Up     == Path(FALSE, <<"..">>)
SomePaths == [call \in Calls |-> CASE call = "chdir" -> {Slash, SlashA, Up}
                                   [] call = "link" -> {B} 
                                   [] call = "open" -> {SlashA, ABUp}
                                   [] call = "unlink" -> {SlashA, B, SlashAB, Up}
                                   [] OTHER -> {SlashA, B, SlashAB}]
SomeNewPaths == {Slash, SlashA}
Symmetry == Permutations(Procs)
=============================================================================
