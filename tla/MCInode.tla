------------------------------ MODULE MCInode ------------------------------
(* Instances of Inode for TLC. *)
EXTENDS Inode, TLC

CONSTANTS p1, p2

Abs(op, path) == [op |-> op, path |-> path, abs |-> TRUE, write |-> TRUE]
Rel(op, path) == [Abs(op, path) EXCEPT !.abs = FALSE]
Link(old, new) == [op |-> "link", path |-> old, new |-> new, abs |-> TRUE]

AllCalls == p1 :> {Abs("create", <<"a">>), Abs("mkdir", <<"a">>), Link(<<"a">>, <<"b">>), Abs("open", <<"a">>)}
         @@ p2 :> {Abs("create", <<"a", "b">>), Abs("unlink", <<"a">>), Abs("unlink", <<"b">>),
                   Abs("chdir", <<"a">>), Rel("chdir", <<"..">>)}

LinkUnlink == p1 :> {Abs("create", <<"a">>), Link(<<"b">>, <<"a">>), Abs("unlink", <<"a">>)}
           @@ p2 :> {Abs("create", <<"a">>), Link(<<"b">>, <<"a">>), Abs("unlink", <<"a">>)}

OpenUnlink == p1 :> {Abs("create", <<"a">>), Abs("unlink", <<"a">>)} @@ p2 :> {Abs("open", <<"a">>)}
=============================================================================
