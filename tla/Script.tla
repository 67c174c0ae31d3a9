------------------------------- MODULE Script -------------------------------
(***************************************************************************)
(* The instructions programs are made of.  An instruction is a system call *)
(* with its arguments, the set `want` of results the program goes on with  *)
(* (with any other it prints a message and exits) and the variable `to`    *)
(* that takes the result.  With a result in `on` the program goes on with  *)
(* `then`, and to the same call `again` if that is a loop, with any other  *)
(* result with `else`.                                                     *)
(***************************************************************************)
EXTENDS Integers, Sequences

\* A set of results, by its least and its greatest member.
Err == <<-1, -1>>
Ok == <<0, 99>>
Positive == <<1, 99>>
AnyResult == <<-1, 99>>
NoResult == <<1, 0>>
In(r, S) == S[1] <= r /\ r <= S[2]

Do(op, args) == [op |-> op, args |-> args, to |-> "_", want |-> AnyResult,
                 on |-> NoResult, then |-> <<>>, else |-> <<>>, again |-> FALSE]
Must(op, args) == [Do(op, args) EXCEPT !.want = Ok]
Mustnt(op, args) == [Do(op, args) EXCEPT !.want = Err]
Gives(n, i) == [i EXCEPT !.want = <<n, n>>]
To(v, i) == [i EXCEPT !.to = v]

\* The child runs `child` and exits; the parent goes on.
Fork(child) == Must("fork", <<child>>)
ExitNow == <<Do("exit", <<>>)>>

\* A branch on the result of call i, and a loop around it.
If(i, S, then, else) == [i EXCEPT !.on = S, !.then = then, !.else = else]
While(i, S, body) == [i EXCEPT !.on = S, !.then = body, !.again = TRUE]
Choose(branches) == Do("choose", <<branches>>)

OpenFile(v, path, mode) == To(v, Do("open", <<path, mode>>))
Create(v, path) == To(v, Must("open", <<path, {"CREATE", "RDWR"}>>))
Reads(v, path) == To(v, Must("open", <<path, {}>>))
Close(v) == Do("close", <<v>>)
Write(v, data) == Gives(Len(data), Do("write", <<v, data>>))
ReadAll(v) == While(Must("read", <<v, 1>>), Positive, <<>>)
Wait == Do("wait", <<>>)
Unlink(path) == Do("unlink", <<path>>)

Root == <<"/">>
=============================================================================
