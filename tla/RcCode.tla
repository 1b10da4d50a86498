------------------------------- MODULE RcCode -------------------------------
(***************************************************************************)
(* The compiler of rc (rc/code.c): from a parse tree to the code of the    *)
(* stack machine that Rc.tla runs.  An operation and its operands take one *)
(* cell here and several in the C array, so an address is the number of an *)
(* operation.  Words, globs and variable names are data and emit nothing;  *)
(* the lists they are collected in (Xmark) are kept, since the machine     *)
(* panics when a list is popped that nobody pushed.                        *)
(***************************************************************************)
EXTENDS Naturals, Sequences

\* One cell: the operation, its jump targets and what it names.
Cell(f, a, b, c) == [f |-> f, a |-> a, b |-> b, c |-> c]

Emit(f) == <<Cell(f, 0, 0, "")>>

EmitTo(f, a) == <<Cell(f, a, 0, "")>>

\* A parse tree: the node's type, its children, and the name of a command
\* (SIMPLE), of a function (FN), or the kind of a command.
Tree(type, c0, c1, str) == [type |-> type, c0 |-> c0, c1 |-> c1, str |-> str]

Nil == [type |-> "nil"]

\* outcode's last lines: -e looks at the status after these commands.
Eflag(eflag) == IF eflag THEN Emit("Xeflag") ELSE <<>>

\* $ifs, the words a backquote splits its input at.
EmitIfs == Emit("Xmark") \o Emit("Xmark") \o Emit("Xdol")

RECURSIVE outcode(_, _, _), codeswitch(_, _, _, _)

\* The code of tree t when its first cell has address b.
outcode(t, eflag, b) ==
    LET c0(e, a) == outcode(t.c0, e, a)
        c1(e, a) == outcode(t.c1, e, a)
    IN CASE t.type = "nil" -> <<>>
         [] t.type = "SIMPLE" ->
              LET args == c0(eflag, b + 1)
              IN  Emit("Xmark") \o args \o <<Cell("Xsimple", 0, 0, t.str)>> \o Eflag(eflag)
         [] t.type = ";" ->
              LET l == c0(eflag, b) IN l \o c1(eflag, b + Len(l))
         [] t.type \in {"ANDAND", "OROR", "IF"} ->
              LET l == c0(FALSE, b)
                  r == c1(eflag, b + Len(l) + 1)
                       \o IF t.type = "IF" THEN Emit("Xwastrue") ELSE <<>>
                  f == CASE t.type = "ANDAND" -> "Xtrue"
                         [] t.type = "OROR" -> "Xfalse"
                         [] t.type = "IF" -> "Xif"
              IN  l \o EmitTo(f, b + Len(l) + 1 + Len(r)) \o r
         [] t.type = "NOT" ->
              LET l == c0(eflag, b + 1) IN EmitTo("Xifnot", b + 1 + Len(l)) \o l
         [] t.type = "BANG" -> c0(eflag, b) \o Emit("Xbang")
         [] t.type = "TWIDDLE" ->
              Emit("Xmark") \o Emit("Xmark") \o Emit("Xmatch") \o Eflag(eflag)
         [] t.type = "REDIR" ->
              Emit("Xmark") \o Emit("Xread") \o c1(eflag, b + 2) \o Emit("Xpopredir")
         [] t.type = "DUP" ->
              Emit("Xdup") \o c1(eflag, b + 1) \o Emit("Xpopredir")
         [] t.type = "PIPE" ->
              LET l == c0(eflag, b + 1) \o Emit("Xexit")
                  r == c1(eflag, b + 1 + Len(l)) \o Emit("Xreturn")
              IN  <<Cell("Xpipe", b + 1 + Len(l), b + 1 + Len(l) + Len(r), "")>>
                  \o l \o r \o Emit("Xpipewait")
         [] t.type \in {"&", "SUBSHELL", "PIPEFD"} ->
              LET l == c0(eflag, b + 1) \o Emit("Xexit")
                  f == CASE t.type = "&" -> "Xasync"
                         [] t.type = "SUBSHELL" -> "Xsubshell"
                         [] t.type = "PIPEFD" -> "Xpipefd"
              IN  EmitTo(f, b + 1 + Len(l)) \o l
                  \o IF t.type = "SUBSHELL" THEN Eflag(eflag) ELSE <<>>
         [] t.type = "BACKQ" ->
              LET l == outcode(t.c1, FALSE, b + 4) \o Emit("Xexit")
              IN  EmitIfs \o EmitTo("Xbackq", b + 4 + Len(l)) \o l
         [] t.type = "WHILE" ->
              LET c == c0(FALSE, b)
                  l == IF c = <<>> THEN Emit("Xsettrue") ELSE c
                  r == c1(eflag, b + Len(l) + 1)
              IN  l \o EmitTo("Xtrue", b + Len(l) + 1 + Len(r) + 1) \o r \o EmitTo("Xjump", b)
         [] t.type = "FOR" ->
              LET r == c1(eflag, b + 5)
              IN  Emit("Xmark") \o Emit("Xmark") \o Emit("Xmark") \o Emit("Xlocal")
                  \o EmitTo("Xfor", b + 6 + Len(r)) \o r
                  \o EmitTo("Xjump", b + 4) \o Emit("Xunlocal")
         [] t.type = "SWITCH" ->
              LET cases == codeswitch(t.c1, eflag, b + 3, b + 2)
              IN  Emit("Xmark") \o EmitTo("Xjump", b + 3)
                  \o EmitTo("Xjump", b + 3 + Len(cases)) \o cases \o Emit("Xpopm")
         [] t.type = "FN" ->
              LET l == c1(eflag, b + 2) \o Emit("Xunlocal") \o Emit("Xreturn")
              IN  Emit("Xmark")
                  \o (IF t.c1.type = "nil" THEN <<Cell("Xdelfn", 0, 0, t.str)>>
                      ELSE <<Cell("Xfn", b + 2 + Len(l), 0, t.str)>> \o l)
         [] t.type = "=" ->
              Emit("Xmark") \o Emit("Xmark")
              \o IF t.c1.type = "nil" THEN Emit("Xassign")
                 ELSE Emit("Xlocal") \o c1(eflag, b + 3) \o Emit("Xunlocal")

\* The cases of a switch, a list of ";" nodes with the commands of one case
\* each; out is the address of the jump that leaves the switch.
codeswitch(t, eflag, b, out) ==
    IF t.type = "nil" THEN <<>>
    ELSE LET l    == outcode(t.c0, eflag, b + 2)
             this == Emit("Xmark") \o EmitTo("Xcase", b + 3 + Len(l)) \o l \o EmitTo("Xjump", out)
         IN  this \o codeswitch(t.c1, eflag, b + Len(this), out)

\* The code of one command line.
compile(t, eflag) == outcode(t, eflag, 1) \o Emit("Xreturn")

=============================================================================
