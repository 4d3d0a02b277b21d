-------------------------------- MODULE Hcl ---------------------------------
(***************************************************************************)
(* hcl2c: signal declarations and the definition of one function, which    *)
(* the parser builds bottom up (hcl.y) as nodes in memory (node.c), checks *)
(* and prints as C.  The C text quoted for a signal is here the value it   *)
(* has when the function runs, and the text printed is what it evaluates   *)
(* to.  A definition of another function only adds to errcnt.              *)
(***************************************************************************)
EXTENDS Integers, Sequences

CONSTANTS Signals,    \* [name, isbool, value]: the declarations that may occur
          Definitions, \* the function definitions: the productions of each, bottom up
          SYM_LIM     \* capacity of the symbol table

VARIABLES parsing,    \* "declarations", "expression", "done", "aborted" or "crashed"
          sym_tab,
          definition, \* the productions to come, each <<name, lexeme>>
          nodes,
          stack,      \* the parser's values: [node, means], means as the source says
          errcnt,
          nested,     \* whether a set has had a case list as an element
          generated   \* what the C function returns, and what the definition means
hclVars == <<parsing, sym_tab, definition, nodes, stack, errcnt, nested, generated>>

ERRLIM == 5
NULL   == 0

HclInit ==
    /\ parsing = "declarations" /\ sym_tab = <<>>
    /\ definition = <<>> /\ nodes = <<>> /\ stack = <<>>
    /\ errcnt = 0 /\ nested = FALSE /\ generated = [returns |-> 0, means |-> 0]

-----------------------------------------------------------------------------
(* Errors so far, and whether the program has ended over them.             *)
Errors    == [errs |-> errcnt, stop |-> parsing]
Ended(s)  == s.stop \in {"aborted", "crashed"}
Crash(s)  == IF Ended(s) THEN s ELSE [s EXCEPT !.stop = "crashed"]
yyerror(s) ==
    IF Ended(s) THEN s
    ELSE [errs |-> s.errs + 1, stop |-> IF s.errs + 1 > ERRLIM THEN "aborted" ELSE s.stop]
Report(s) == errcnt' = s.errs /\ parsing' = s.stop

Entries(name)  == {k \in DOMAIN sym_tab : sym_tab[k].name = name}
Known(name)    == Entries(name) # {}
symbol(name) == sym_tab[CHOOSE k \in Entries(name) : \A j \in Entries(name) : k <= j]

new_node(t, isbool, sval, a1, a2) ==
    [type |-> t, isbool |-> isbool, sval |-> sval, arg1 |-> a1, arg2 |-> a2, next |-> NULL]

RECURSIVE Tail_of(_), Chain(_), Shown(_), gen_expr(_, _), gen_elements(_, _, _), gen_cases(_, _), ValueOf(_)
Tail_of(n) == IF nodes[n].next = NULL THEN n ELSE Tail_of(nodes[n].next)
Chain(n)   == IF n = NULL THEN {} ELSE {n} \cup Chain(nodes[n].next)

ConcatToHead(heap, n1, n2) ==                                   \* mutant
    IF n1 = NULL THEN heap ELSE [heap EXCEPT ![n1].next = n2]
concat(heap, n1, n2) == IF n1 = NULL THEN heap ELSE [heap EXCEPT ![Tail_of(n1)].next = n2]

(* show_expr follows every argument of what it shows.                      *)
Shown(n) ==
    /\ n # NULL
    /\ LET e == nodes[n]
       IN  CASE e.type \in {"var", "num"} -> TRUE
             [] e.type = "not"  -> Shown(e.arg1)
             [] e.type = "ele"  -> Shown(e.arg1) /\ \A k \in Chain(e.arg2) : Shown(k)
             [] e.type = "case" -> \A k \in Chain(n) : Shown(nodes[k].arg1) /\ Shown(nodes[k].arg2)
             [] OTHER -> Shown(e.arg1) /\ Shown(e.arg2)

check_arg(s, n, wantbool) ==
    IF n = NULL THEN yyerror(s)
    ELSE LET e == nodes[n]
         IN  CASE e.type = "var" ->
                    IF ~Known(e.sval) THEN yyerror(yyerror(s))
                    ELSE IF symbol(e.sval).isbool # wantbool THEN yyerror(s) ELSE s
               [] e.type = "num" -> IF wantbool /\ e.sval \notin {0, 1} THEN yyerror(s) ELSE s
               [] OTHER -> IF e.isbool = wantbool THEN s
                           ELSE yyerror(IF Shown(n) THEN s ELSE Crash(s))

-----------------------------------------------------------------------------
(* add_arg: a signal and the C text it stands for.                         *)
add_arg == \E signal \in Signals :
    /\ parsing = "declarations"
    /\ IF Len(sym_tab) >= SYM_LIM
       THEN Report(yyerror(Errors)) /\ UNCHANGED sym_tab
       ELSE sym_tab' = Append(sym_tab, signal) /\ UNCHANGED <<errcnt, parsing>>
    /\ UNCHANGED <<definition, nodes, stack, nested, generated>>

BeginDefinition ==
    /\ parsing = "declarations" /\ parsing' = "expression"
    /\ definition' \in Definitions
    /\ UNCHANGED <<sym_tab, nodes, stack, errcnt, nested, generated>>

(* The next production takes its values from the top of the stack.         *)
Top(i)  == stack[Len(stack) + 1 - i]
Production(name) ==
    /\ parsing = "expression" /\ definition # <<>> /\ definition[1][1] = name
    /\ definition' = Tail(definition)
Lexeme  == definition[1][2]
Reduce(n, node, means) ==
    stack' = Append(SubSeq(stack, 1, Len(stack) - n), [node |-> node, means |-> means])
Push(node) == nodes' = Append(nodes, node)
Fresh      == Len(nodes) + 1
OneIf(p)   == IF p THEN 1 ELSE 0

make_var ==
    /\ Production("var") /\ Push(new_node("var", FALSE, Lexeme, NULL, NULL))
    /\ Reduce(0, Fresh, IF Known(Lexeme) THEN symbol(Lexeme).value ELSE 0)
    /\ UNCHANGED <<parsing, sym_tab, errcnt, nested, generated>>

make_num ==
    /\ Production("num") /\ Push(new_node("num", FALSE, Lexeme, NULL, NULL))
    /\ Reduce(0, Fresh, Lexeme)
    /\ UNCHANGED <<parsing, sym_tab, errcnt, nested, generated>>

make_not ==
    /\ Production("not")
    /\ Report(check_arg(Errors, Top(1).node, TRUE))
    /\ Push(new_node("not", TRUE, "!", Top(1).node, NULL))
    /\ Reduce(1, Fresh, 1 - Top(1).means)
    /\ UNCHANGED <<sym_tab, nested, generated>>

Binary(type, sval, wantbool, means) ==
    /\ Production(type)
    /\ Report(check_arg(check_arg(Errors, Top(2).node, wantbool), Top(1).node, wantbool))
    /\ Push(new_node(type, TRUE, sval, Top(2).node, Top(1).node))
    /\ Reduce(2, Fresh, means)
    /\ UNCHANGED <<sym_tab, nested, generated>>

make_and  == Binary("and", "&", TRUE, OneIf(Top(2).means = 1 /\ Top(1).means = 1))
make_or   == Binary("or", "|", TRUE, OneIf(Top(2).means = 1 \/ Top(1).means = 1))
make_comp == Binary("comp", "<", FALSE, OneIf(Top(2).means < Top(1).means))

(* The lists of a set's elements and of a case expression: concat.         *)
IsCase(n) == n = NULL \/ nodes[n].type = "case"

FirstElement ==
    /\ Production("first") /\ Reduce(1, Top(1).node, <<Top(1).means>>)
    /\ nested' = (nested \/ IsCase(Top(1).node))
    /\ UNCHANGED <<parsing, sym_tab, nodes, errcnt, generated>>

NextElement ==
    /\ Production("next")
    /\ nodes' = concat(nodes, Top(2).node, Top(1).node)
    /\ Reduce(2, IF Top(2).node = NULL THEN Top(1).node ELSE Top(2).node,
              Append(Top(2).means, Top(1).means))
    /\ nested' = (nested \/ IsCase(Top(1).node))
    /\ UNCHANGED <<parsing, sym_tab, errcnt, generated>>

(* The loop over the elements begins at arg1 and never sees one of them.   *)
RECURSIVE check_list(_, _)
check_list(s, n) ==
    IF n = NULL \/ Ended(s) THEN s ELSE check_list(check_arg(s, n, FALSE), nodes[n].next)

make_ele ==
    /\ Production("ele")
    /\ Report(check_list(check_arg(Errors, Top(2).node, FALSE), Top(2).node))
    /\ Push(new_node("ele", TRUE, "in", Top(2).node, Top(1).node))
    /\ Reduce(2, Fresh, OneIf(\E i \in DOMAIN Top(1).means : Top(1).means[i] = Top(2).means))
    /\ UNCHANGED <<sym_tab, nested, generated>>

EmptyCaselist ==
    /\ Production("[")
    /\ Reduce(0, NULL, <<>>)
    /\ UNCHANGED <<parsing, sym_tab, nodes, errcnt, nested, generated>>

make_case ==
    /\ Production("case")
    /\ Report(check_arg(check_arg(Errors, Top(2).node, TRUE), Top(1).node, FALSE))
    /\ nodes' = Append(concat(nodes, Top(3).node, Fresh),
                       new_node("case", FALSE, ":", Top(2).node, Top(1).node))
    /\ Reduce(3, IF Top(3).node = NULL THEN Fresh ELSE Top(3).node,
              Append(Top(3).means, <<Top(2).means, Top(1).means>>))
    /\ UNCHANGED <<sym_tab, nested, generated>>

(* A case expression has the value of the first arm that is selected.      *)
Selected(arms) == {i \in DOMAIN arms : arms[i][1] = 1}
EndCaselist ==
    /\ Production("]")
    /\ LET arms == Top(1).means
       IN  Reduce(1, Top(1).node,
                  IF Selected(arms) = {} THEN 0
                  ELSE arms[CHOOSE i \in Selected(arms) : \A j \in Selected(arms) : i <= j][2])
    /\ UNCHANGED <<parsing, sym_tab, nodes, errcnt, nested, generated>>

-----------------------------------------------------------------------------
(* gen_expr: the errors met on the way, and the value of the text printed. *)
IsOne(n) == nodes[n].type = "num" /\ nodes[n].sval = 1

gen_elements(s, n, k) ==
    IF k = NULL \/ Ended(s) THEN s
    ELSE gen_elements(gen_expr(gen_expr(s, nodes[n].arg1), k), n, nodes[k].next)

gen_cases(s, n) ==
    IF n = NULL \/ Ended(s) THEN s
    ELSE IF nodes[n].arg1 = NULL THEN Crash(s)
    ELSE IF IsOne(nodes[n].arg1) THEN gen_expr(s, nodes[n].arg2)
    ELSE gen_cases(gen_expr(gen_expr(s, nodes[n].arg1), nodes[n].arg2), nodes[n].next)

gen_expr(s, n) ==
    IF Ended(s) THEN s ELSE IF n = NULL THEN Crash(s)
    ELSE LET e == nodes[n]
         IN  CASE e.type = "var"  -> IF Known(e.sval) THEN s ELSE yyerror(yyerror(s))
               [] e.type = "num"  -> s
               [] e.type = "not"  -> gen_expr(s, e.arg1)
               [] e.type = "ele"  -> gen_elements(s, n, e.arg2)
               [] e.type = "case" -> gen_cases(s, n)
               [] OTHER -> gen_expr(gen_expr(s, e.arg1), e.arg2)

ValueOf(n) ==
    LET e == nodes[n]
    IN  CASE e.type = "var"  -> symbol(e.sval).value
          [] e.type = "num"  -> e.sval
          [] e.type = "not"  -> OneIf(ValueOf(e.arg1) = 0)
          [] e.type = "and"  -> OneIf(ValueOf(e.arg1) = 1 /\ ValueOf(e.arg2) = 1)
          [] e.type = "or"   -> OneIf(ValueOf(e.arg1) = 1 \/ ValueOf(e.arg2) = 1)
          [] e.type = "comp" -> OneIf(ValueOf(e.arg1) < ValueOf(e.arg2))
          [] e.type = "ele"  -> OneIf(\E k \in Chain(e.arg2) : ValueOf(k) = ValueOf(e.arg1))
          [] e.type = "case" -> IF IsOne(e.arg1) \/ ValueOf(e.arg1) # 0 THEN ValueOf(e.arg2)
                                ELSE IF e.next = NULL THEN 0 ELSE ValueOf(e.next)

gen_funct == \E isbool \in BOOLEAN :
    /\ parsing = "expression" /\ definition = <<>>
    /\ LET n == Top(1).node
           s == IF n = NULL THEN yyerror(Errors) ELSE gen_expr(check_arg(Errors, n, isbool), n)
       IN  /\ errcnt' = s.errs
           /\ parsing' = IF Ended(s) THEN s.stop ELSE "done"
           /\ generated' = IF s.errs = 0 /\ ~Ended(s)
                           THEN [returns |-> ValueOf(n), means |-> Top(1).means] ELSE generated
    /\ UNCHANGED <<sym_tab, definition, nodes, stack, nested>>

HclNext == \/ add_arg \/ BeginDefinition \/ gen_funct
           \/ make_var \/ make_num \/ make_not \/ make_and \/ make_or \/ make_comp
           \/ FirstElement \/ NextElement \/ make_ele \/ EmptyCaselist \/ make_case \/ EndCaselist
HclSpec == HclInit /\ [][HclNext]_hclVars

-----------------------------------------------------------------------------
(* The nodes of a set's elements and of a case's arms hang together by the *)
(* same field next.  As long as no case list is an element of a set, the   *)
(* lists stay apart: a definition accepted without an error returns what   *)
(* it says, and the compiler fails on no definition without reporting one. *)
ReturnsWhatItSays ==
    ~nested => /\ generated.returns = generated.means
               /\ parsing = "crashed" => errcnt > 0
=============================================================================
