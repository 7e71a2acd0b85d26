-------------------------------- MODULE Ast --------------------------------
(***************************************************************************)
(* The Clang syntax trees the interpreter walks, as data.                  *)
(*                                                                         *)
(* A program is a record                                                   *)
(*   unit  : its top-level declarations in order, each [fdecl |-> name] or *)
(*           [vardecl |-> node],                                           *)
(*   fn    : function name -> [params, body, void], body = Null when the   *)
(*           function is only declared,                                    *)
(*   node  : its statements, expressions and variable declarations, by     *)
(*           number.  A number stands for the Stmt or Decl pointer,        *)
(*   stdin : the numbers on its standard input.                            *)
(*                                                                         *)
(* A node is a record                                                      *)
(*   kind : what class of node it is; a BinaryOperator is "assign" when it *)
(*          isAssignmentOp(), a UnaryOperator "incdec" when it             *)
(*          isIncrementDecrementOp(),                                      *)
(*   op   : the operator, "=" or for a compound assignment the one it      *)
(*          applies; an array's element type; the type a sizeof is of, of  *)
(*          an array the element's,                                        *)
(*   type : its C type,                                                    *)
(*   decl : the variable or function it names,                             *)
(*   val  : the literal's value, the array's length, a sizeof's too (1 if  *)
(*          it is not of an array),                                        *)
(*   kids : its children, Null for one that is absent; a call's first is   *)
(*          its callee, a sizeof's the expression it is of, when it names  *)
(*          no type.                                                       *)
(* Arrays have one dimension, as in the language of requirements.md.       *)
(***************************************************************************)
EXTENDS CArith, Sequences

CONSTANTS
  Programs,   \* the programs that may be run
  Decl,       \* the variables
  FnName      \* the functions

Null == 0

Builtins == {"GET", "PRINT", "MALLOC", "FREE"}

LeafKinds  == {"literal"}
ExprKinds  == {"paren", "binop", "assign", "unop", "incdec", "declref", "cast",
               "call", "arraysub", "sizeof"}
GroupKinds == {"compound", "initlist", "unsupported"}
StmtKinds  == {"return", "declstmt", "vardecl", "if", "cond", "while", "for",
               "break", "continue"}
Kinds == LeafKinds \cup ExprKinds \cup GroupKinds \cup StmtKinds

Node == [kind : Kinds, op : STRING, type : Types, decl : Decl \cup FnName \cup {"none"},
         val : Int, kids : Seq(Nat)]

Function == [params : Seq(Decl), body : Nat, void : BOOLEAN]

Item == [fdecl : FnName] \cup [vardecl : Nat]

\* How many children a node has.
KidCounts(kind) ==
  CASE kind \in {"literal", "declref", "break", "continue"} -> {0}
    [] kind \in {"paren", "unop", "incdec", "cast"}         -> {1}
    [] kind \in {"binop", "assign", "arraysub", "while"}    -> {2}
    [] kind \in {"if", "cond"}                              -> {3}
    [] kind = "for"                                         -> {4}
    [] kind \in {"return", "vardecl", "sizeof"}             -> {0, 1}
    [] kind = "call"                                        -> Nat \ {0}
    [] OTHER                                                -> Nat

\* What names what: a variable has the type of a value or an array, only
\* variables are assigned to, only functions are called, and the built-in ones
\* but GET with the one argument of their prototypes.
Resolved(c, n) ==
  LET m == c.node[n]
  IN  /\ m.kind = "vardecl" => m.decl \in Decl
      /\ m.kind = "declref" /\ m.type \in ScalarTypes \cup {"array"} => m.decl \in Decl
      /\ m.kind \in {"assign", "incdec"} =>
           /\ m.kids[1] # Null
           /\ c.node[m.kids[1]].kind = "declref" => c.node[m.kids[1]].decl \in Decl
      /\ m.kind = "call" => /\ m.decl \in DOMAIN c.fn
                            /\ m.decl \in Builtins \ {"GET"} => Len(m.kids) = 2

\* The roots of the syntax trees.
Roots(c) ==
  {c.fn[f].body : f \in DOMAIN c.fn}
    \cup {c.unit[i].vardecl : i \in {k \in DOMAIN c.unit : "vardecl" \in DOMAIN c.unit[k]}}

(***************************************************************************)
(* What Clang's parser and semantic analysis see to.  The syntax is a      *)
(* forest: children come after their parent and have no other.             *)
(***************************************************************************)
IsProgram(c) ==
  /\ c.unit \in Seq(Item)
  /\ \A i \in DOMAIN c.unit :
       /\ "fdecl" \in DOMAIN c.unit[i] => c.unit[i].fdecl \in DOMAIN c.fn
       /\ "vardecl" \in DOMAIN c.unit[i] =>
            /\ c.unit[i].vardecl \in DOMAIN c.node
            /\ c.node[c.unit[i].vardecl].kind = "vardecl"
  /\ DOMAIN c.fn \subseteq FnName
  /\ \A f \in DOMAIN c.fn :
       /\ c.fn[f] \in Function
       /\ c.fn[f].body # Null => /\ c.fn[f].body \in DOMAIN c.node
                                 /\ c.node[c.fn[f].body].kind = "compound"
  /\ c.node \in Seq(Node)
  /\ c.stdin \in Seq(Int)
  /\ \A n \in DOMAIN c.node :
       /\ Len(c.node[n].kids) \in KidCounts(c.node[n].kind)
       /\ Resolved(c, n)
       /\ \A i \in DOMAIN c.node[n].kids :
            /\ c.node[n].kids[i] \in {Null} \cup (n + 1) .. Len(c.node)
            /\ c.node[n].kids[i] # Null => c.node[n].kids[i] \notin Roots(c)
  /\ \A m, n \in DOMAIN c.node :
       \A i \in DOMAIN c.node[m].kids, j \in DOMAIN c.node[n].kids :
         c.node[m].kids[i] = c.node[n].kids[j] /\ c.node[m].kids[i] # Null => m = n /\ i = j

ASSUME ProgramsAssumption == \A p \in Programs : IsProgram(p)
=============================================================================
