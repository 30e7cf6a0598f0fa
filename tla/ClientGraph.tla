----------------------------- MODULE ClientGraph -----------------------------
(***************************************************************************)
(* The graph of nodes of the autodiff module as it lies in memory: leaves  *)
(* that hold a value, functions that hold shared pointers to their         *)
(* operands and a cached output, and in every node the list of its clients *)
(* (IvyClientManager), shared pointers to the functions built on it.       *)
(*                                                                         *)
(* A leaf that is assigned sets the modified flag of its clients.  value() *)
(* of a function evaluates it if the flag is set; it leaves the flag as it *)
(* is.  Only eval_fcn clears it.  A node is freed when no shared pointer   *)
(* to it is left: the user's, an operand's or a client's.                  *)
(***************************************************************************)
EXTENDS Integers, Sequences, FiniteSets

CONSTANTS Nodes,    \* addresses of nodes
          Values,   \* values leaves are given
          P         \* bound: outputs are counted modulo P

Field == 0 .. (P - 1)

ASSUME ValuesAssumption == P \in Nat /\ P > 1 /\ Values \subseteq Field

VARIABLES op,        \* "free", "leaf" or the operation of a function
          args,      \* operands of a function
          clients,   \* clients_ of a node
          modified,  \* is_modified_ of a function
          value,     \* value_ of a leaf, *output of a function
          handles    \* nodes the user holds a pointer to

vars == <<op, args, clients, modified, value, handles>>

Free(n)   == op[n] = "free"
Leaf(n)   == op[n] = "leaf"
Operation == {"Exp", "Multiply"}
Fcn(n)    == op[n] \in Operation
Operands(n) == {args[n][i] : i \in 1 .. Len(args[n])}
Clients(n)  == {clients[n][i] : i \in 1 .. Len(clients[n])}

-----------------------------------------------------------------------------
(* Evaluation.                                                             *)
PowerOf2[n \in Field] == IF n = 0 THEN 1 ELSE (2 * PowerOf2[n - 1]) % P

Evaluator(o, in) == IF o = "Exp" THEN PowerOf2[in[1]] ELSE (in[1] * in[2]) % P

\* What value() of n returns: the output of an unmodified function is taken
\* as it is, the operands of a modified one are evaluated first.
RECURSIVE Evaluated(_)
Evaluated(n) ==
  IF Fcn(n) /\ modified[n]
    THEN Evaluator(op[n], [i \in 1 .. Len(args[n]) |-> Evaluated(args[n][i])])
  ELSE value[n]

\* The functions eval() writes the output of on its way.
RECURSIVE Visited(_)
Visited(n) ==
  IF Fcn(n) /\ modified[n] THEN {n} \cup UNION {Visited(d) : d \in Operands(n)} ELSE {}

Eval(n) == value' = [m \in Nodes |-> IF m \in Visited(n) THEN Evaluated(m) ELSE value[m]]

-----------------------------------------------------------------------------
(* Construction.  A state under construction is a record of the variables  *)
(* that a call changes step by step.                                       *)
State == [op |-> op, args |-> args, clients |-> clients, modified |-> modified,
          value |-> value, handles |-> handles]

Becomes(s) ==
  /\ op' = s.op /\ args' = s.args /\ clients' = s.clients
  /\ modified' = s.modified /\ value' = s.value /\ handles' = s.handles

LeafMade(s, n, v) ==
  [s EXCEPT !.op[n] = "leaf", !.value[n] = v, !.clients[n] = <<>>]

\* add_client refuses a client the list has already.
ClientAddedTwice(s, n, f) ==   \* mutant: no search
  [s EXCEPT !.clients[n] = Append(@, f)]

ClientAdded(s, n, f) ==
  IF \E i \in 1 .. Len(s.clients[n]) : s.clients[n][i] = f THEN s
  ELSE [s EXCEPT !.clients[n] = Append(@, f)]

FcnMade(s, f, o, in) ==
  [s EXCEPT !.op[f] = o, !.args[f] = in, !.clients[f] = <<>>, !.modified[f] = TRUE, !.value[f] = 0]

Made1D(s, f, x) == ClientAdded(FcnMade(s, f, "Exp", <<x>>), x, f)
Made2D(s, f, x, y) == ClientAdded(ClientAdded(FcnMade(s, f, "Multiply", <<x, y>>), x, f), y, f)

Held(s, n) == [s EXCEPT !.handles = @ \cup {n}]

\* The nodes that stay when references are given up: the largest set in which
\* every node is held by the user or by another one of the set.
Referred(s, n) ==
  {s.args[n][i] : i \in 1 .. Len(s.args[n])} \cup {s.clients[n][i] : i \in 1 .. Len(s.clients[n])}

Remaining(s) ==
  UNION {S \in SUBSET {n \in Nodes : s.op[n] # "free"} :
           \A n \in S : n \in s.handles \/ \E m \in S : n \in Referred(s, m)}

Released(s) ==
  LET gone == Nodes \ Remaining(s)
  IN  [s EXCEPT !.op = [n \in Nodes |-> IF n \in gone THEN "free" ELSE @[n]],
                !.args = [n \in Nodes |-> IF n \in gone THEN <<>> ELSE @[n]],
                !.clients = [n \in Nodes |-> IF n \in gone THEN <<>> ELSE @[n]],
                !.modified = [n \in Nodes |-> IF n \in gone THEN TRUE ELSE @[n]],
                !.value = [n \in Nodes |-> IF n \in gone THEN 0 ELSE @[n]]]

-----------------------------------------------------------------------------
(* What the user calls.                                                    *)
Init ==
  /\ op = [n \in Nodes |-> "free"]
  /\ args = [n \in Nodes |-> <<>>]
  /\ clients = [n \in Nodes |-> <<>>]
  /\ modified = [n \in Nodes |-> TRUE]
  /\ value = [n \in Nodes |-> 0]
  /\ handles = {}

MakeLeaf(x, v) == Free(x) /\ Becomes(Held(LeafMade(State, x, v), x))

Make1D(f, x) ==
  /\ Free(f) /\ x \in handles
  /\ Becomes(Held(Made1D(State, f, x), f))

Make2D(f, x, y) ==
  /\ Free(f) /\ {x, y} \subseteq handles
  /\ Becomes(Held(Made2D(State, f, x, y), f))

SetValueFirst(x, v) ==   \* mutant: the first client only is told
  /\ x \in handles /\ Leaf(x)
  /\ value' = [value EXCEPT ![x] = v]
  /\ modified' = [n \in Nodes |-> modified[n] \/ (clients[x] # <<>> /\ n = clients[x][1])]
  /\ UNCHANGED <<op, args, clients, handles>>

\* Assignment or set_value of a leaf: then update_clients_modified().
SetValue(x, v) ==
  /\ x \in handles /\ Leaf(x)
  /\ value' = [value EXCEPT ![x] = v]
  /\ modified' = [n \in Nodes |-> modified[n] \/ n \in Clients(x)]
  /\ UNCHANGED <<op, args, clients, handles>>

Value(f) ==
  /\ f \in handles /\ Fcn(f)
  /\ Eval(f)
  /\ UNCHANGED <<op, args, clients, modified, handles>>

EvalFcn(f) ==
  /\ f \in handles /\ Fcn(f)
  /\ Eval(f)
  /\ modified' = [modified EXCEPT ![f] = FALSE]
  /\ UNCHANGED <<op, args, clients, handles>>

RECURSIVE DependsOn(_, _)
DependsOn(n, v) == n = v \/ \E d \in Operands(n) : DependsOn(d, v)

GradientOfOne(f, v, c, e, g) ==   \* mutant: the derivative itself is returned
  /\ {f, v} \subseteq handles /\ op[f] = "Exp"
  /\ Cardinality({c, e, g}) = 3 /\ \A n \in {c, e, g} : Free(n)
  /\ LET x == args[f][1]
     IN  Becomes(Held(Made2D(Made1D(LeafMade(State, c, 1), e, x), g, e, c), e))

\* gradient() of a function of one operand makes the gradient of the operand,
\* a constant; the derivative, a function of the operand; and their product.
Gradient(f, v, c, e, g) ==
  /\ {f, v} \subseteq handles /\ op[f] = "Exp"
  /\ Cardinality({c, e, g}) = 3 /\ \A n \in {c, e, g} : Free(n)
  /\ LET x  == args[f][1]
         s1 == LeafMade(State, c, IF DependsOn(x, v) THEN 1 ELSE 0)
         s2 == Made1D(s1, e, x)
         s3 == Made2D(s2, g, e, c)
     IN  Becomes(Held(s3, g))

\* A leaf transferred to other memory is a copy with a list of clients of its
\* own, empty; the handle moves on to the copy.
Transferred(s, x, y) == LeafMade(s, y, value[x])

Transfer(x, y) ==
  /\ x \in handles /\ Leaf(x) /\ Free(y)
  /\ LET s == Transferred(State, x, y)
     IN  Becomes(Released([s EXCEPT !.handles = (@ \ {x}) \cup {y}]))

Drop(n) ==
  /\ n \in handles
  /\ Becomes(Released([State EXCEPT !.handles = @ \ {n}]))

\* The calls with some of the nodes, values and operations.
Calls(nodes, values, operations) ==
  \/ \E x \in nodes, v \in values : MakeLeaf(x, v) \/ SetValue(x, v)
  \/ \E f, x \in nodes : Transfer(x, f)
  \/ "Exp" \in operations /\ \E f, x \in nodes : Make1D(f, x)
  \/ "Multiply" \in operations /\ \E f, x, y \in nodes : Make2D(f, x, y)
  \/ \E f \in nodes : Value(f) \/ EvalFcn(f) \/ Drop(f)
  \/ "Exp" \in operations /\ \E f, v, c, e, g \in nodes : Gradient(f, v, c, e, g)

Next == Calls(Nodes, Values, Operation)

Spec == Init /\ [][Next]_vars

-----------------------------------------------------------------------------
(* Properties.                                                             *)

\* The value a function has by the present values of the leaves below it.
RECURSIVE Current(_)
Current(n) ==
  IF Fcn(n) THEN Evaluator(op[n], [i \in 1 .. Len(args[n]) |-> Current(args[n][i])]) ELSE value[n]

TypeOK ==
  /\ op \in [Nodes -> {"free", "leaf"} \cup Operation]
  /\ \A n \in Nodes :
       /\ Len(args[n]) = (CASE op[n] = "Exp" -> 1 [] op[n] = "Multiply" -> 2 [] OTHER -> 0)
       /\ Operands(n) \subseteq Nodes /\ Clients(n) \subseteq Nodes
  /\ modified \in [Nodes -> BOOLEAN]
  /\ value \in [Nodes -> Field]
  /\ handles \subseteq Nodes

\* The lists of clients and the operands are inverse relations, each client
\* is listed once, and nothing a node or the user refers to has been freed
\* (add_client, add_fcn_to_clients, detach_aliased_clients).
ClientsAreDependents ==
  /\ \A n, f \in Nodes : f \in Clients(n) <=> n \in Operands(f)
  /\ \A n \in Nodes : Cardinality(Clients(n)) = Len(clients[n])
  /\ \A n \in Nodes : n \in handles \/ (\E m \in Nodes : n \in Operands(m) \cup Clients(m)) => ~ Free(n)

\* A function returns its value by the present values of the leaves, however
\* value(), eval_fcn and assignments are mixed, as long as eval_fcn has
\* cleared no function of functions it is made of (update_clients_modified).
RECURSIVE Below(_)
Below(n) == {n} \cup UNION {Below(d) : d \in Operands(n)}

FreshAboveLeaves ==
  \A f \in Nodes :
    Fcn(f) /\ (\A g \in Below(f) : Fcn(g) /\ ~ modified[g] => \A d \in Operands(g) : Leaf(d))
      => Evaluated(f) = Current(f)

\* What gradient() returns is a client of nothing the user had before ("Found
\* grad_fcn_pow_cubed in cplx clients: ... ?= false", run_tests_autodiff.cc:201),
\* whatever it is made of; a function the user builds is a client of its operands.
Allocated == {n \in Nodes : ~ Free(n)}

GradientStaysApart ==
  [][\A n \in handles' \ handles :
       IF Cardinality(Allocated' \ Allocated) > 1
         THEN \A m \in Allocated : n \notin Clients(m)'
       ELSE \A m \in Operands(n)' : n \in Clients(m)']_vars

\* "have the call to the const-qualified value() function run the evaluation"
\* (IvyFunction.h:66): any function returns its value by the present values of
\* the leaves.
NeverStale == \A f \in Nodes : Fcn(f) => Evaluated(f) = Current(f)

\* "Destructor releasing managed resources according to ownership policy"
\* (IvyUnifiedPtr.hh:180): with no handle left no node is left.
NoNodeOutlivesUser == handles = {} => \A n \in Nodes : Free(n)

=============================================================================
