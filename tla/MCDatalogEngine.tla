-------------------------- MODULE MCDatalogEngine --------------------------
(***************************************************************************)
(* Programs over three constants: thirty-three graphs under rules for recursion,  *)
(* negation, counting and closures, some of which are not stratifiable.    *)
(***************************************************************************)
EXTENDS DatalogMeaning, TLC

CONSTANTS a, b, c, N

MCVariables == {X, Y, Z, N}
MCPlus == ("edge" :> "edge_plus") @@ ("edge_plus" :> "edge_plus_plus")

Unary(p, x) == [p |-> p, args |-> <<x>>]
Holds(literal) == [p |-> literal.p, args |-> literal.args, not |-> FALSE]
Not(literal) == [p |-> literal.p, args |-> literal.args, not |-> TRUE]
Counting(head, body) == [head |-> head, body |-> body, count |-> N]

Given(literal) == Clause(literal, <<>>)
Nodes == <<Given(Unary("node", a)), Given(Unary("node", b)), Given(Unary("node", c))>>
Graph(edges) == SetToSeq({Given(Lit("edge", e[1], e[2])) : e \in edges})

Graphs == SUBSET {<<a, b>>, <<b, a>>, <<b, c>>, <<c, a>>, <<a, c>>} \cup {{<<a, a>>, <<a, b>>, <<c, c>>}}

Path == <<Clause(Lit("path", X, Y), <<Goal("edge", X, Y)>>),
          Clause(Lit("path", X, Y), <<Goal("path", X, Z), Goal("path", Z, Y)>>)>>

\* Rules and what is asked of them.
Recursion == [rules |-> Path, goals |-> <<Goal("path", a, Y)>>]
Parity ==
  [rules |-> <<Clause(Lit("odd", X, Y), <<Goal("even", X, Z), Goal("edge", Z, Y)>>),
               Clause(Lit("even", X, Y), <<Goal("odd", X, Z), Goal("edge", Z, Y)>>),
               Clause(Lit("even", X, X), <<Holds(Unary("node", X))>>)>>,
   goals |-> <<Goal("odd", a, Y)>>]
Separate ==
  [rules |-> <<Clause(Unary("apart", X), <<Holds(Unary("node", X)), Not(Lit("path", a, X))>>),
               Clause(Unary("sink", X), <<Holds(Unary("node", X)), Not(Lit("edge", X, Wildcard))>>)>>
             \o Path,
   goals |-> <<Holds(Unary("apart", X)), Holds(Unary("sink", X))>>]
Games ==
  [rules |-> <<Clause(Unary("wins", X), <<Goal("edge", X, Y), Not(Unary("wins", Y))>>)>>,
   goals |-> <<Holds(Unary("wins", X))>>]
Layers ==
  [rules |-> <<Clause(Unary("third", a), <<Not(Unary("second", a))>>),
               Clause(Unary("second", a), <<Not(Unary("first", a))>>),
               Clause(Unary("first", a), <<Not(Unary("node", b))>>)>>,
   goals |-> <<Holds(Unary("third", a))>>]
Degrees ==
  [rules |-> <<Clause(Unary("quiet", a), <<Not(Lit("degree", a, Wildcard))>>),
               Counting(Lit("degree", X, N), <<Goal("edge", X, Wildcard)>>),
               Counting(Lit("total", a, N), <<Goal("degree", Wildcard, Wildcard)>>)>>,
   goals |-> <<Goal("degree", X, Y)>>]
CircularCount ==
  [rules |-> <<Counting(Lit("size", X, N), <<Goal("edge", X, Y), Goal("size", Y, Wildcard)>>)>>,
   goals |-> <<Goal("size", X, Y)>>]
From == [rules |-> <<>>, goals |-> <<Goal("edge_plus", a, Y)>>]
Between ==
  [rules |-> <<Clause(Unary("near", X), <<Goal("edge_plus", X, b), Holds(Unary("node", X))>>)>>,
   goals |-> <<Goal("edge_plus", c, Y), Holds(Unary("near", Y))>>]
Unreachable ==
  [rules |-> <<Clause(Lit("cut", X, Y), <<Holds(Unary("node", X)), Holds(Unary("node", Y)),
                                              Not(Lit("edge_plus", X, Y))>>)>>,
   goals |-> <<Goal("cut", a, Y), Goal("edge_plus", Y, a)>>]
OwnClosure ==
  [rules |-> <<Clause(Lit("edge_plus", X, Y), <<Goal("edge", Y, X)>>)>>,
   goals |-> <<Goal("edge_plus", X, Y), Goal("edge_plus_plus", Y, Y)>>]

Questions == {Recursion, Parity, Separate, Games, Layers, Degrees, CircularCount, From,
              Between, Unreachable, OwnClosure}

MCPrograms ==
  {[clauses |-> q.rules \o Nodes \o Graph(g), goals |-> q.goals] : q \in Questions, g \in Graphs}
=============================================================================
