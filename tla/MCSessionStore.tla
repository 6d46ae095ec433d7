--------------------------- MODULE MCSessionStore ---------------------------
EXTENDS SessionStore

CONSTANTS p1, p2

User(text, time, size) == [user |-> TRUE, text |-> text, time |-> time, size |-> size]
Answer(text, time, size) == [User(text, time, size) EXCEPT !.user = FALSE]

\* The first conversation has a turn larger than the budget, one written late and a
\* pause before the last one.
MCTranscript ==
  <<<<User("ask", 2, 3), Answer("ok", 1, 1), User("ask", 4, 2)>>,
    <<User("ask", 1, 1)>>,
    <<User("ask", 2, 1)>>>>

MCBeginning == <<2, 1, 1>>

ProcsAlike == Permutations({p1, p2})
=============================================================================
