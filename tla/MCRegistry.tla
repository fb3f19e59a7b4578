----------------------------- MODULE MCRegistry -----------------------------
(***************************************************************************)
(* Instances of Registry for TLC.                                          *)
(***************************************************************************)
EXTENDS Registry

CONSTANTS s1, s2

Request(op, key, s, to, cites, passing) ==
    [op |-> op, key |-> key, strategy |-> s, to |-> to, cites |-> cites,
     passing |-> passing, tag |-> 0]

Registration(key, s) == Request("register", key, s, "generated", "none", FALSE)
Move(key, s, to) == Request("transition", key, s, to, "none", FALSE)
Citing(key, s, to, cites) == Request("transition", key, s, to, cites, FALSE)
Decision(key, s, passing) == Request("decide", key, s, "generated", "none", passing)

\* Two strategies compete for the only place in paper_observing, unless s1 goes
\* on its way to the shadow state, where a failing decision, a passing one and
\* another strategy's have one decision_id: a key is used with two contents.
PaperRequests ==
    {Registration("r1", s1), Registration("r2", s2),
     Move("v1", s1, "review"), Move("v1", s1, "candidate"), Move("v2", s2, "review"),
     Move("o1", s1, "paper_observing"), Move("o2", s2, "paper_observing"),
     Decision("d1", s1, TRUE), Decision("d1", s1, FALSE), Decision("d1", s2, TRUE),
     Citing("p1", s1, "paper_shadow", "d1")}

OnePlace == [paper_observing |-> 1]

\* A registration and the transitions to a paper state by way of review.
DetourRequests ==
    {Registration("r1", s1), Move("v1", s1, "review"), Move("o1", s1, "paper_observing"),
     Move("c1", s1, "candidate")}

=============================================================================
