---------------------------- MODULE MatchAnswers ----------------------------
(***************************************************************************)
(* What the statements that match answer, compared with what their         *)
(* patterns mean.                                                          *)
(***************************************************************************)
EXTENDS Match, Patterns

Part(i, j) == SubSeq(problem.subject, i + 1, j)
\* What the names of a match are to get, up to one that cannot be assigned.
Assigned(all) ==
    LET stops == {k \in DOMAIN all : all[k][1] \in Unassignable}
    IN  [k \in 1 .. (IF stops = {} THEN Len(all) ELSE Min(stops) - 1) |->
           <<all[k][1], Part(all[k][2], all[k][3])>>]
\* The variable n, if these assignments are made.
ValueOfN(assigned) ==
    LET ks == {k \in DOMAIN assigned : assigned[k][1] = "n"}
    IN  IF ks = {} THEN Unset ELSE assigned[Max(ks)][2]
ValueOf(e) == IF problem.kind = "SCAN" THEN Part(e.head, e.to)
              ELSE Part(0, e.head) \o <<New>> \o Part(e.to, Len(problem.subject))

\* A function that fails is as FAIL.
Meanings == [x \in Names |-> IF x \in Failing THEN <<"SALF", 0>> ELSE Value[x]]

\* The answer is the one that the meaning of the pattern gives, in both modes and
\* whatever statements ran under way; a match that fails assigns no name, and one that
\* succeeds assigns them in order.  (Of a pattern whose values do not change.)
Answers ==
    (todo = "done" /\ answer.end # "overflow" /\ \A x \in Names : now[x] = x) =>
      \E e \in {Expected(problem.pattern, problem.subject, problem.anchored, Meanings)} :
        IF e.end = "fail" THEN answer.end = "fail" /\ store["n"] = Unset
        ELSE \E assigned \in {Assigned(e.named)} :
               /\ store["n"] = ValueOfN(assigned)
               /\ answer = IF Len(assigned) < Len(e.named) THEN [end |-> "fail"]
                           ELSE [end |-> "ok", value |-> ValueOf(e)]
=============================================================================
