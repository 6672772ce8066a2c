----------------------------- MODULE MCWorkflow -----------------------------
EXTENDS Workflow

\* stage -> review -> publish or notify, the shape of the knowledge packs.
ReviewSteps == {"stage", "review", "publish", "notify"}
Reviewed ==
    [steps |-> ReviewSteps, start |-> "stage",
     next |-> [s \in ReviewSteps |-> IF s = "stage" THEN <<"review">> ELSE <<>>],
     dependsOn |-> [stage |-> {}, review |-> {"stage"}, publish |-> {"review"}, notify |-> {"review"}],
     approved |-> [s \in {"review"} |-> "publish"], rejected |-> [s \in {"review"} |-> "notify"],
     decisions |-> {}, rollbacks |-> {}, runners |-> {"x"}, reviewers |-> {"y", "z"},
     controls |-> {"pause", "resume", "cancel", "trigger_compensation"},
     maxRecords |-> 4, maxControls |-> 1, maxAborts |-> 1]

NoReview(d) == [d EXCEPT !.approved = <<>>, !.rejected = <<>>, !.reviewers = {}]

\* a -> b, under every control action.
Line ==
    [NoReview(Reviewed) EXCEPT
        !.steps = {"a", "b"}, !.start = "a", !.runners = {"x", "y"},
        !.next = [a |-> <<"b">>, b |-> <<>>], !.dependsOn = [a |-> {}, b |-> {"a"}],
        !.controls = @ \cup {"retry_step"}, !.maxRecords = 4, !.maxControls = 2]

\* fan -> a, b; a -> join, undo; b -> join, which depends on both; join -> end.
Diamond ==
    [NoReview(Reviewed) EXCEPT
        !.steps = {"fan", "a", "b", "join", "undo", "end"}, !.start = "fan", !.runners = {"x", "y"},
        !.next = [fan |-> <<"a", "b">>, a |-> <<"join", "undo">>, b |-> <<"join">>,
                  join |-> <<"end">>, undo |-> <<>>, end |-> <<>>],
        !.dependsOn = [fan |-> {}, a |-> {"fan"}, b |-> {"fan"}, join |-> {"a", "b"}, undo |-> {},
                       end |-> {}],
        !.decisions = {"fan"}, !.rollbacks = {"undo"},
        !.controls = {}, !.maxRecords = 9]

\* fan -> a, b, c -> join -> end, left to one runner.
Wide ==
    LET steps == {"fan", "a", "b", "c", "join", "end"}
    IN  [NoReview(Reviewed) EXCEPT
            !.steps = steps, !.start = "fan",
            !.next = [s \in steps |-> CASE s = "fan" -> <<"a", "b", "c">> [] s = "join" -> <<"end">>
                                         [] s = "end" -> <<>> [] OTHER -> <<"join">>],
            !.dependsOn = [s \in steps |-> IF s = "join" THEN {"a", "b", "c"} ELSE {}],
            !.decisions = {"a", "join"}, !.controls = {}, !.maxRecords = 9, !.maxAborts = 0]

SmallSetups == {Reviewed, Line, Diamond, Wide}
=============================================================================
