---------------------------- MODULE MCStepRunner ----------------------------
(* StepRunner with the sets of steps and the names that the configurations     *)
(* use.                                                                        *)
EXTENDS StepRunner, TLC

CONSTANTS spaced, underlined, labelled, planned

\* "a b" and "a_b" are one file name; a step may be named as the label of the
\* last step, or as the agent's own file.
Shared == <<0, "a_b">>
AgentPlan == <<0, "agent_plan">>
Names == Label \cup {Shared, AgentPlan}
Safe == [x \in Name \cup Label |->
           IF x \in Label THEN x
           ELSE IF x = labelled THEN <<MaxSteps, "screenshot">>
           ELSE IF x = planned THEN AgentPlan ELSE Shared]

Plain(kind, name) == [kind |-> kind, optional |-> FALSE, name |-> name, framed |-> FALSE,
                      skippable |-> FALSE, tries |-> 2, format |-> "html"]

\* One of each kind; names that meet; a framed optional click with a skip
\* selector; retries -1.
EveryKind ==
  {Plain("plain", NoName), Plain("draw", NoName), Plain("page_state", NoName),
   Plain("dom_snapshot", spaced),
   [Plain("dom_snapshot", planned) EXCEPT !.format = "json"],
   Plain("screenshot", NoName), Plain("screenshot", labelled),
   Plain("screenshot", spaced), Plain("screenshot", underlined),
   [Plain("locator", NoName) EXCEPT !.optional = TRUE, !.framed = TRUE, !.skippable = TRUE],
   Plain("locator", NoName), [Plain("locator", NoName) EXCEPT !.tries = 0]}

\* Files that two deliveries share, and the button they share.
SharedKinds == {Plain("page_state", NoName), Plain("screenshot", NoName), Plain("draw", NoName)}
=============================================================================
