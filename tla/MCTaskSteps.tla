---------------------------- MODULE MCTaskSteps ----------------------------
EXTENDS TaskSteps

A(deps, parent) == [Fresh EXCEPT !.deps = deps, !.parent = parent]

\* One step and room for another, two steps in a row, a step with a sub-step.
SmallPlans == {<<Fresh>>, <<Fresh, A({1}, 0)>>, <<Fresh, A({}, 1)>>}

\* Three steps that wait for each other, and a step with two sub-steps.
LargerPlans == {<<Fresh, A({1}, 0), A({2}, 0)>>, <<Fresh, A({}, 1), A({}, 1)>>}
=============================================================================
