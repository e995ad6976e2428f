SPECIFICATION Spec
CONSTANT Inputs <- MCGraphs
INVARIANT BreadthFirst
