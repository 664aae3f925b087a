SPECIFICATION PipelineSpec
INVARIANTS MbufsAccounted FlowsInOrder NeverExhausted
