------------------------- MODULE MCPipelineMetrics -------------------------
EXTENDS PipelineMetrics, TLC

Symmetry == Permutations(Pages)
=============================================================================
