\* The pipeline of yield3.cpp, also for a limit of zero.
CONSTANTS
  Limits <- MCLimits
  Factors <- MCFactors
  Addends <- MCAddends
SPECIFICATION Spec
INVARIANT FramesUsable
PROPERTY PipelineComputesSum
