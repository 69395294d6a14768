-------------------------- MODULE MCGeneratorPipeline --------------------------
(* GeneratorPipeline with main's arguments and a few smaller ones.          *)
EXTENDS GeneratorPipeline

MCLimits == {0, 1, 3, 10}
MCFactors == {-1, 2}
MCAddends == {0, 110}
===============================================================================
