------------------------------ MODULE MCPipeline ------------------------------
EXTENDS Pipeline

\* The access pattern of the traced program: blocks 0 and 2 share line 1,
\* block 0 also touches line 2, block 3 only line 2, and several blocks
\* access nothing.
MCProbeAccess == {<<0, 1>>, <<0, 2>>, <<2, 1>>, <<3, 2>>, <<5, 1>>, <<6, 2>>, <<8, 1>>}
=============================================================================
