--------------------------- MODULE MCPythonWorker ---------------------------
(* A task is given no resource, one, or two.                                *)
EXTENDS PythonWorker

CONSTANTS gpu, fpga

MCResources == {<<>>, <<gpu>>, <<gpu, fpga>>}
=============================================================================
