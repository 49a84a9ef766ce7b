------------------------------ MODULE MCServer ------------------------------
(* Instances of Server and of HotBuffer for TLC: a behaviour is one of the   *)
(* server process, with requests or with probes, which have no effect on     *)
(* each other, or one of a table's buffer.                                   *)
EXTENDS Server, HotBuffer

VARIABLE side

RunServer == side = "server" /\ Next /\ UNCHANGED <<side, probe, bufferVars>>
RunProbes == side = "probes" /\ Next /\ UNCHANGED <<side, req, bufferVars>>
RunBuffer == side = "buffer" /\ BufferNext /\ UNCHANGED <<side, vars>>

ProcessInit == side \in {"server", "probes", "buffer"} /\ Init /\ BufferInit
ProcessNext == RunServer \/ RunProbes \/ RunBuffer
ProcessSpec ==
  /\ ProcessInit /\ [][ProcessNext]_<<side, vars, bufferVars>>
  /\ WF_vars(side # "buffer" /\ NodeStep)
=============================================================================
