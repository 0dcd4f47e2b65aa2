------------------------------- MODULE Memory -------------------------------
(* The parts of memoryd.  They share no state in these modules: a behaviour  *)
(* of them together is one in which one of them moves at a time, and `part`  *)
(* picks the one to look at.                                                 *)
EXTENDS MemoryDaemon, MemoryCapture, MemoryPool, TaskGraph, GraphQuery

VARIABLE part

memoryVars == <<part, memorydVars, captureVars, poolVars, taskVars, queryVars>>

MemoryInit ==
    /\ MemorydInit /\ CaptureInit /\ PoolInit /\ TaskInit /\ QueryInit
    /\ part \in {"daemon", "capture", "pool", "task", "query"}

MemoryNext ==
    /\ UNCHANGED part
    /\ \/ part = "daemon" /\ MemorydNext /\ UNCHANGED <<captureVars, poolVars, taskVars, queryVars>>
       \/ part = "capture" /\ CaptureNext /\ UNCHANGED <<memorydVars, poolVars, taskVars, queryVars>>
       \/ part = "pool" /\ PoolNext /\ UNCHANGED <<memorydVars, captureVars, taskVars, queryVars>>
       \/ part = "task" /\ TaskNext /\ UNCHANGED <<memorydVars, captureVars, poolVars, queryVars>>
       \/ part = "query" /\ QueryNext /\ UNCHANGED <<memorydVars, captureVars, poolVars, taskVars>>

MemorySpec == MemoryInit /\ [][MemoryNext]_memoryVars

\* The state of all parts is well typed: images and temporary files, captures and evidence
\* files, handles of domains, tasks, and the reading of a query.
MemoryTypeOK == MemorydTypeOK /\ CaptureTypeOK /\ PoolTypeOK /\ TaskTypeOK /\ QueryTypeOK
=============================================================================
