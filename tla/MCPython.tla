-------------------------------- MODULE MCPython --------------------------------
(***************************************************************************)
(* The Python SDKs: the prompts of a service (PyService) and the streams   *)
(* of a client (PyStream).  A behaviour is one of one of them; what is     *)
(* fair of the other is not enabled while it rests.                        *)
(***************************************************************************)
EXTENDS PyService, PyStream

VARIABLE sdk    \* the SDK the behaviour is of

PythonInit ==
  /\ PyInit /\ PyStreamInit
  /\ sdk = "agent" \/ (sdk = "client" /\ limit = CHOOSE n \in Limits : TRUE)

PythonNext ==
  \/ sdk = "agent"  /\ PyNext /\ UNCHANGED <<sdk, pyStreamVars>>
  \/ sdk = "client" /\ PyStreamNext /\ UNCHANGED <<sdk, pyVars>>

AgentMoves(A)  == sdk = "agent" /\ A
ClientMoves(A) == sdk = "client" /\ A

\* PyFairness and PyStreamFairness, each of its own behaviours.
PythonFairness ==
  /\ \A p \in Prompts :
       WF_pyVars(AgentMoves(Cancelled(p) \/ KeepAliveStopped(p) \/ Terminate(p) \/ TaskDone(p)
                            \/ SlotTaken(p)))
  /\ WF_pyVars(AgentMoves(StopSteps)) /\ WF_pyVars(AgentMoves(TakeRequest))
  /\ \A s \in Streams : WF_pyStreamVars(ClientMoves(StreamMoves(s)))

PythonSpec ==
  PythonInit /\ [][PythonNext]_<<sdk, pyVars, pyStreamVars>> /\ PythonFairness
=============================================================================
