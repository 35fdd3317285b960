--------------------------- MODULE NeonExamples ---------------------------
(***************************************************************************)
(* The example programs of src/main/native/examples as callers of the C    *)
(* API.  main() of client_example.c or of host_example.c runs on one       *)
(* native thread, Main, of a process in which a JVM may have loaded the    *)
(* library (JNI_OnLoad) before main calls it; when none has, every call    *)
(* fails with "JVM not initialized".  Each statement of main that calls    *)
(* the API starts the call with the wrapper of NeonBoundary; main goes on  *)
(* once the call has returned (call[Main] is Idle again), branching on the *)
(* value the wrapper returned, read from last[Main].  printf and sleep_ms  *)
(* are left out: they change no state the API sees, and so are the       *)
(* session ids main passes and prints, which no branch of main reads.     *)
(***************************************************************************)
EXTENDS NeonBoundary

CONSTANTS
  Main,             \* the thread running main()
  ClientIterations, \* the for loop of client_example.c (30)
  HostIterations    \* the for loop of host_example.c (60)

ASSUME Main \in Threads /\ ClientIterations \in Nat \ {0} /\ HostIterations \in Nat \ {0}
ASSUME ClientCbFields = 1 .. Cardinality(ClientCbFields)
ASSUME HostCbFields = 1 .. Cardinality(HostCbFields)

VARIABLES
  program,  \* "client" or "host": which main() runs
  pc,       \* the statement main is at
  hdl,      \* the handle variable (client / host)
  i,        \* the loop index, and the callback being set
  waiting   \* main has started the call of statement pc

exVars  == <<program, pc, hdl, i, waiting>>
allVars == <<vars, exVars>>

(* The handle *_new returned: main creates one handle only.                *)
Created == IF issued = {} THEN NULL ELSE CHOOSE a \in issued : TRUE

(* How the call main just returned from went: checked calls report        *)
(* failure; an unchecked getter returns 0 after its method threw.          *)
Path ==
  IF last[Main].msg # NoMsg /\ ~last[Main].failed THEN "noenv"
  ELSE IF last[Main].threw \/ last[Main].failed THEN "threw"
  ELSE "ok"

(* neon_client_is_connected's result: isConnected's jboolean v compared   *)
(* with JNI_TRUE, 0 on every failure path.                                 *)
IsConnectedResult(v) == Path = "ok" /\ v = 1
-----------------------------------------------------------------------------
(***************************************************************************)
(* client_example.c main(), lines 63-119: the API call of each statement. *)
(***************************************************************************)
ClientStatement ==
  \/ pc = "new"     /\ neon_client_new(Main)
  \/ pc = "set_cb"  /\ \E f \in Fns : neon_client_set_callback(Main, hdl, i, f)
  \/ pc = "connect" /\ \E s \in RelayInputs : neon_client_connect(Main, hdl, s)
  \/ pc \in {"process", "loop_process"} /\ neon_client_process_packets(Main, hdl)
  \/ pc \in {"is_connected", "loop_connected"} /\ neon_client_is_connected(Main, hdl)
  \/ pc = "get_id"         /\ neon_client_get_id(Main, hdl)
  \/ pc = "get_session_id" /\ neon_client_get_session_id(Main, hdl)
  \/ pc = "loop_ping"      /\ neon_client_send_ping(Main, hdl)
  \/ pc = "free"           /\ neon_client_free(Main, hdl)

(* The for loop's next iteration, or the cleanup after the last one.       *)
ClientLoopNext ==
  IF i + 1 < ClientIterations
  THEN pc' = "loop_process" /\ i' = i + 1
  ELSE pc' = "free" /\ UNCHANGED i

(* main continues after the call of statement pc returned.                 *)
ClientReturn ==
  \/ /\ pc = "new"
     /\ hdl' = Created
     /\ pc' = IF Created = NULL THEN "exit" ELSE "set_cb"
     /\ i' = 1
  \/ /\ pc = "set_cb"
     /\ IF i + 1 \in ClientCbFields THEN pc' = pc /\ i' = i + 1
                                    ELSE pc' = "connect" /\ UNCHANGED i
     /\ UNCHANGED hdl
  \/ /\ pc = "connect"
     /\ pc' = IF last[Main].failed THEN "free" ELSE "process"
     /\ UNCHANGED <<hdl, i>>
  \/ /\ pc = "process" /\ pc' = "is_connected"
     /\ UNCHANGED <<hdl, i>>
  \/ /\ pc = "is_connected"
     /\ \E v \in {0, 1} :
          pc' = IF IsConnectedResult(v) THEN "get_id" ELSE "loop_process"
     /\ i' = 0 /\ UNCHANGED hdl
  \/ /\ pc = "get_id" /\ pc' = "get_session_id"
     /\ UNCHANGED <<hdl, i>>
  \/ /\ pc = "get_session_id" /\ pc' = "loop_process"
     /\ i' = 0 /\ UNCHANGED hdl
  \/ /\ pc = "loop_process"
     /\ pc' = IF i % 5 = 0 /\ i > 0 THEN "loop_ping" ELSE "loop_connected"
     /\ UNCHANGED <<hdl, i>>
  \/ /\ pc = "loop_ping" /\ pc' = "loop_connected"
     /\ UNCHANGED <<hdl, i>>
  \/ /\ pc = "loop_connected"
     /\ \E v \in {0, 1} :
          IF IsConnectedResult(v) THEN ClientLoopNext
          ELSE pc' = "free" /\ UNCHANGED i
     /\ UNCHANGED hdl
  \/ /\ pc = "free" /\ pc' = "exit"
     /\ UNCHANGED <<hdl, i>>
-----------------------------------------------------------------------------
(***************************************************************************)
(* host_example.c main(), lines 50-82.                                     *)
(***************************************************************************)
HostStatement ==
  \/ pc = "new"            /\ \E s \in RelayInputs : neon_host_new(Main, s)
  \/ pc = "set_cb"         /\ \E f \in Fns : neon_host_set_callback(Main, hdl, i, f)
  \/ pc = "get_session_id" /\ neon_host_get_session_id(Main, hdl)
  \/ pc \in {"get_count", "loop_count"} /\ neon_host_get_client_count(Main, hdl)
  \/ pc = "loop_process"   /\ neon_host_process_packets(Main, hdl)
  \/ pc = "free"           /\ neon_host_free(Main, hdl)

HostLoopNext ==
  IF i + 1 < HostIterations
  THEN pc' = "loop_process" /\ i' = i + 1
  ELSE pc' = "free" /\ UNCHANGED i

HostReturn ==
  \/ /\ pc = "new"
     /\ hdl' = Created
     /\ pc' = IF Created = NULL THEN "exit" ELSE "set_cb"
     /\ i' = 1
  \/ /\ pc = "set_cb"
     /\ IF i + 1 \in HostCbFields THEN pc' = pc /\ i' = i + 1
                                  ELSE pc' = "get_session_id" /\ UNCHANGED i
     /\ UNCHANGED hdl
  \/ /\ pc = "get_session_id" /\ pc' = "get_count"
     /\ UNCHANGED <<hdl, i>>
  \/ /\ pc = "get_count" /\ pc' = "loop_process"
     /\ i' = 0 /\ UNCHANGED hdl
  \/ /\ pc = "loop_process"
     \* packets_processed > 0: possible only when the call did not fail
     /\ \E more \in IF Path = "ok" THEN BOOLEAN ELSE {FALSE} :
          IF more THEN pc' = "loop_count" /\ UNCHANGED i ELSE HostLoopNext
     /\ UNCHANGED hdl
  \/ /\ pc = "loop_count" /\ HostLoopNext
     /\ UNCHANGED hdl
  \/ /\ pc = "free" /\ pc' = "exit"
     /\ UNCHANGED <<hdl, i>>
-----------------------------------------------------------------------------
(* main calls the API at statement pc: the call's first step.              *)
MainCalls ==
  /\ ~waiting /\ pc # "exit"
  /\ IF program = "client" THEN ClientStatement ELSE HostStatement
  /\ waiting' = TRUE
  /\ UNCHANGED <<program, pc, hdl, i>>

(* The call has returned to main.                                          *)
MainContinues ==
  /\ waiting /\ call[Main] = Idle /\ ~crashed
  /\ IF program = "client" THEN ClientReturn ELSE HostReturn
  /\ waiting' = FALSE
  /\ UNCHANGED <<vars, program>>

ExampleInit ==
  /\ Init
  /\ program \in {"client", "host"}
  /\ pc = "new" /\ hdl = NULL /\ i = 0 /\ waiting = FALSE

ExampleNext ==
  \/ JNI_OnLoad /\ UNCHANGED exVars
  \/ MainCalls
  \/ MainContinues
  \/ (Invoke(Main) \/ StoreCallback(Main) \/ Release(Main)) /\ UNCHANGED exVars

ExampleSpec == ExampleInit /\ [][ExampleNext]_allVars
-----------------------------------------------------------------------------
(***************************************************************************)
(* Spec 8: create/free pairs never leak the managed reference.  When main  *)
(* returns, on every path (create failed, connect failed, loop done or     *)
(* disconnected), no handle struct is left allocated and no global         *)
(* reference held: the free's get_jni_env finds the thread that *_new      *)
(* attached still attached.                                                *)
(***************************************************************************)
ExampleReleasesHandle ==
  pc = "exit" => (\A a \in Addrs : heap[a] = "free") /\ globalRefs = {}

====
