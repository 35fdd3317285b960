--------------------------- MODULE NeonBoundary ---------------------------
(***************************************************************************)
(* The native-call boundary of src/main/native/neon_jni.c: the C API       *)
(* (neon_client_*, neon_host_*, neon_get_last_error) called by arbitrary   *)
(* native threads, and the JNI functions it forwards to.                   *)
(*                                                                         *)
(* State kept by the code and its counterpart here:                        *)
(*   g_jvm                          jvm          (set by JNI_OnLoad)       *)
(*   thread attachment of the JVM   attached[t]  (never detached)          *)
(*   THREAD_LOCAL g_error_buffer    errbuf[t]                              *)
(*   the JNIEnv pending exception   pending[t]                             *)
(*   malloc'd handle structs        heap[a], javaObject[a], cb[a][i]       *)
(*   JNI global references          globalRefs                             *)
(* A handle is an address a of Addrs; a callback field is named by its     *)
(* position i in the struct, so a host struct malloc'd where a client      *)
(* struct was freed overlays the same fields.                              *)
(*                                                                         *)
(* Every C API call that reaches the managed side takes two steps of the   *)
(* calling thread: Begin (the wrapper's null check, get_jni_env, argument  *)
(* marshalling and GetMethodID) and Invoke (the load of                    *)
(* handle->javaObject, the managed call and the exception check), so other *)
(* threads' calls interleave between the two, as they do in the code.      *)
(* The callers are the environment: they pass NULL or a handle that was     *)
(* returned by a *_new and whose *_free has not returned (issued).         *)
(*                                                                         *)
(* neon_host_start blocks in the managed start() until the host object is *)
(* closed (by neon_host_free on another thread) or start() throws.         *)
(* Method lookups (GetMethodID) on a loaded class are assumed to succeed:  *)
(* they fail only when the Java classes do not match this file.  A lookup  *)
(* on a class reference JNI_OnLoad left NULL faults the process.           *)
(***************************************************************************)
EXTENDS Integers, FiniteSets, Sequences

CONSTANTS
  Threads,          \* native threads calling the C API
  Addrs,            \* addresses malloc can return for a handle struct
  Objs,             \* managed objects NeonClient/NeonHost instances can be
  Fns,              \* native callback function pointers
  NULL,
  ClientCbFields,   \* positions of the callback fields of NeonClientHandle
  HostCbFields,     \* positions of the callback fields of NeonHostHandle
  RelayInputs,      \* relay_addr strings passed by callers
  HostCap,          \* the %255[^:] field width
  AttachMayFail,    \* AttachCurrentThread may fail (shutdown, exhaustion)
  AllocMayFail,     \* malloc and JNI string allocation may fail (OOM)
  GlobalRefMayFail, \* NewGlobalRef may return NULL (OOM)
  ManagedMayThrow,  \* a managed constructor or method may throw
  GuardedCallers,   \* callers never free a handle another call is using
  OnLoadMayFail,    \* GetEnv or a FindClass in JNI_OnLoad may fail
  CallerOps,        \* the operations the callers use
  JavaThreads,      \* threads of Java code calling the JNI functions directly
  JavaNullArgs      \* operations to which Java callers may pass a null jstring

ASSUME NULL \notin Addrs \cup Objs \cup Fns
ASSUME ClientCbFields \subseteq Nat /\ HostCbFields \subseteq Nat
ASSUME JavaThreads \subseteq Threads

(* The threads calling the C API.                                          *)
NativeThreads == Threads \ JavaThreads

Addr == INSTANCE RelayAddress

CbFields == ClientCbFields \cup HostCbFields
NoMsg    == ""

VARIABLES
  jvm,          \* g_jvm != NULL
  attached,     \* attached[t]: thread t is attached to the JVM
  errbuf,       \* errbuf[t]: thread t's g_error_buffer
  pending,      \* pending[t]: an exception is pending on t's JNIEnv
  heap,         \* heap[a] \in {"free", "client", "host"}
  javaObject,   \* javaObject[a]: the handle->javaObject field
  cb,           \* cb[a][i]: callback field i of the struct at a
  globalRefs,   \* managed objects held by a JNI global reference
  issued,       \* handles returned to callers and not yet freed
  call,         \* call[t]: the C API call thread t is executing
  cbSet,        \* ghost: cbSet[a], fields stored by a setter on this handle
  last,         \* ghost: outcome of the last call each thread returned from
  classes,      \* kinds whose class global ref (g_neonClientClass...) is set
  closed,       \* managed objects whose close() has been called
  crashed       \* the process has faulted

vars == <<jvm, attached, errbuf, pending, heap, javaObject, cb, globalRefs,
          issued, call, cbSet, last, classes, closed, crashed>>
-----------------------------------------------------------------------------
(***************************************************************************)
(* Operations.  checked: the JNI function calls ExceptionCheck after the   *)
(* managed call, clears the exception and sets "Exception during <m>";     *)
(* exactly those C wrappers also set "Invalid ... handle" on NULL.         *)
(***************************************************************************)
Op(kind, method, checked) == [kind |-> kind, method |-> method, checked |-> checked]

ClientConnect        == Op("client", "connect", TRUE)
ClientProcessPackets == Op("client", "processPackets", TRUE)
ClientGetId          == Op("client", "getClientId", FALSE)
ClientGetSessionId   == Op("client", "getSessionId", FALSE)
ClientIsConnected    == Op("client", "isConnected", FALSE)
ClientSendPing       == Op("client", "sendPing", TRUE)
ClientSetAutoPing    == Op("client", "setAutoPing", FALSE)
HostStart            == Op("host", "start", TRUE)
HostProcessPackets   == Op("host", "processPackets", TRUE)
HostGetSessionId     == Op("host", "getSessionId", FALSE)
HostGetClientCount   == Op("host", "getClientCount", FALSE)
ClientFree           == Op("client", "close", FALSE)
HostFree             == Op("host", "close", FALSE)
ClientSetCb          == Op("client", "set", FALSE)
HostSetCb            == Op("host", "set", FALSE)
ClientNew            == Op("client", "<init>", TRUE)
HostNew              == Op("host", "<init>", TRUE)

AllOps == {ClientFree, HostFree, ClientSetCb, HostSetCb, ClientNew, HostNew,
           ClientConnect, ClientProcessPackets, ClientGetId,
           ClientGetSessionId, ClientIsConnected, ClientSendPing,
           ClientSetAutoPing, HostStart, HostProcessPackets,
           HostGetSessionId, HostGetClientCount}

ASSUME CallerOps \subseteq AllOps
ASSUME JavaNullArgs \subseteq {ClientNew, HostNew, ClientConnect}

Forwarded == {ClientConnect, ClientProcessPackets, ClientGetId,
              ClientGetSessionId, ClientIsConnected, ClientSendPing,
              ClientSetAutoPing, HostStart, HostProcessPackets,
              HostGetSessionId, HostGetClientCount}

NullMsg(op) == IF ~op.checked THEN NoMsg
               ELSE IF op.kind = "client" THEN "Invalid client handle"
                                          ELSE "Invalid host handle"
ExcMsg(op)  == "Exception during " \o op.method

(* The JNI functions' own clientPtr == 0 / hostPtr == 0 check: every one   *)
(* sets the error except neonClientIsConnected and the two Free functions. *)
JniNullMsg(op) ==
  IF op.method \in {"isConnected", "close"} THEN NoMsg
  ELSE IF op.kind = "client" THEN "Invalid client handle" ELSE "Invalid host handle"

(* Undefined behaviour that faults the process (a JNI function given NULL *)
(* where it requires an object), as a marshalling outcome.                 *)
Fault == [msg |-> "fault", oom |-> FALSE]

Idle == [op |-> Op("none", "none", FALSE), h |-> NULL, field |-> 0, fn |-> NULL,
         doomed |-> FALSE, phase |-> "idle", obj |-> NULL]

Outcome(op, failed, threw, msg) ==
  [op |-> op, failed |-> failed, threw |-> threw, msg |-> msg]

Throws == IF ManagedMayThrow THEN BOOLEAN ELSE {FALSE}
-----------------------------------------------------------------------------
(* Mutation of set_error: one process-wide buffer instead of THREAD_LOCAL. *)
set_error_shared(t, msg) == errbuf' = [u \in Threads |-> msg]

(* set_error: strncpy into the calling thread's buffer.                    *)
set_error(t, msg) == errbuf' = [errbuf EXCEPT ![t] = msg]

(***************************************************************************)
(* get_jni_env: the outcomes for thread t, as records telling whether an   *)
(* env is returned, the error it sets otherwise, and whether t is attached *)
(* afterwards (GetEnv -> JNI_EDETACHED -> AttachCurrentThread). GetEnv's  *)
(* other error, JNI_EVERSION, cannot occur: JNI_OnLoad returned           *)
(* JNI_VERSION_1_8, so the JVM that loaded the library supports it.       *)
(***************************************************************************)
(* Mutation of get_jni_env: the thread is detached again after each call, *)
(* so every call attaches anew.                                            *)
get_jni_env_detached(t) ==
  IF ~jvm THEN {[ok |-> FALSE, msg |-> "JVM not initialized", att |-> FALSE]}
  ELSE {[ok |-> TRUE, msg |-> NoMsg, att |-> FALSE]} \cup
       IF AttachMayFail
       THEN {[ok |-> FALSE, msg |-> "Failed to attach thread to JVM", att |-> FALSE]}
       ELSE {}

get_jni_env(t) ==
  IF ~jvm THEN {[ok |-> FALSE, msg |-> "JVM not initialized", att |-> FALSE]}
  ELSE IF attached[t] THEN {[ok |-> TRUE, msg |-> NoMsg, att |-> TRUE]}
  ELSE {[ok |-> TRUE, msg |-> NoMsg, att |-> TRUE]} \cup
       IF AttachMayFail
       THEN {[ok |-> FALSE, msg |-> "Failed to attach thread to JVM", att |-> FALSE]}
       ELSE {}

(* The env a call runs with: a Java thread calling a JNI function is       *)
(* given its own, attached; a native thread gets one from get_jni_env.     *)
CallEnv(t) ==
  IF t \in JavaThreads THEN {[ok |-> TRUE, msg |-> NoMsg, att |-> TRUE]}
  ELSE get_jni_env(t)

(* An exception still pending when a JNI function returns to Java is       *)
(* thrown in its Java caller; only a native thread's JNIEnv keeps it.      *)
Pend(t, exc) == pending' = [pending EXCEPT ![t] = exc /\ t \notin JavaThreads]

(* An allocation on the path that may fail, with the message it sets and   *)
(* whether it leaves an OutOfMemoryError pending (JNI allocations do).     *)
Alloc(msg, jni) == IF AllocMayFail THEN {[msg |-> msg, oom |-> jni]} ELSE {}

(* Thread t returns from its call with the given outcome.                  *)
Return(t, out) ==
  /\ call' = [call EXCEPT ![t] = Idle]
  /\ last' = [last EXCEPT ![t] = out]

IsFree(op) == op.method = "close"

(***************************************************************************)
(* Thread t's call returns before reaching the managed object.  A free     *)
(* that returns early still ends the caller's use of the handle (gone).    *)
(***************************************************************************)
EarlyExit(t, op, msg, oom, gone) ==
  /\ IF msg = NoMsg THEN UNCHANGED errbuf ELSE set_error(t, msg)
  /\ Pend(t, pending[t] \/ oom)
  /\ issued' = issued \ gone
  /\ Return(t, Outcome(op, IF t \in JavaThreads THEN msg # NoMsg ELSE op.checked,
                       FALSE, msg))
  /\ UNCHANGED <<heap, javaObject, cb, globalRefs, cbSet, closed, crashed>>

(* GetMethodID(env, NULL, ...): the process faults and nothing runs after. *)
Crash ==
  /\ crashed' = TRUE
  /\ UNCHANGED <<errbuf, pending, heap, javaObject, cb, globalRefs, issued,
                 call, cbSet, last, closed>>

(* A marshalling step fails: an error return, or a fault.                  *)
Abort(t, op, x) == IF x = Fault THEN Crash ELSE EarlyExit(t, op, x.msg, x.oom, {})

(* The JNI function of op looks up a method of its kind's class (the      *)
(* callback setters only store a field).                                   *)
LooksUp(op) == op.method # "set"
-----------------------------------------------------------------------------
(***************************************************************************)
(* The callers: h is NULL or a live handle of the right kind they were     *)
(* given.  Guarded callers also keep a per-handle exclusion of their own:  *)
(* no call starts on a handle being freed, no free on a handle another     *)
(* call is about to use.  A start blocked in the managed start() has       *)
(* loaded handle->javaObject already, and freeing the host is the only way *)
(* to make it return, so it does not exclude a free.                       *)
(***************************************************************************)
CallerMay(t, op, h) ==
  \/ h = NULL
  \/ /\ h \in issued /\ heap[h] = op.kind
     /\ GuardedCallers =>
          \A u \in Threads \ {t} :
             call[u].h = h /\ call[u].phase = "begun" =>
                ~IsFree(op) /\ ~IsFree(call[u].op)

(***************************************************************************)
(* Begin of a call on handle h: the C wrapper's NULL check, get_jni_env,   *)
(* the marshalling failures Early before the method lookup and Late after *)
(* it (sets of [msg, oom]); Proceeds tells whether marshalling before the  *)
(* lookup can succeed.  The managed call itself is the thread's next step. *)
(* A Java thread enters the JNI function itself: its 0-handle check, no    *)
(* get_jni_env, and only once JNI_OnLoad has bound the native methods.     *)
(***************************************************************************)
Begin(t, op, h, Early, Late, Proceeds, field, fn) ==
  /\ call[t] = Idle
  /\ ~crashed
  /\ op \in CallerOps
  /\ CallerMay(t, op, h)
  /\ t \in JavaThreads => classes = {"client", "host"}
  /\ IF h = NULL
     THEN /\ EarlyExit(t, op, IF t \in JavaThreads THEN JniNullMsg(op) ELSE NullMsg(op),
                      FALSE, {})
          /\ UNCHANGED attached
     ELSE \E env \in CallEnv(t) :
            /\ attached' = [attached EXCEPT ![t] = env.att]
            /\ \/ /\ ~env.ok
                  /\ EarlyExit(t, op, env.msg, FALSE, IF IsFree(op) THEN {h} ELSE {})
               \/ /\ env.ok
                  /\ \E x \in Early : Abort(t, op, x)
               \/ /\ env.ok /\ Proceeds
                  /\ IF LooksUp(op) /\ op.kind \notin classes THEN Crash
                     ELSE \/ \E x \in Late : EarlyExit(t, op, x.msg, x.oom, {})
                          \/ /\ call' = [call EXCEPT ![t] =
                                           [op |-> op, h |-> h, field |-> field, fn |-> fn,
                                            doomed |-> FALSE, phase |-> "begun", obj |-> NULL]]
                             /\ UNCHANGED <<errbuf, pending, heap, javaObject, cb,
                                            globalRefs, issued, cbSet, last, closed, crashed>>
  /\ UNCHANGED <<jvm, classes>>

(* A call of a forwarded method that marshals nothing.                     *)
Forward(t, op, h) == Begin(t, op, h, {}, {}, TRUE, 0, NULL)
-----------------------------------------------------------------------------
(***************************************************************************)
(* The C API wrappers.  Each checks its handle for NULL, calls             *)
(* get_jni_env and forwards to the JNI function of the same operation.     *)
(***************************************************************************)
(* sscanf("%255[^:]:%d") != 2 on the relay address.                       *)
BadFormat(addr) ==
  IF Addr!Accepts(addr) THEN {}
  ELSE {[msg |-> "Invalid relay address format (expected host:port)", oom |-> FALSE]}

neon_client_connect(t, h, addr) ==
  Begin(t, ClientConnect, h,
        Alloc("Failed to create relay address string", TRUE)
          \cup Alloc("Failed to get relay address string", TRUE)
          \cup BadFormat(addr),
        Alloc("Failed to create host string", TRUE),
        Addr!Accepts(addr), 0, NULL)

neon_client_process_packets(t, h) == Forward(t, ClientProcessPackets, h)
neon_client_get_id(t, h)          == Forward(t, ClientGetId, h)
neon_client_get_session_id(t, h)  == Forward(t, ClientGetSessionId, h)
neon_client_is_connected(t, h)    == Forward(t, ClientIsConnected, h)
neon_client_send_ping(t, h)       == Forward(t, ClientSendPing, h)
neon_client_set_auto_ping(t, h)   == Forward(t, ClientSetAutoPing, h)
neon_host_start(t, h)             == Forward(t, HostStart, h)
neon_host_process_packets(t, h)   == Forward(t, HostProcessPackets, h)
neon_host_get_session_id(t, h)    == Forward(t, HostGetSessionId, h)
neon_host_get_client_count(t, h)  == Forward(t, HostGetClientCount, h)

(* neon_client_set_*_callback: field i of the client struct.               *)
neon_client_set_callback(t, h, i, f) ==
  Begin(t, ClientSetCb, h, {}, {}, TRUE, i, f)

(* neon_host_set_*_callback: field i of the host struct.                   *)
neon_host_set_callback(t, h, i, f) ==
  Begin(t, HostSetCb, h, {}, {}, TRUE, i, f)

neon_client_free(t, h) == Begin(t, ClientFree, h, {}, {}, TRUE, 0, NULL)
neon_host_free(t, h)   == Begin(t, HostFree, h, {}, {}, TRUE, 0, NULL)

(* neon_get_last_error: the calling thread's buffer, NULL when empty.      *)
neon_get_last_error(t) == IF errbuf[t] = NoMsg THEN NULL ELSE errbuf[t]

(* neonGetLastError: what Java may get, null when the buffer is empty;     *)
(* NewStringUTF of the buffer may fail and return null.                    *)
neonGetLastError(t) ==
  IF errbuf[t] = NoMsg THEN {NULL}
  ELSE {errbuf[t]} \cup (IF AllocMayFail THEN {NULL} ELSE {})
-----------------------------------------------------------------------------
(***************************************************************************)
(* The managed call on handle->javaObject: a NULL receiver throws          *)
(* NullPointerException, any other call may throw.  After it, the          *)
(* exception check sees the method's own exception and any exception       *)
(* already pending on the thread's JNIEnv: unchecked methods leave it      *)
(* pending, checked ones clear it, report it and return the sentinel.      *)
(***************************************************************************)
CallThrows(h) == IF javaObject[h] = NULL THEN {TRUE} ELSE Throws

Complete(t, op, threw) ==
  LET exc    == threw \/ pending[t]
      failed == op.checked /\ exc
      msg    == IF failed THEN ExcMsg(op) ELSE NoMsg
  IN  /\ IF failed THEN set_error(t, msg) ELSE UNCHANGED errbuf
      /\ Pend(t, exc /\ ~op.checked)
      /\ Return(t, Outcome(op, failed, threw, msg))

(* Second step of a forwarded call other than start: call and return.     *)
Invoke(t) ==
  LET c == call[t] IN
  /\ ~crashed
  /\ c.op \in Forwarded \ {HostStart}
  /\ \E threw \in CallThrows(c.h) : Complete(t, c.op, threw)
  /\ UNCHANGED <<jvm, attached, heap, javaObject, cb, globalRefs, issued, cbSet,
                 classes, closed, crashed>>

(* Second step of neon_host_start: handle->javaObject is loaded and the    *)
(* thread enters the managed start(), which runs until the host closes.   *)
StartEnter(t) ==
  LET c == call[t] IN
  /\ ~crashed
  /\ c.op = HostStart /\ c.phase = "begun"
  /\ IF javaObject[c.h] = NULL
     THEN Complete(t, HostStart, TRUE)
     ELSE /\ call' = [call EXCEPT ![t].phase = "running", ![t].obj = javaObject[c.h]]
          /\ UNCHANGED <<errbuf, pending, last>>
  /\ UNCHANGED <<jvm, attached, heap, javaObject, cb, globalRefs, issued, cbSet,
                 classes, closed, crashed>>

(* start() returns because its host was closed, or throws; then           *)
(* neonHostStart's exception check, without touching the handle again.    *)
StartStops(t) ==
  /\ ~crashed
  /\ call[t].phase = "running" /\ call[t].obj \in closed
  /\ Complete(t, HostStart, FALSE)
  /\ UNCHANGED <<jvm, attached, heap, javaObject, cb, globalRefs, issued, cbSet,
                 classes, closed, crashed>>

StartThrows(t) ==
  /\ ~crashed
  /\ call[t].phase = "running" /\ ManagedMayThrow
  /\ Complete(t, HostStart, TRUE)
  /\ UNCHANGED <<jvm, attached, heap, javaObject, cb, globalRefs, issued, cbSet,
                 classes, closed, crashed>>

(* Second step of a callback setter: handle->xCallback = callback.         *)
StoreCallback(t) ==
  LET c == call[t] IN
  /\ ~crashed
  /\ c.op \in {ClientSetCb, HostSetCb}
  /\ cb' = [cb EXCEPT ![c.h][c.field] = c.fn]
  /\ cbSet' = [cbSet EXCEPT ![c.h] = @ \cup {c.field}]
  /\ Return(t, Outcome(c.op, FALSE, FALSE, NoMsg))
  /\ UNCHANGED <<jvm, attached, errbuf, pending, heap, javaObject, globalRefs, issued,
                 classes, closed, crashed>>

(***************************************************************************)
(* Second step of a free: close() on handle->javaObject (any exception     *)
(* cleared, with whatever was pending), then DeleteGlobalRef and           *)
(* free(handle).  Calls of other threads on the handle that have not yet   *)
(* loaded handle->javaObject are marked doomed: their next step reads the  *)
(* freed struct.  A start blocked in start() already holds the object.    *)
(***************************************************************************)
Doom(t, h) ==
  call' = [u \in Threads |->
             IF u = t THEN Idle
             ELSE IF call[u].h = h /\ call[u].phase = "begun"
                  THEN [call[u] EXCEPT !.doomed = TRUE]
                  ELSE call[u]]

(* Mutation of Release: the global reference is never deleted.            *)
ReleaseNoDelete(t) ==
  LET c == call[t] IN
  /\ ~crashed
  /\ c.op \in {ClientFree, HostFree}
  /\ \E threw \in CallThrows(c.h) :
       last' = [last EXCEPT ![t] = Outcome(c.op, FALSE, threw, NoMsg)]
  /\ pending' = [pending EXCEPT ![t] = FALSE]
  /\ closed' = closed \cup ({javaObject[c.h]} \ {NULL})
  /\ heap' = [heap EXCEPT ![c.h] = "free"]
  /\ issued' = issued \ {c.h}
  /\ Doom(t, c.h)
  /\ UNCHANGED <<jvm, attached, errbuf, javaObject, cb, cbSet, globalRefs,
                 classes, crashed>>

(* Mutation of Release: close() is not called before the reference goes. *)
ReleaseNoClose(t) ==
  LET c == call[t] IN
  /\ ~crashed
  /\ c.op \in {ClientFree, HostFree}
  /\ last' = [last EXCEPT ![t] = Outcome(c.op, FALSE, FALSE, NoMsg)]
  /\ pending' = [pending EXCEPT ![t] = FALSE]
  /\ globalRefs' = globalRefs \ {javaObject[c.h]}
  /\ heap' = [heap EXCEPT ![c.h] = "free"]
  /\ issued' = issued \ {c.h}
  /\ Doom(t, c.h)
  /\ UNCHANGED <<jvm, attached, errbuf, javaObject, cb, cbSet, closed,
                 classes, crashed>>

Release(t) ==
  LET c == call[t] IN
  /\ ~crashed
  /\ c.op \in {ClientFree, HostFree}
  /\ \E threw \in CallThrows(c.h) :
       last' = [last EXCEPT ![t] = Outcome(c.op, FALSE, threw, NoMsg)]
  /\ pending' = [pending EXCEPT ![t] = FALSE]
  /\ closed' = closed \cup ({javaObject[c.h]} \ {NULL})
  /\ globalRefs' = globalRefs \ {javaObject[c.h]}
  /\ heap' = [heap EXCEPT ![c.h] = "free"]
  /\ issued' = issued \ {c.h}
  /\ Doom(t, c.h)
  /\ UNCHANGED <<jvm, attached, errbuf, javaObject, cb, cbSet, classes, crashed>>
-----------------------------------------------------------------------------
(***************************************************************************)
(* Handle creation, one step of the calling thread (the handle is not      *)
(* visible to other threads before it is returned).                        *)
(***************************************************************************)
Fields(kind) == IF kind = "client" THEN ClientCbFields ELSE HostCbFields

(***************************************************************************)
(* The struct malloc'd at a: javaObject = NewGlobalRef(obj) (NULL when it  *)
(* failed), every callback field of the kind set to NULL; the handle is    *)
(* returned to the caller.                                                 *)
(***************************************************************************)
(* Mutation of InitHandle: the callback fields are left as malloc found them. *)
InitHandleNoNull(a, kind, ref) ==
  /\ heap' = [heap EXCEPT ![a] = kind]
  /\ javaObject' = [javaObject EXCEPT ![a] = ref]
  /\ globalRefs' = globalRefs \cup ({ref} \ {NULL})
  /\ UNCHANGED cb
  /\ cbSet' = [cbSet EXCEPT ![a] = {}]
  /\ issued' = issued \cup {a}

(* Mutation of InitHandle: the local reference from NewObject is stored.   *)
InitHandleLocalRef(a, kind, ref) ==
  /\ heap' = [heap EXCEPT ![a] = kind]
  /\ javaObject' = [javaObject EXCEPT ![a] = <<"local", ref>>]
  /\ globalRefs' = globalRefs
  /\ cb' = [cb EXCEPT ![a] = [i \in CbFields |->
                 IF i \in Fields(kind) THEN NULL ELSE @[i]]]
  /\ cbSet' = [cbSet EXCEPT ![a] = {}]
  /\ issued' = issued \cup {a}

InitHandle(a, kind, ref) ==
  /\ heap' = [heap EXCEPT ![a] = kind]
  /\ javaObject' = [javaObject EXCEPT ![a] = ref]
  /\ globalRefs' = globalRefs \cup ({ref} \ {NULL})
  /\ cb' = [cb EXCEPT ![a] = [i \in CbFields |->
                 IF i \in Fields(kind) THEN NULL ELSE @[i]]]
  /\ cbSet' = [cbSet EXCEPT ![a] = {}]
  /\ issued' = issued \cup {a}

(* Objects some thread's blocked start() still holds a reference to.      *)
Running == {call[t].obj : t \in {u \in Threads : call[u].phase = "running"}}

(***************************************************************************)
(* neonClientNew / neonHostNew behind the C wrapper: Early failures, then  *)
(* GetMethodID of the constructor, then the Late failures: marshalling,    *)
(* NewObject (the constructor throws or the heap is exhausted: NULL, the   *)
(* exception left pending) and malloc.  A fresh object is one no global    *)
(* reference and no running call holds; any other may have been collected *)
(* and its identity reused.                                                *)
(***************************************************************************)
NewHandle(t, kind, op, Early, Late, Proceeds, objMsg, mallocMsg) ==
  /\ call[t] = Idle
  /\ ~crashed
  /\ op \in CallerOps
  /\ t \in JavaThreads => classes = {"client", "host"}
  /\ \E env \in CallEnv(t) :
       /\ attached' = [attached EXCEPT ![t] = env.att]
       /\ \/ /\ ~env.ok
             /\ EarlyExit(t, op, env.msg, FALSE, {})
          \/ /\ env.ok
             /\ \E x \in Early : Abort(t, op, x)
          \/ /\ env.ok /\ Proceeds
             /\ IF kind \notin classes THEN Crash
                ELSE
                \/ \E x \in Late
                        \cup (IF ManagedMayThrow \/ AllocMayFail
                              THEN {[msg |-> objMsg, oom |-> TRUE]} ELSE {})
                        \cup Alloc(mallocMsg, FALSE) :
                     EarlyExit(t, op, x.msg, x.oom, {})
                \/ \E a \in Addrs, o \in Objs \ (globalRefs \cup Running),
                      ref \in IF GlobalRefMayFail THEN {TRUE, FALSE} ELSE {TRUE} :
                     /\ heap[a] = "free"
                     /\ InitHandle(a, kind, IF ref THEN o ELSE NULL)
                     /\ closed' = closed \ {o}
                     /\ Pend(t, pending[t])
                     /\ Return(t, Outcome(op, FALSE, FALSE, NoMsg))
                     /\ UNCHANGED <<errbuf, crashed>>
  /\ UNCHANGED <<jvm, classes>>

neon_client_new(t) ==
  NewHandle(t, "client", ClientNew,
            Alloc("Failed to create name string", TRUE)
              \cup Alloc("Failed to get client name string", TRUE),
            {}, TRUE, "Failed to create NeonClient instance",
            "Failed to allocate client handle")

neon_host_new(t, addr) ==
  NewHandle(t, "host", HostNew,
            Alloc("Failed to create relay address string", TRUE)
              \cup Alloc("Failed to get relay address string", TRUE)
              \cup BadFormat(addr),
            Alloc("Failed to create host string", TRUE),
            Addr!Accepts(addr), "Failed to create NeonHost instance",
            "Failed to allocate host handle")
-----------------------------------------------------------------------------
(***************************************************************************)
(* The JNI functions as Java calls them: the thread's own env, a jstring   *)
(* that may be null (NULL), and the functions' own checks.  Those taking   *)
(* no string behave as reached from the C wrappers, with JniNullMsg for a  *)
(* 0 handle.                                                               *)
(***************************************************************************)
neonClientNew(t, name) ==
  NewHandle(t, "client", ClientNew,
            IF name = NULL THEN {[msg |-> "Client name cannot be null", oom |-> FALSE]}
            ELSE Alloc("Failed to get client name string", TRUE),
            {}, name # NULL, "Failed to create NeonClient instance",
            "Failed to allocate client handle")

(* GetStringUTFChars(env, relayAddr, NULL) with no check that relayAddr is *)
(* not null: undefined in JNI, a fault of the VM.                          *)
neonClientConnect(t, h, addr) ==
  Begin(t, ClientConnect, h,
        IF addr = NULL THEN {Fault}
        ELSE Alloc("Failed to get relay address string", TRUE) \cup BadFormat(addr),
        Alloc("Failed to create host string", TRUE),
        addr # NULL /\ Addr!Accepts(addr), 0, NULL)

neonHostNew(t, addr) ==
  NewHandle(t, "host", HostNew,
            IF addr = NULL THEN {[msg |-> "Relay address cannot be null", oom |-> FALSE]}
            ELSE Alloc("Failed to get relay address string", TRUE) \cup BadFormat(addr),
            Alloc("Failed to create host string", TRUE),
            addr # NULL /\ Addr!Accepts(addr), "Failed to create NeonHost instance",
            "Failed to allocate host handle")

(* The strings a Java caller passes to op: S, and null where it may.       *)
JStrings(op, S) == S \cup (IF op \in JavaNullArgs THEN {NULL} ELSE {})
-----------------------------------------------------------------------------
(***************************************************************************)
(* JNI_OnLoad: g_jvm is stored first; then GetEnv and FindClass of the     *)
(* client and the host class, each returning JNI_ERR on failure and        *)
(* leaving the class references not yet made NULL.                         *)
(***************************************************************************)
JNI_OnLoad ==
  /\ ~jvm /\ ~crashed
  /\ jvm' = TRUE
  /\ classes' \in IF OnLoadMayFail THEN {{}, {"client"}, {"client", "host"}}
                  ELSE {{"client", "host"}}
  /\ UNCHANGED <<attached, errbuf, pending, heap, javaObject, cb, globalRefs,
                 issued, call, cbSet, last, closed, crashed>>
-----------------------------------------------------------------------------
(* The process before JNI_OnLoad: no JVM pointer, no class references, no  *)
(* handles; Java threads are attached, native threads are not.            *)
Init ==
  /\ jvm = FALSE
  /\ attached = [t \in Threads |-> t \in JavaThreads]
  /\ errbuf = [t \in Threads |-> NoMsg]
  /\ pending = [t \in Threads |-> FALSE]
  /\ heap = [a \in Addrs |-> "free"]
  /\ javaObject = [a \in Addrs |-> NULL]
  /\ cb = [a \in Addrs |-> [i \in CbFields |-> NULL]]
  /\ globalRefs = {}
  /\ issued = {}
  /\ call = [t \in Threads |-> Idle]
  /\ cbSet = [a \in Addrs |-> {}]
  /\ last = [t \in Threads |-> Outcome(Idle.op, FALSE, FALSE, NoMsg)]
  /\ classes = {}
  /\ closed = {}
  /\ crashed = FALSE

Next ==
  \/ JNI_OnLoad
  \/ \E t \in JavaThreads :
       \/ \E n \in JStrings(ClientNew, {"name"}) : neonClientNew(t, n)
       \/ \E s \in JStrings(HostNew, RelayInputs) : neonHostNew(t, s)
       \/ \E h \in Addrs \cup {NULL} :
            \/ \E s \in JStrings(ClientConnect, RelayInputs) : neonClientConnect(t, h, s)
            \/ \E op \in (Forwarded \ {ClientConnect}) \cup {ClientFree, HostFree} :
                  Forward(t, op, h)
            \/ \E i \in ClientCbFields, f \in Fns \cup {NULL} :
                  neon_client_set_callback(t, h, i, f)
            \/ \E i \in HostCbFields, f \in Fns \cup {NULL} :
                  neon_host_set_callback(t, h, i, f)
  \/ \E t \in NativeThreads :
       \/ neon_client_new(t)
       \/ \E s \in RelayInputs : neon_host_new(t, s)
       \/ \E h \in Addrs \cup {NULL} :
            \/ \E s \in RelayInputs : neon_client_connect(t, h, s)
            \/ neon_client_process_packets(t, h)
            \/ neon_client_get_id(t, h)
            \/ neon_client_get_session_id(t, h)
            \/ neon_client_is_connected(t, h)
            \/ neon_client_send_ping(t, h)
            \/ neon_client_set_auto_ping(t, h)
            \/ \E i \in ClientCbFields, f \in Fns \cup {NULL} :
                  neon_client_set_callback(t, h, i, f)
            \/ neon_client_free(t, h)
            \/ neon_host_start(t, h)
            \/ neon_host_process_packets(t, h)
            \/ neon_host_get_session_id(t, h)
            \/ neon_host_get_client_count(t, h)
            \/ \E i \in HostCbFields, f \in Fns \cup {NULL} :
                  neon_host_set_callback(t, h, i, f)
            \/ neon_host_free(t, h)
  \/ \E t \in Threads :
       \/ Invoke(t)
       \/ StoreCallback(t)
       \/ StartEnter(t)
       \/ StartStops(t)
       \/ StartThrows(t)
       \/ Release(t)

Spec == Init /\ [][Next]_vars

(***************************************************************************)
(* Fairness: once a thread has begun a call, the rest of the call is       *)
(* straight-line code of that thread (no lock, no wait in the bridge), so  *)
(* the OS scheduler lets it run; a blocked start() returns once its host   *)
(* object has been closed.  Nothing obliges callers to make calls.         *)
(***************************************************************************)
Fairness ==
  \A t \in Threads :
     /\ WF_vars(Invoke(t)) /\ WF_vars(StoreCallback(t)) /\ WF_vars(Release(t))
     /\ WF_vars(StartEnter(t)) /\ WF_vars(StartStops(t))

FairSpec == Spec /\ Fairness
-----------------------------------------------------------------------------
(* Properties.                                                             *)

TypeOK ==
  /\ jvm \in BOOLEAN
  /\ attached \in [Threads -> BOOLEAN]
  /\ errbuf \in [Threads -> STRING]
  /\ pending \in [Threads -> BOOLEAN]
  /\ heap \in [Addrs -> {"free", "client", "host"}]
  /\ javaObject \in [Addrs -> Objs \cup {NULL}]
  /\ cb \in [Addrs -> [CbFields -> Fns \cup {NULL}]]
  /\ globalRefs \subseteq Objs
  /\ issued \subseteq Addrs
  /\ \A t \in Threads : /\ call[t].h \in Addrs \cup {NULL}
                       /\ call[t].doomed \in BOOLEAN
                       /\ call[t].phase \in {"idle", "begun", "running"}
                       /\ call[t].obj \in Objs \cup {NULL}
  /\ cbSet \in [Addrs -> SUBSET CbFields]
  /\ \A t \in Threads : last[t].failed \in BOOLEAN /\ last[t].threw \in BOOLEAN
  /\ classes \subseteq {"client", "host"}
  /\ closed \subseteq Objs
  /\ crashed \in BOOLEAN

Live(a) == heap[a] # "free"

(***************************************************************************)
(* The handle registry the callers see: the struct at each live address    *)
(* with its kind, handle->javaObject and the callback fields of its kind; *)
(* pinned objects are the JNI global references.                           *)
(***************************************************************************)
RegView ==
  [a \in Addrs |->
     IF Live(a)
     THEN [kind |-> heap[a], obj |-> javaObject[a],
           cbs |-> [i \in Fields(heap[a]) |-> cb[a][i]]]
     ELSE [kind |-> "free", obj |-> NULL, cbs |-> [i \in {} |-> NULL]]]

Registry == INSTANCE HandleRegistry WITH reg <- RegView, pinned <- globalRefs

(***************************************************************************)
(* The boundary implements the abstract handle registry (spec 3, 4.3):     *)
(* every step of every thread on the paths of neon_*_new, the setters and  *)
(* neon_*_free that a configuration enables is a Create, SetCallback or    *)
(* Destroy of one handle, or leaves the registry as it was.                *)
(***************************************************************************)
RegistryRefined == Registry!Spec

(***************************************************************************)
(* Handle/reference accounting (spec 3, 4.3): every live handle struct     *)
(* holds a global reference to its own managed object, no two handles      *)
(* share one, and every global reference the boundary made belongs to a   *)
(* live handle: neon_*_new on all its failure paths and neon_*_free never  *)
(* leak or drop a pin, with calls of several threads interleaved.          *)
(***************************************************************************)
HandlesPinObjects ==
  /\ \A a \in Addrs : Live(a) => javaObject[a] \in globalRefs
  /\ \A a, b \in Addrs : Live(a) /\ Live(b) /\ a # b => javaObject[a] # javaObject[b]
  /\ \A o \in globalRefs : \E a \in Addrs : Live(a) /\ javaObject[a] = o

(***************************************************************************)
(* No stale callback (spec 4.3: a new handle has an all-NULL callback      *)
(* table): a callback pointer found in a live handle was stored by a       *)
(* setter call on that handle, never left over from a struct freed earlier *)
(* at the same address, whatever kind that struct was.                     *)
(***************************************************************************)
NoStaleCallback ==
  \A a \in Addrs : Live(a) =>
     \A i \in Fields(heap[a]) : cb[a][i] # NULL => i \in cbSet[a]

(***************************************************************************)
(* Per-thread error channel (spec 4.2, 5, 8): when a call that reports     *)
(* errors has failed on thread t, neon_get_last_error on t returns the     *)
(* message of that failure, however other threads' calls fail meanwhile.   *)
(* A Java thread reads it with neonGetLastError after a JNI function       *)
(* returned its failure value.                                             *)
(***************************************************************************)
ErrorChannelPerThread ==
  \A t \in Threads :
     call[t] = Idle /\ last[t].failed =>
        /\ last[t].msg # NoMsg
        /\ IF t \in JavaThreads THEN last[t].msg \in neonGetLastError(t)
                                ELSE neon_get_last_error(t) = last[t].msg

(***************************************************************************)
(* Exceptions are reported by the call that raised them (spec 4.4 (e), 7): *)
(* a call reports "Exception during <method>" only when its own managed    *)
(* call threw; no exception of an earlier call escapes into it.            *)
(***************************************************************************)
ExceptionNotMisattributed ==
  \A t \in Threads : last[t].msg = ExcMsg(last[t].op) => last[t].threw

(***************************************************************************)
(* No use after free (spec 3, 5, 9): no call is in flight on a handle      *)
(* struct that a neon_*_free has already released, so its next step never *)
(* loads handle->javaObject from freed memory or frees it again.           *)
(***************************************************************************)
NoUseAfterFree == \A t \in Threads : ~call[t].doomed

(***************************************************************************)
(* No orphaned handle (spec 4.3: free releases the managed reference and   *)
(* deallocates the handle): every live handle struct is either still held  *)
(* by the callers or being released by a free in flight.  neon_*_free on a *)
(* thread get_jni_env cannot serve returns without freeing anything.       *)
(***************************************************************************)
NoOrphanHandle ==
  \A a \in Addrs :
     Live(a) => a \in issued \/ \E t \in Threads : call[t].h = a /\ IsFree(call[t].op)

(***************************************************************************)
(* Calls never fault (spec 4.1, 8: operations fail with NotInitialized     *)
(* when the runtime binding is not established, and never crash on their  *)
(* inputs): no call reaches GetMethodID with a class reference that        *)
(* JNI_OnLoad left NULL after storing g_jvm.                               *)
(***************************************************************************)
NoFault == ~crashed

(***************************************************************************)
(* A blocked neon_host_start returns once the callers have freed its host  *)
(* (spec 4.4, 5: start blocks on a dedicated thread): neon_host_free's     *)
(* close() reaches exactly the object start() runs on, and no later new   *)
(* handle at the same address takes that object over.                      *)
(***************************************************************************)
StartReturnsOnceFreed ==
  \A t \in Threads :
     (call[t].phase = "running" /\ call[t].h \notin issued) ~> call[t].phase = "idle"
=============================================================================
