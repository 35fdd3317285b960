# TLA+ models of the ProjectNeon native boundary

This directory models the C/JNI bridge in `src/src/main/native/neon_jni.c`. Native threads call the C API
(`neon_client_*`, `neon_host_*`, `neon_get_last_error`). The bridge attaches the calling
thread to the JVM and forwards each call to a Java `NeonClient`/`NeonHost` object, which a
malloc'd handle struct keeps alive with a JNI global reference. Messages go through the
Java objects and are not modelled here.

## Parts of the system and how they interact

| Part | Code | State | Module |
|---|---|---|---|
| Runtime binding | `JNI_OnLoad`, `g_jvm`, class refs (17-20, 65-88) | `jvm`, `classes`, `crashed` | NeonBoundary |
| Environment attachment | `get_jni_env` (44-63) | `attached[t]` | NeonBoundary |
| Error channel | `set_error`, `THREAD_LOCAL g_error_buffer`, `neon_get_last_error` | `errbuf[t]` | NeonBoundary |
| Relay-address parser | `sscanf("%255[^:]:%d")` (168, 411) | — (pure) | RelayAddress |
| String marshalling | `NewStringUTF`, `GetStringUTFChars` | failure outcomes only | NeonBoundary (partly) |
| Handle registry | `neon_*_new`, `neon_*_free`, JNI `New`/`Free` | `heap`, `javaObject`, `globalRefs` | NeonBoundary |
| Call forwarder | `neon_client_*`, `neon_host_*` and their JNI functions | `call[t]`, `pending[t]`, `closed` | NeonBoundary |
| JNI entry points called from Java | `Java_..._neon*` (105-601) on Java threads | `JavaThreads`, the same state | NeonBoundary |
| Query results | the value `neon_client_is_connected` returns, on which the client example branches | — (pure) | NeonExamples (partly) |
| Callback table | `neon_*_set_*_callback` | `cb[a][i]` | NeonBoundary |
| Header | `project_neon.h` declarations | — | not modelled (no behaviour) |
| Examples | `examples/*.c` `main()` | `program`, `pc`, `hdl`, `i`, `waiting` | NeonExamples |

How a call runs through the parts:
1. The C wrapper checks its handle for NULL.
2. It calls `get_jni_env`, which may attach the thread.
3. It marshals strings.
4. It calls the JNI function. That function looks up the method and calls it on
   `handle->javaObject`.
5. Some JNI functions then run `ExceptionCheck`: `connect`, `processPackets`, `sendPing`,
   `start` and the constructors. The getters and `setAutoPing` do not.

Every failure calls `set_error` on the calling thread's buffer. An exception that is not
checked stays pending on the thread's `JNIEnv`, and the next checked call on that thread
sees it.

## Modules

- **RelayAddress.tla** models the `sscanf("%255[^:]:%d")` parse, directive by directive, over
  sequences of one-character strings:
  - `ScanHost` is `%255[^:]` capped at `HostCap`.
  - `ScanInt` is `%d`: optional white space, an optional sign, at least one digit, and
    trailing text ignored.
  - `Parse` returns the conversion count, `Accepts` means that count is 2.

  The module also defines the documented format: `Format`, `WellFormed` and `Hosts`.
- **MCRelayAddress.tla** enumerates input strings. Each step appends a character or starts
  a new string, up to `MaxLen`.
- **NeonBoundary.tla** models the whole C API over threads `Threads` and handle addresses
  `Addrs`.
  - A call takes two steps of its thread:
    - `Begin` covers the NULL check, `get_jni_env`, marshalling failures and the early exits.
    - Then one of `Invoke` (the managed call and exception check), `StoreCallback` (the
      field store) or `Release` (`close`, `DeleteGlobalRef`, `free`).

    Other threads interleave between the two steps, which is where the races of the code
    sit.
  - `neon_*_new` is a single step, `NewHandle`, because the handle is not shared before it
    is returned. It covers every failure path: NewObject, malloc, and NewGlobalRef when
    enabled. It uses `InitHandle`.
  - The callers are the environment. They pass NULL or a handle they own (`issued`).
    - With `GuardedCallers` set, callers never free a handle that another call uses. The
      specification leaves this obligation to the bridge, so it is exactly the condition
      the `use_after_free` run drops.
    - A free whose `get_jni_env` fails still ends the caller's ownership, so the struct leaks.
  - A call with an exception pending is undefined in JNI. Its outcome is free: the call may
    throw or not.
  - `neon_host_start` takes three steps: `Begin`, then `StartEnter` loads
    `handle->javaObject` and enters the managed `start()` (phase `"running"`), then
    `StartStops` (the object is in `closed`, because some free called `close()` on it) or
    `StartThrows`. A running start does not exclude a free: freeing the host is the only
    way to make it return.
  - `JNI_OnLoad` sets `jvm` and, when `OnLoadMayFail`, may stop before either `FindClass`,
    leaving `classes` incomplete. A later method lookup on a kind whose class is missing
    is `Crash`: the process faults, `crashed` is set and nothing runs after.
  - A call on a NULL `javaObject` throws `NullPointerException` (`CallThrows`).
  - `CallerOps` restricts which operations the callers use, so a run can focus on a host's
    lifecycle.
  - Ghost variables exist only for the properties: `cbSet` (the fields a setter stored
    into this handle), `last` (each thread's last outcome), `closed` (objects whose
    `close()` ran) and `crashed`.
  - `RegView` maps the state onto the abstract registry, and `RegistryRefined` is
    `HandleRegistry!Spec` under that mapping.
  - The threads in `JavaThreads` are Java code calling the JNI functions directly:
    - They run with their own `JNIEnv`, so `CallEnv` skips `get_jni_env`. They start
      attached, and they call only once `JNI_OnLoad` has bound the native methods.
    - A 0 handle gets the JNI function's own check (`JniNullMsg`): every function sets
      "Invalid … handle" except `neonClientIsConnected` and the two `Free` functions.
    - `neonClientNew`, `neonHostNew` and `neonClientConnect` take a jstring that may be
      null, for the operations in `JavaNullArgs`. The constructors reject null.
      `neonClientConnect` hands it to `GetStringUTFChars`. That is undefined in JNI, and
      the VM faults (`Fault`, then `Crash`).
    - An exception still pending when a JNI function returns is thrown in the Java caller
      (`Pend`), so only native threads carry one into their next call.
    - `neonGetLastError` reads the same per-thread buffer, and may return null when
      `NewStringUTF` fails.
- **HandleRegistry.tla** is the abstract specification of what the handle API promises
  (spec 3 and 4.3), without threads, JNI or failures. `reg[a]` is the handle at address
  `a` or `Vacant`, and `pinned` the objects held. `Create` binds a fresh, unpinned object
  and gives an all-NULL callback table; `SetCallback` stores one pointer; `Destroy`
  unpins the object.
- **NeonExamples.tla** composes `main()` of `client_example.c` or of `host_example.c`
  with NeonBoundary. `main()` runs on the thread `Main`:
  - `pc` is the statement it is at, `i` the loop index, `hdl` its handle variable.
  - `MainCalls` starts the API call of statement `pc` (the wrapper's `Begin` or
    `NewHandle`) and sets `waiting`.
  - The call's second step is `Invoke`, `StoreCallback` or `Release` of `Main`.
  - Once `call[Main]` is `Idle`, `MainContinues` branches as the C code does on the
    returned value, which it reads from `last[Main]`. For example, it goes to `free` when
    connect fails, pings on every fifth iteration, and breaks when disconnected.
  - A JVM may or may not have loaded the library first (`JNI_OnLoad`). Without one, every
    call takes the "JVM not initialized" exit.
  - `IsConnectedResult` is the value `neon_client_is_connected` returns (0 on every
    failure path), on which the client loop branches.
  - `printf` and `sleep_ms` change no state the API sees and are left out, and so are the
    session id and name `main` passes and the ids it prints, which no branch reads.
- **MCNeonExamples.tla** gives the relay inputs and the callback field sets.
- **MCNeonBoundary.tla** has the model values, the relay inputs (one accepted, one
  rejected), symmetry over threads, addresses and objects, and two views:
  - `RefsView` drops the write-only error state.
  - `ErrorsView` drops `cb`, `globalRefs` and `cbSet`, and projects `last`.

  No guard reads the dropped variables, except `globalRefs`, which only decides which fresh
  object `NewObject` returns, a choice symmetric in `Objs`. States that differ only in them
  have the same futures for the properties of the run. The `host_lifecycle` run uses no
  view and no symmetry, because it checks liveness.

## Runs

| Run | Checks | Result |
|---|---|---|
| relay_roundtrip | `RoundTrip`: every `Format(h,p)` parses back to `h`, `p`, with hosts up to the field width | pass |
| relay_format | `AcceptsOnlyWellFormed` | violation: `a:0a` is accepted |
| handles_refs | `TypeOK`, `HandlesPinObjects`, `NoStaleCallback` | pass |
| error_channel | `ErrorChannelPerThread`, with one native and one Java thread | pass |
| java_null_relay | `NoFault` with a Java caller that may pass a null relay address to connect | violation: `neonClientConnect` hands the null `relayAddr` to `GetStringUTFChars` (line 160) and the VM faults |
| exception_misattributed | `ExceptionNotMisattributed` | violation: a constructor fails and leaves its exception pending; the next `connect`/`processPackets` reports "Exception during …" |
| use_after_free | `NoUseAfterFree` with unguarded callers | violation: a call begins, a free on another thread releases the struct, and the first call's next step reads freed memory |
| globalref_unchecked | `HandlesPinObjects` with NewGlobalRef failing | violation: a handle with a NULL `javaObject` |
| onload_failure | `NoFault` with OnLoad failing | violation: OnLoad fails after storing `g_jvm`, then a call reaches `GetMethodID` with a NULL class |
| orphan_on_attach_failure | `NoOrphanHandle` | violation: a free on a thread that cannot attach returns without freeing, and the handle has no owner left |
| host_lifecycle | `StartReturnsOnceFreed`, `RegistryRefined` | pass |
| examples | `ExampleReleasesHandle` | pass |

What the passing runs show:
- A handle and its global reference are created and released together on every failure
  path of new and free, across two interleaved threads and reused addresses.
- A struct reused at an address never carries old callbacks.
- Each thread's error is its own, whether the thread calls the C API or, as Java code,
  the JNI functions. This holds even when both threads use the same handles.
- Every step of a host's lifecycle on two threads (new, start, set callback, free, with
  `start()` throwing) is a step of the abstract registry. Allocation, attach and
  NewGlobalRef failures are off in this run; the failure paths of new and free are
  covered by `handles_refs`, and the attach failure of free by `orphan_on_attach_failure`.
- A start blocked in `start()` returns once another thread frees its host, even though
  the struct is gone by then, because `close()` runs before `free`.
- Each example leaves no handle struct and no global reference behind on any path: create
  failed, connect failed, the loop finished, or the client disconnected.

Each property of a passing run has a mutant in `PROJECT.json`: a plausible bug in the
mapped code that the run must detect. For example, a free that skips `close()` leaves a
start blocked forever, and a free that skips `DeleteGlobalRef` is not a `Destroy`.

## Bounds

| Model | Bounds | Why they are enough |
|---|---|---|
| RelayAddress | `HostCap = 2` stands for 255; strings up to 5 characters over `a 0 7 : - ␠` | Covers the cap, a host one longer than the cap, a sign, a blank, trailing garbage and a missing port |
| handles_refs | 2 threads, 2 addresses, 3 objects, 2 client and 1 host callback fields | A client struct and a host struct overlay the same address after a free, and two calls race |
| error_channel | 1 native and 1 Java thread, 1 address, 2 objects; Java passes null to the constructors | Enough to interleave the failures of a C caller and a Java caller, including a 0 handle and a null string |
| host_lifecycle | 2 threads, 1 address, 2 objects; host new, start, set callback and free | One thread blocks in start while the other frees and re-creates a host at the same address with a fresh object |
| examples | 1 thread, 1 address; `ClientIterations = 6`, `HostIterations = 2`; 5 client and 4 host callback fields | The client loop reaches its first ping (`i = 5`) and ends; the host loop both processes packets and not; every exit path of `main` is reached |

The violation runs use one or two threads and one address, which is the smallest setting
in which each violation occurs.

## Fairness

`FairSpec` adds weak fairness to each thread's second steps: `Invoke`, `StoreCallback`,
`Release`, `StartEnter` and `StartStops`. Once a thread is inside the C function, the
code runs to its return without waiting for anything except the managed `start()`. That
call returns once its object is closed, which is what `StartStops` is enabled by. No
fairness is assumed for `Begin` or `NewHandle`, because callers may stop calling, or for
`StartThrows`, because `start()` need not throw.

The `examples` run checks an invariant only and assumes no fairness. It sets
`CHECK_DEADLOCK FALSE`, because `main` really returns and the process ends.

## Not modelled, and the plan

Not modelled:
- `JNI_OnUnload`: it cannot run while the class global refs pin the loader.
- The header `project_neon.h`. It declares the API and documents it, but has no
  behaviour. Its doc comments give `0` as the failure value of `neon_client_get_id` and
  `neon_client_get_session_id`, which is what the wrappers return for a NULL handle. The
  interface table of the specification gives `-1`. No run states this, because the
  header and the code agree.
- The JNI callback setters given a 0 handle. They set "Invalid client handle" or
  "Invalid host handle" (`neon_jni.c` 322-325 and 545-548). The interface table of the
  specification calls a setter on a bad handle a silent no-op. The model has this
  behaviour (`JniNullMsg`), but no run states the table's claim: the runs are at their
  limit, and the null relay address fault is the more serious disagreement.
- The values of `get_id`, `get_session_id`, `get_client_count` and `process_packets`,
  and the session id the examples pass. No branch and no property reads them: the
  examples only print them, or compare them with 0 (modelled as a choice). A failed
  getter's 0, or the `-1` of a missing method cast to 255 or 2^32-1, can be a real id;
  that is fixed by the header's return types.
- The "Failed to get JNI environment" exit of `get_jni_env` (58-60). `GetEnv` returns an
  error other than `JNI_EDETACHED` only for an unsupported version, and `JNI_OnLoad`
  returned `JNI_VERSION_1_8` to the JVM that loaded the library.
- The `NULL` results of `GetObjectClass`, `GetMethodID` and `GetFieldID` for classes the
  bridge loaded itself (e.g. `closeMethod == NULL` in free): the methods exist in the
  shipped classes, so those exits are not taken.
- A JNI call made with an exception pending (undefined behaviour): the model takes the
  outcome in which it runs normally, so an exception left pending by an unchecked getter
  shows up only as the "Exception during …" a later checked call reports.
- The failure of `NewGlobalRef`: HotSpot returns `NULL` without an exception pending,
  and the model does the same.
- Thread exit: no threads are detached, so the attachment leak is visible in the state but
  not bounded.
- Every thread blocked in `start()`, a misuse by the callers: the specification leaves
  running start on a dedicated thread to them, so the run lets `start()` throw.

Possible extensions:
1. A bound on thread attachment with threads that exit. The specification keeps the
   no-detach behaviour on purpose (4.1), so this would only measure it.
2. A caller obligation for `neon_host_start`, stated as a property of the callers: some
   thread that can free the host is not blocked in `start()`.
