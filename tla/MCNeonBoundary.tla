-------------------------- MODULE MCNeonBoundary --------------------------
(***************************************************************************)
(* Model-checking instance of NeonBoundary: two native threads, two        *)
(* handle addresses (so a struct is re-malloc'd where another was freed),  *)
(* three managed objects (one more than can be pinned at once), one        *)
(* callback pointer, two client callback fields overlaying one host field, *)
(* and one well-formed and one malformed relay address.                    *)
(***************************************************************************)
EXTENDS NeonBoundary, TLC

MCRelayInputs == {<<"a", ":", "7">>, <<"a", "7">>}

(* Callers using the whole API, or a host's whole lifecycle: create,     *)
(* start on one thread, set a callback and free on another.              *)
MCAllOps  == AllOps
MCLiveOps == {HostNew, HostStart, HostSetCb, HostFree}

(***************************************************************************)
(* Views.  errbuf, last, cb and cbSet are written but never read by any    *)
(* action, and pending is read only to compute errbuf, last and pending.   *)
(* javaObject is read (a NULL receiver throws, free closes the object), so *)
(* both views keep it; globalRefs only decides which fresh object          *)
(* NewObject returns, which is symmetric in Objs.  Each view drops the     *)
(* variables its properties do not mention and no guard depends on, so    *)
(* states that differ only in them have the same futures for those         *)
(* properties.                                                             *)
(***************************************************************************)
RefsView   == <<jvm, attached, heap, javaObject, cb, globalRefs, issued, call, cbSet,
                classes, closed, crashed>>
ErrorsView == <<jvm, attached, errbuf, pending, heap, javaObject, issued, call,
                [t \in Threads |-> <<last[t].failed, last[t].msg>>],
                classes, closed, crashed>>

Symmetry == Permutations(Threads) \cup Permutations(Addrs) \cup Permutations(Objs)

(* Java callers: null names and relay addresses to the constructors only, *)
(* or a null relay address to connect.                                   *)
MCNoOps       == {}
MCNullNew     == {ClientNew, HostNew}
MCNullConnect == {ClientConnect}

(* With one native and one Java thread, the threads are not               *)
(* interchangeable.                                                        *)
MixedSymmetry == Permutations(Addrs) \cup Permutations(Objs)
=============================================================================
