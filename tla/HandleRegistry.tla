-------------------------- MODULE HandleRegistry --------------------------
(***************************************************************************)
(* What the boundary promises about handles (spec 3 and 4.3), with no      *)
(* threads, JNI or failure paths: a handle is created bound to a managed   *)
(* object no other handle holds, which stays pinned while the handle       *)
(* lives; it starts with an all-NULL callback table of its kind; a setter *)
(* stores one pointer verbatim; destroying the handle unpins its object.  *)
(* reg[a] is the handle living at address a, or Vacant.                    *)
(***************************************************************************)
CONSTANTS Addrs, Objs, Fns, NULL, ClientCbFields, HostCbFields

VARIABLES reg, pinned

Kinds == {"client", "host"}

Fields(kind) == IF kind = "client" THEN ClientCbFields ELSE HostCbFields

Vacant == [kind |-> "free", obj |-> NULL, cbs |-> [i \in {} |-> NULL]]

Entry(kind, o) == [kind |-> kind, obj |-> o, cbs |-> [i \in Fields(kind) |-> NULL]]

Init == reg = [a \in Addrs |-> Vacant] /\ pinned = {}

Create(a, k, o) ==
  /\ reg[a] = Vacant /\ o \notin pinned
  /\ reg' = [reg EXCEPT ![a] = Entry(k, o)]
  /\ pinned' = pinned \cup {o}

SetCallback(a, i, f) ==
  /\ reg[a] # Vacant /\ i \in Fields(reg[a].kind)
  /\ reg' = [reg EXCEPT ![a].cbs[i] = f]
  /\ UNCHANGED pinned

Destroy(a) ==
  /\ reg[a] # Vacant
  /\ reg' = [reg EXCEPT ![a] = Vacant]
  /\ pinned' = pinned \ {reg[a].obj}

Next ==
  \E a \in Addrs :
     \/ \E k \in Kinds, o \in Objs : Create(a, k, o)
     \/ \E i \in ClientCbFields \cup HostCbFields, f \in Fns \cup {NULL} :
           SetCallback(a, i, f)
     \/ Destroy(a)

Spec == Init /\ [][Next]_<<reg, pinned>>

=============================================================================
