-------------------------- MODULE ResourceOpKernel --------------------------
(***************************************************************************)
(* ResourceOpKernel of tensorflow/core/framework/resource_op_kernel.h,     *)
(* with ContainerInfo::Init of resource_mgr.cc, over the ResourceMgr.      *)
(*                                                                         *)
(* A kernel finds or creates its resource in its first Compute and keeps a *)
(* reference to it; its destructor drops the reference and deletes the     *)
(* name if the name is private to the kernel.  A private name is made from *)
(* a counter, anew by each Compute that has not got a resource yet.        *)
(*                                                                         *)
(* A kernel's mu_ makes it one client of the manager, whichever threads    *)
(* call Compute: a Compute that finds resource_ set changes nothing.  The  *)
(* other clients use the names that a kernel puts out, and shared names;   *)
(* a name that begins with '_', as the private ones do, is refused as a    *)
(* shared_name.                                                            *)
(***************************************************************************)
EXTENDS ResourceMgr

CONSTANTS
  Kernels,    \* clients of the manager that are kernels
  Container,  \* the container of all kernels
  Type        \* T

ASSUME KernelAssumption ==
  Kernels \subseteq Threads /\ Container \in Containers /\ Type \in Types

VARIABLES
  sharedName, \* the attribute shared_name of each kernel, or None
  at,         \* where each kernel is
  name,       \* cinfo_.name()
  counter,    \* counter of ContainerInfo::Init
  abandoned   \* private names whose resource failed VerifyResource

kernelVars == <<sharedName, at, name, counter, abandoned>>
allVars == <<vars, kernelVars>>

KernelInit ==
  /\ Init
  /\ sharedName \in [Kernels -> (Names \ Nat) \cup {None}]
  /\ at = [k \in Kernels |-> "new"]
  /\ name = [k \in Kernels |-> None]
  /\ counter = 0
  /\ abandoned = {}

Go(k, from, to) == at[k] = from /\ at' = [at EXCEPT ![k] = to]

\* Seeded faults: the counter is not advanced; every resource passes for
\* private; no resource does.
SameCounter == counter
AlwaysPrivate(k) == TRUE
NeverPrivate(k) == FALSE

NextCounter == counter + 1
Private(k) == sharedName[k] = None

\* cinfo_.Init: which container and which name.
ContainerInfoInit(k) ==
  /\ call[k] = Idle
  /\ Go(k, "new", "lookup")
  /\ sharedName[k] = None => counter \in Names
  /\ name' = [name EXCEPT ![k] = IF sharedName[k] = None THEN counter ELSE sharedName[k]]
  /\ counter' = IF sharedName[k] = None THEN NextCounter ELSE counter
  /\ UNCHANGED <<vars, abandoned>>

\* LookupOrCreate; when it fails Compute does, and the next one begins anew.
LookupResource(k) ==
  /\ at[k] = "lookup"
  /\ \/ Lookup(k, Container, Type, name[k])
     \/ LookupFails(k, Container, Type, name[k])
     \/ LookupOrCreate(k)
  /\ at' = [at EXCEPT ![k] = IF held'[k] # None THEN "verify"
                             ELSE IF call'[k] = Idle THEN "new" ELSE "lookup"]
  /\ UNCHANGED <<name, counter, abandoned>>

\* resource_ = resource
VerifyResource(k) == Go(k, "verify", "ready") /\ UNCHANGED <<vars, name, counter, abandoned>>

\* VerifyResource finds another configuration: Unref, and Compute fails.
VerifyFails(k) ==
  /\ Go(k, "verify", "new")
  /\ Release(k)
  /\ abandoned' = IF Private(k) THEN abandoned \cup {name[k]} ELSE abandoned
  /\ UNCHANGED <<name, counter>>

\* The destructor: Unref, if there is a resource ...
Destroy(k) ==
  /\ call[k] = Idle
  /\ \/ Go(k, "new", "gone") /\ UNCHANGED vars
     \/ Go(k, "ready", IF Private(k) THEN "delete" ELSE "gone") /\ Release(k)
  /\ UNCHANGED <<name, counter, abandoned>>

\* ... and Delete, if it is private.  It may have been deleted already.
DeletePrivate(k) ==
  /\ Go(k, "delete", "gone")
  /\ \/ Delete(k, Container, Type, name[k])
     \/ Ready(k) /\ Entry(Container, Key(Type, name[k])) = None /\ UNCHANGED vars
  /\ UNCHANGED <<name, counter, abandoned>>

KernelStep(k) ==
  \/ ContainerInfoInit(k) \/ LookupResource(k) \/ VerifyResource(k)
  \/ VerifyFails(k) \/ Destroy(k) \/ DeletePrivate(k)

\* Any other client of the manager.  It looks private names up and deletes
\* them, and creates under shared names only: that no client creates under the
\* private name of a kernel, which a handle with that name would let it do, is
\* assumed.
ClientStep(t) ==
  /\ \/ \E c \in Containers, T \in Types, n \in Names :
          \/ n \notin Nat /\ (Create(t, c, T, n) \/ LookupFails(t, c, T, n))
          \/ Lookup(t, c, T, n) \/ Delete(t, c, T, n)
     \/ \E c \in Containers : Cleanup(t, c)
     \/ LookupOrCreate(t) \/ Clear(t) \/ Release(t)
  /\ UNCHANGED kernelVars

Next ==
  \/ \E k \in Kernels : KernelStep(k) /\ UNCHANGED sharedName
  \/ \E t \in Threads \ Kernels : ClientStep(t)
  \/ \E t \in Threads : Continue(t) /\ UNCHANGED kernelVars

Spec == KernelInit /\ [][Next]_allVars

\* A client that owes an Unref, or holds mu_, goes on.  No call has to happen.
Fairness == \A t \in Threads : WF_allVars(Continue(t) /\ UNCHANGED kernelVars)

FairSpec == Spec /\ Fairness

-----------------------------------------------------------------------------
Stored(n) == \E k \in Keys : k[2] = n /\ Entry(Container, k) # None

\* Two kernels work on one resource only if both were given its shared name.
PrivateIsPrivate ==
  \A j, k \in Kernels :
    /\ j # k /\ held[j] # None /\ held[k] # None
    /\ held[j].object = held[k].object
    => sharedName[j] # None /\ sharedName[j] = sharedName[k]

\* A private name leaves the manager with its kernel.  The exception is a name
\* given up when VerifyResource failed: no kernel knows it any more.
PrivateDeleted ==
  \A n \in Names \cap Nat : Stored(n) =>
    \/ n \in abandoned
    \/ \E k \in Kernels : name[k] = n /\ at[k] # "gone"

\* "The resource is deleted from the resource manager only when it is private
\* to kernel": the destructor of a kernel does not take a resource away that
\* another kernel has.
OthersKeepResource ==
  [][\A k \in Kernels : at[k] = "delete" /\ at'[k] = "gone" =>
       \A j \in Kernels \ {k}, x \in Keys :
         held[j] # None /\ Entry(Container, x) = held[j].object =>
           Entry(Container, x)' = Entry(Container, x)]_allVars
=============================================================================
