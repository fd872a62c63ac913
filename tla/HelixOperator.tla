--------------------------- MODULE HelixOperator ---------------------------
(* HelixServiceReconciler of the operator, for one HelixService: Reconcile   *)
(* reads the resource and its Deployment at different times, and events of   *)
(* either ask for another pass.                                              *)
EXTENDS Naturals, Sequences

CONSTANTS
    Specs,         \* what users ask for: [image, replicas, vault, ebpf], replicas <<>> for nil
    MaxChanges     \* bound on what users change and on the calls that fail

VARIABLES
    cr,            \* the HelixService, [uid, spec], or None
    given,         \* the specs that this HelixService has had
    dep,           \* the Deployment, [owner, image, replicas, annotated, volumes], or None
    asked,         \* a request is in the work queue
    pc,            \* where Reconcile is
    want,          \* the HelixService that the pass read
    changes

vars == <<cr, given, dep, asked, pc, want, changes>>
None == [none |-> TRUE]

\* deploymentForHelix and the owner reference: no count is one replica, a count
\* of zero stays zero.
DeploymentForHelix(m) ==
    [owner |-> m.uid, image |-> m.spec.image,
     replicas |-> IF m.spec.replicas = <<>> THEN 1 ELSE Head(m.spec.replicas),
     annotated |-> m.spec.vault, volumes |-> IF m.spec.ebpf THEN {"sys-fs-bpf"} ELSE {}]
HasEBPFMount(d) == "sys-fs-bpf" \in d.volumes

Init ==
    /\ cr = None /\ given = {} /\ dep = None
    /\ asked = FALSE /\ pc = "idle" /\ want = None /\ changes = 0

\* A user creates, changes or deletes the resource, or deletes the Deployment.
UserSpec(s) ==
    /\ changes < MaxChanges /\ changes' = changes + 1
    /\ cr' = [uid |-> IF cr = None THEN changes' ELSE cr.uid, spec |-> s]
    /\ given' = given \cup {s}
    /\ asked' = TRUE /\ UNCHANGED <<dep, pc, want>>
UserRemoves ==
    /\ changes < MaxChanges /\ changes' = changes + 1
    /\ cr # None /\ cr' = None /\ given' = {}
    /\ asked' = TRUE /\ UNCHANGED <<dep, pc, want>>
UserDeletes ==
    /\ changes < MaxChanges /\ changes' = changes + 1
    /\ dep # None /\ dep' = None
    /\ asked' = TRUE /\ UNCHANGED <<cr, given, pc, want>>

\* The cluster collects a Deployment whose owner is gone, or is a HelixService of
\* the same name that was created since.
Collect ==
    /\ dep # None /\ ~(cr # None /\ cr.uid = dep.owner)
    /\ dep' = None /\ asked' = TRUE
    /\ UNCHANGED <<cr, given, pc, want, changes>>

\* A pass starts: Get of the resource.  Not found ends it; another error, of this
\* call or a later one, ends it with a retry.
Get ==
    /\ pc = "idle" /\ asked
    /\ asked' = FALSE /\ want' = cr /\ pc' = IF cr = None THEN "idle" ELSE "found"
    /\ UNCHANGED <<cr, given, dep, changes>>
Fails ==
    /\ pc # "idle" /\ changes < MaxChanges /\ changes' = changes + 1
    /\ pc' = "idle" /\ asked' = TRUE
    /\ UNCHANGED <<cr, given, dep, want>>

\* Get of the Deployment: missing, it is to be created; without the eBPF mount
\* that the resource asks for, it is to be updated.
GetDeployment ==
    /\ pc = "found"
    /\ pc' = CASE dep = None -> "create"
               [] dep # None /\ want.spec.ebpf /\ ~HasEBPFMount(dep) -> "update"
               [] OTHER -> "idle"
    /\ UNCHANGED <<cr, given, dep, asked, want, changes>>

\* Create fails if the Deployment is there by now, and asks for another pass
\* either way: Requeue, or the error.
Create ==
    /\ pc = "create" /\ pc' = "idle" /\ asked' = TRUE
    /\ dep' = IF dep = None THEN DeploymentForHelix(want) ELSE dep
    /\ UNCHANGED <<cr, given, want, changes>>

\* Update of a Deployment that is gone fails and is retried; a changed one is an event.
Update ==
    /\ pc = "update" /\ pc' = "idle" /\ asked' = TRUE
    /\ dep' = IF dep = None THEN None ELSE DeploymentForHelix(want)
    /\ UNCHANGED <<cr, given, want, changes>>

Reconcile == Get \/ GetDeployment \/ Create \/ Update
Next ==
    \/ \E s \in Specs : UserSpec(s)
    \/ UserRemoves \/ UserDeletes \/ Collect \/ Reconcile \/ Fails
Fairness == WF_vars(Reconcile) /\ WF_vars(Collect)
Spec == Init /\ [][Next]_vars /\ Fairness

\* Whatever users change, delete and create again while a pass is under way, the
\* passes end with a Deployment for the HelixService there is: owned by it and
\* not by one it replaced, built as a whole from one spec it has had, and with the
\* eBPF mount if its present spec asks for it.  That need not be the present
\* spec: Reconcile compares the mount only, so that a later image, count or
\* secret path is not rolled out.
Settled ==
    cr # None =>
        /\ dep # None /\ (cr.spec.ebpf => HasEBPFMount(dep))
        /\ \E s \in given : dep = DeploymentForHelix([uid |-> cr.uid, spec |-> s])
Converges == <>[]Settled
=============================================================================
