------------------------ MODULE ReservationInstructions ------------------------
(***************************************************************************)
(* The ReservationInstructions of a requester and the controller that      *)
(* peers with the providers they name.                                     *)
(*                                                                         *)
(* The controller waits for the provider's kubeconfig at the broker, sets  *)
(* the peering up with liqoctl and marks the instruction Delivered.  It    *)
(* deletes an instruction that has expired; its finalizer keeps a deleted  *)
(* instruction until the peering is torn down.  It has one worker, reads   *)
(* through the informer cache and writes to the API server, which checks   *)
(* versions.                                                               *)
(*                                                                         *)
(* Who creates instructions (ResourceRequests) and who uploads kubeconfigs *)
(* (ProviderAgent) is left open here.                                      *)
(***************************************************************************)
EXTENDS Integers

CONSTANTS
  Ids,          \* the reservations, which name the instructions
  Clusters,     \* the providers
  None,         \* no cluster, no instruction
  Grants,       \* for each the providers that the broker may grant, with an
                \* expiry or without
  KubeconfigsDir, \* whether --kubeconfigs-dir is given and has this cluster's
                \* kubeconfig
  MaxFaults     \* bound: restarts and deletions by others, together

ASSUME InstructionsAssumption ==
  /\ None \notin Ids \cup Clusters
  /\ Grants \in [Ids -> SUBSET [target : Clusters, timed : BOOLEAN]]
  /\ KubeconfigsDir \in BOOLEAN
  /\ MaxFaults \in Nat

VARIABLES
  instr,       \* the API server's ReservationInstructions
  icache,      \* the informer cache of them
  iqueue,      \* the work queue
  vpc, v,      \* the worker: the call it is about to make, its copy
  uploaded,    \* the reservations whose kubeconfig the broker has
  peered,      \* the clusters that liqoctl has peered with
  interrupted, \* those whose peering was set up and not recorded
  expired,     \* the instructions whose expiry lies in the past
  faults       \* counter for the bound

peering == <<peered, interrupted>>
vars == <<instr, icache, iqueue, vpc, v, uploaded, peering, expired, faults>>

-----------------------------------------------------------------------------
(* Objects.                                                                *)

Instruction ==
  [rv : Nat, exists : BOOLEAN, deleting : BOOLEAN, finalizer : BOOLEAN,
   target : Clusters \cup {None}, timed : BOOLEAN, kubeconfig : BOOLEAN, delivered : BOOLEAN]

NoInstruction ==
  [rv |-> 0, exists |-> FALSE, deleting |-> FALSE, finalizer |-> FALSE,
   target |-> None, timed |-> FALSE, kubeconfig |-> FALSE, delivered |-> FALSE]

NewInstruction(g) ==
  [NoInstruction EXCEPT !.rv = 1, !.exists = TRUE, !.target = g.target, !.timed = g.timed]

(* An update is a new version.                                             *)
PutInstr(i, o) == instr' = [instr EXCEPT ![i] = [o EXCEPT !.rv = instr[i].rv + 1]]

(* A finalizer makes a deletion a mark; without one the object goes.       *)
DeleteInstr(i) ==
  IF ~ instr[i].exists \/ instr[i].deleting THEN UNCHANGED instr
  ELSE IF instr[i].finalizer THEN PutInstr(i, [instr[i] EXCEPT !.deleting = TRUE])
  ELSE PutInstr(i, [instr[i] EXCEPT !.exists = FALSE])

Init ==
  /\ instr = [i \in Ids |-> NoInstruction]
  /\ icache = instr
  /\ iqueue = {}
  /\ vpc = "idle" /\ v = [id |-> None, obj |-> NoInstruction]
  /\ uploaded = {}
  /\ peered = {} /\ interrupted = {}
  /\ expired = {}
  /\ faults = 0

Fault == faults < MaxFaults /\ faults' = faults + 1

-----------------------------------------------------------------------------
(* The ReservationInstruction controller.                                  *)

Finish == vpc' = "idle" /\ v' = [id |-> None, obj |-> NoInstruction]

Done == Finish /\ UNCHANGED iqueue

RequeueForgotten == Done   \* mutant: nobody takes the key up again

RequeueCleared == Finish /\ iqueue' = iqueue \cup {v'.id}   \* mutant: the request is cleared first

(* An error and RequeueAfter put the key back, to be taken up at some      *)
(* later time.                                                             *)
Requeue == Finish /\ iqueue' = iqueue \cup {v.id}

FinalizerLast(i, o) ==   \* mutant: the finalizer is added after the peering
  CASE o.deleting /\ o.finalizer -> IF o.delivered THEN "unpeer" ELSE "release"
    [] ~ o.deleting /\ ~ o.finalizer /\ o.delivered -> "finalize"
    [] ~ o.deleting /\ ~ o.delivered -> IF o.kubeconfig THEN "peer" ELSE "fetch"
    [] OTHER -> "idle"

DeliveredFirst(i, o) ==   \* mutant: Delivered is looked at before the expiry
  CASE o.deleting /\ o.finalizer -> IF o.delivered THEN "unpeer" ELSE "release"
    [] ~ o.deleting /\ ~ o.finalizer -> "finalize"
    [] ~ o.deleting /\ o.finalizer /\ ~ o.delivered ->
         IF i \in expired THEN "delete" ELSE IF o.kubeconfig THEN "peer" ELSE "fetch"
    [] OTHER -> "idle"

(* Get, and the ways to go on.                                             *)
NextCall(i, o) ==
  CASE o.deleting /\ o.finalizer -> IF o.delivered THEN "unpeer" ELSE "release"
    [] ~ o.deleting /\ ~ o.finalizer -> "finalize"
    [] ~ o.deleting /\ o.finalizer /\ i \in expired -> "delete"
    [] ~ o.deleting /\ o.finalizer /\ i \notin expired /\ ~ o.delivered ->
         IF o.kubeconfig THEN "peer" ELSE "fetch"
    [] OTHER -> "idle"

StartInstruction(i) ==
  LET o == icache[i]
      call == NextCall(i, o) IN
  /\ vpc = "idle"
  /\ i \in iqueue
  /\ IF ~ o.exists
     THEN iqueue' = iqueue \ {i} /\ UNCHANGED <<vpc, v>>
     ELSE IF call = "idle"
     THEN UNCHANGED <<iqueue, vpc, v>>   \* delivered: RequeueAfter
     ELSE iqueue' = iqueue \ {i} /\ vpc' = call /\ v' = [id |-> i, obj |-> o]
  /\ UNCHANGED <<instr, icache, uploaded, peering, expired, faults>>

Current == instr[v.id].exists /\ v.obj.rv = instr[v.id].rv

UnpeerErrorIgnored ==   \* mutant: a teardown that fails is only logged
  /\ vpc = "unpeer"
  /\ peered' \in {peered, peered \ {v.obj.target}}
  /\ vpc' = "release"
  /\ UNCHANGED <<uploaded, instr, icache, iqueue, v, interrupted, expired, faults>>

(* liqoctl unpeer, repeated until it succeeds; it may fail after the work. *)
ExecuteLiqoUnpeer ==
  /\ vpc = "unpeer"
  /\ \/ /\ KubeconfigsDir
        /\ peered' = peered \ {v.obj.target}
        /\ vpc' = "release" /\ UNCHANGED <<v, iqueue>>
     \/ Requeue /\ UNCHANGED peered
     \/ KubeconfigsDir /\ Requeue /\ peered' = peered \ {v.obj.target}
  /\ UNCHANGED <<uploaded, instr, icache, interrupted, expired, faults>>

RemoveFinalizer ==
  /\ vpc = "release"
  /\ IF Current THEN PutInstr(v.id, [v.obj EXCEPT !.exists = FALSE, !.finalizer = FALSE]) /\ Done
                ELSE Requeue /\ UNCHANGED instr
  /\ UNCHANGED <<uploaded, icache, peering, expired, faults>>

AddFinalizer ==
  /\ vpc = "finalize"
  /\ IF Current THEN PutInstr(v.id, [v.obj EXCEPT !.finalizer = TRUE]) /\ Done
                ELSE Requeue /\ UNCHANGED instr
  /\ UNCHANGED <<uploaded, icache, peering, expired, faults>>

DeleteExpired ==
  /\ vpc = "delete"
  /\ DeleteInstr(v.id)
  /\ IF instr[v.id].exists THEN Done ELSE Requeue
  /\ UNCHANGED <<uploaded, icache, peering, expired, faults>>

(* GetReservation, whatever the phase, and Update of the copy.             *)
FetchPeeringKubeconfig ==
  /\ vpc = "fetch"
  /\ \/ /\ v.id \in uploaded
        /\ Current
        /\ PutInstr(v.id, [v.obj EXCEPT !.kubeconfig = TRUE])
        /\ Done
     \/ Requeue /\ UNCHANGED instr
  /\ UNCHANGED <<uploaded, icache, peering, expired, faults>>

PeerErrorIgnored ==   \* mutant: a peering that fails is only logged
  /\ vpc = "peer"
  /\ peered' \in {peered, peered \cup {v.obj.target}}
  /\ vpc' = "deliver"
  /\ UNCHANGED <<uploaded, instr, icache, iqueue, v, interrupted, expired, faults>>

(* liqoctl peer, which may be killed after the work.  Without the local    *)
(* kubeconfig it is not run, which is a failure like any other.            *)
ExecuteLiqoPeering ==
  /\ vpc = "peer"
  /\ \/ /\ KubeconfigsDir
        /\ peered' = peered \cup {v.obj.target}
        /\ vpc' = "deliver"
        /\ UNCHANGED <<v, iqueue, interrupted>>
     \/ Requeue /\ UNCHANGED peering
     \/ /\ KubeconfigsDir
        /\ Requeue
        /\ peered' = peered \cup {v.obj.target}
        /\ interrupted' = interrupted \cup {v.obj.target}
  /\ UNCHANGED <<uploaded, instr, icache, expired, faults>>

MarkDelivered ==
  /\ vpc = "deliver"
  /\ Requeue
  /\ IF Current THEN /\ PutInstr(v.id, [v.obj EXCEPT !.delivered = TRUE])
                     /\ UNCHANGED interrupted
                ELSE /\ interrupted' = interrupted \cup {v.obj.target}
                     /\ UNCHANGED instr
  /\ UNCHANGED <<uploaded, icache, peered, expired, faults>>

Reconcile ==
  \/ ExecuteLiqoUnpeer \/ RemoveFinalizer \/ AddFinalizer \/ DeleteExpired
  \/ FetchPeeringKubeconfig \/ ExecuteLiqoPeering \/ MarkDelivered

-----------------------------------------------------------------------------
(* The broker, the provider, the user, the watch, time and restarts.       *)

ProviderUploads(i) ==
  /\ i \notin uploaded
  /\ uploaded' = uploaded \cup {i}
  /\ UNCHANGED <<instr, icache, iqueue, vpc, v, peering, expired, faults>>

(* The other controller creates the instruction of a new reservation.      *)
CreateReservationInstruction(i) ==
  /\ instr[i].rv = 0
  /\ \E g \in Grants[i] : instr' = [instr EXCEPT ![i] = NewInstruction(g)]
  /\ UNCHANGED <<icache, iqueue, vpc, v, uploaded, peering, expired, faults>>

(* It switches to another provider, or the user deletes the instruction.   *)
DeleteOldInstruction(i) ==
  /\ Fault
  /\ instr[i].exists /\ ~ instr[i].deleting
  /\ DeleteInstr(i)
  /\ UNCHANGED <<icache, iqueue, vpc, v, uploaded, peering, expired>>

SyncInstruction(i) ==
  /\ icache[i] # instr[i]
  /\ icache' = [icache EXCEPT ![i] = instr[i]]
  /\ iqueue' = iqueue \cup {i}
  /\ UNCHANGED <<instr, vpc, v, uploaded, peering, expired, faults>>

Expire(i) ==
  /\ instr[i].timed /\ i \notin expired
  /\ expired' = expired \cup {i}
  /\ UNCHANGED <<instr, icache, iqueue, vpc, v, uploaded, peering, faults>>

(* The agent dies between any two calls; the new one lists its objects.    *)
Crash ==
  /\ Fault
  /\ icache' = instr
  /\ iqueue' = {i \in Ids : instr[i].exists}
  /\ interrupted' = IF vpc = "deliver" THEN interrupted \cup {v.obj.target} ELSE interrupted
  /\ Finish
  /\ UNCHANGED <<instr, uploaded, peered, expired>>

Next ==
  \/ \E i \in Ids : StartInstruction(i) \/ SyncInstruction(i)
  \/ Reconcile
  \/ \E i \in Ids : CreateReservationInstruction(i) \/ DeleteOldInstruction(i) \/ ProviderUploads(i)
  \/ \E i \in Ids : Expire(i)
  \/ Crash

Spec == Init /\ [][Next]_vars

(* The worker and the watch keep running, and neither liqoctl nor the      *)
(* broker's answers fail for ever.                                         *)
UnpeerSucceeds == ExecuteLiqoUnpeer /\ vpc' = "release"
PeerSucceeds   == ExecuteLiqoPeering /\ vpc' = "deliver"
FetchSucceeds  == FetchPeeringKubeconfig /\ instr' # instr

Fairness ==
  /\ WF_vars(Reconcile)
  /\ SF_vars(UnpeerSucceeds) /\ SF_vars(PeerSucceeds) /\ SF_vars(FetchSucceeds)
  /\ \A i \in Ids : SF_vars(StartInstruction(i)) /\ WF_vars(SyncInstruction(i))

FairSpec == Spec /\ Fairness

-----------------------------------------------------------------------------
(* Properties.                                                             *)

TypeOK ==
  /\ instr \in [Ids -> Instruction] /\ icache \in [Ids -> Instruction]
  /\ iqueue \subseteq Ids
  /\ vpc \in {"idle", "unpeer", "release", "finalize", "delete", "fetch", "peer", "deliver"}
  /\ v \in [id : Ids \cup {None}, obj : Instruction]
  /\ vpc # "idle" => v.id \in Ids
  /\ uploaded \subseteq Ids
  /\ peered \subseteq Clusters /\ interrupted \subseteq Clusters
  /\ expired \subseteq Ids /\ faults \in 0 .. MaxFaults

(* A peering that no Delivered instruction stands for goes back to a       *)
(* status update that did not follow it: liqoctl was done, and it was      *)
(* killed, the agent died, or the instruction changed before it was marked *)
(* Delivered.                                                              *)
PeeringIsRecorded ==
  \A c \in peered :
    \/ \E i \in Ids : instr[i].exists /\ instr[i].delivered /\ instr[i].target = c
    \/ vpc = "deliver" /\ v.obj.target = c
    \/ c \in interrupted

(* Another Delivered instruction of the same cluster has been deleted.     *)
SharedWasDeleted(i) ==
  \E j \in Ids \ {i} :
    /\ instr[j].target = instr[i].target /\ instr[j].delivered
    /\ instr[j].deleting \/ ~ instr[j].exists

(* What is Delivered is peered, with one exception: several reservations   *)
(* on a cluster share the peering, and the first of them that is deleted   *)
(* after it was Delivered takes it from the others.                        *)
DeliveredIsPeered ==
  \A i \in Ids :
    instr[i].exists /\ instr[i].delivered /\ ~ instr[i].deleting
      => instr[i].target \in peered \/ SharedWasDeleted(i)

(* A Delivered instruction does not disappear before the peering has been  *)
(* torn down, whoever deletes it and whatever the worker's copy shows.     *)
TeardownBeforeRemoval ==
  [][\A i \in Ids :
       instr[i].exists /\ instr[i].delivered /\ ~ instr'[i].exists
         => instr[i].target \notin peered']_vars

(* An instruction that has expired goes away in the end, once the teardown *)
(* has succeeded if it was Delivered.                                      *)
ExpiredIsDeleted ==
  \A i \in Ids : instr[i].exists /\ i \in expired ~> ~ instr[i].exists

(* Once the provider has uploaded its kubeconfig, the requester peers with *)
(* it or gives the instruction up.  (The Reservation stays readable at the *)
(* broker; were it deleted there, the requester would ask for ever.)       *)
CredentialIsUsed ==
  \A i \in Ids :
    instr[i].exists /\ i \in uploaded
      ~> instr[i].delivered \/ instr[i].deleting \/ ~ instr[i].exists

-----------------------------------------------------------------------------
(* What the documentation says and some behaviours break.                  *)

(* The controller, of an instruction that has expired: "Delete the         *)
(* instruction to trigger the finalizer and teardown".  A peering that was *)
(* set up but not recorded is not torn down.                               *)
ExpiredLeavesNoPeering ==
  \A i \in Ids :
    i \in expired /\ instr[i].rv > 0 /\ ~ instr[i].exists =>
      \/ instr[i].target \notin peered
      \/ \E j \in Ids : instr[j].exists /\ instr[j].target = instr[i].target
=============================================================================
