--------------------- MODULE ReservationInstructions_proof ---------------------
(***************************************************************************)
(* What holds of the instructions and their peerings for every set of      *)
(* reservations and providers, every grant and every number of restarts    *)
(* and deletions.                                                          *)
(***************************************************************************)
EXTENDS ReservationInstructions, TLAPS

-----------------------------------------------------------------------------
(* The inductive invariant.                                                *)

(* An object o read at some time: the API server has this version or a     *)
(* later one, n, which names the same cluster and is still Delivered, or   *)
(* marked for deletion, if o is.                                           *)
OlderCopy(o, n) ==
  /\ o.rv <= n.rv
  /\ o.rv = n.rv => o = n
  /\ o.exists => o.rv > 0
  /\ o.rv > 0 => o.target = n.target
  /\ o.deleting => n.deleting
  /\ o.delivered => n.delivered

(* An instruction names a provider, and its finalizer comes before a mark  *)
(* for deletion and before the peering.                                    *)
Lifecycle ==
  \A i \in Ids :
    /\ instr[i].rv = 0 => instr[i] = NoInstruction
    /\ instr[i].rv > 0 => instr[i].target \in Clusters
    /\ instr[i].exists /\ (instr[i].deleting \/ instr[i].delivered) => instr[i].finalizer

Copies ==
  /\ \A i \in Ids : OlderCopy(icache[i], instr[i])
  /\ vpc # "idle" => v.obj.exists /\ OlderCopy(v.obj, instr[v.id])

(* What the worker knows of its copy and of the peering at each call.      *)
Calls ==
  /\ vpc \in {"unpeer", "release"} <=> vpc # "idle" /\ v.obj.deleting
  /\ vpc \in {"fetch", "peer", "deliver"} => v.obj.finalizer
  /\ vpc = "unpeer" => v.obj.delivered
  /\ vpc = "release" /\ v.obj.delivered => v.obj.target \notin peered
  /\ vpc = "deliver" => v.obj.target \in peered

PeeringInv ==
  /\ TypeOK /\ Lifecycle /\ Copies /\ Calls
  /\ PeeringIsRecorded /\ DeliveredIsPeered

-----------------------------------------------------------------------------
(* Objects and their updates.                                              *)

LEMMA NewInstructionType ==
  /\ NoInstruction \in Instruction
  /\ \A i \in Ids : \A g \in Grants[i] : NewInstruction(g) \in Instruction
<1>1. NoInstruction \in Instruction
  BY DEF NoInstruction, Instruction
<1>2. \A i \in Ids : \A g \in Grants[i] : g.target \in Clusters /\ g.timed \in BOOLEAN
  BY InstructionsAssumption
<1>3. \A i \in Ids : \A g \in Grants[i] : NewInstruction(g) \in Instruction
  BY <1>2 DEF NewInstruction, NoInstruction, Instruction
<1> QED
  BY <1>1, <1>3

LEMMA InitPeeringInv == Init => PeeringInv
<1> SUFFICES ASSUME Init PROVE PeeringInv
  OBVIOUS
<1>1. \A i \in Ids : instr[i] = NoInstruction /\ icache[i] = NoInstruction
  BY DEF Init
<1>0. NoInstruction.rv = 0 /\ NoInstruction.exists = FALSE /\ NoInstruction.deleting = FALSE
  BY DEF NoInstruction
<1>2. TypeOK
  BY NewInstructionType, InstructionsAssumption DEF Init, TypeOK
<1>7. ~ (NoInstruction.rv > 0)
  BY <1>0
<1>8. \A i \in Ids : ~ (instr[i].rv > 0)
  BY <1>1, <1>7, Zenon
<1>9. \A i \in Ids : ~ instr[i].exists
  BY <1>0, <1>1, Zenon
<1>3. Lifecycle
  BY <1>1, <1>8, <1>9, Zenon DEF Lifecycle
<1>4. Copies
  BY <1>0, <1>1 DEF Init, Copies, OlderCopy
<1>5. Calls
  BY DEF Init, Calls
<1>6. PeeringIsRecorded /\ DeliveredIsPeered
  BY <1>0, <1>1, <1>9, Zenon DEF Init, PeeringIsRecorded, DeliveredIsPeered
<1> QED
  BY <1>2, <1>3, <1>4, <1>5, <1>6 DEF PeeringInv

(* An update changes one object: its fields are those written, its version *)
(* is the next one.                                                        *)
LEMMA PutInstrFacts ==
  ASSUME instr \in [Ids -> Instruction],
         NEW i \in Ids, NEW o \in Instruction, PutInstr(i, o)
  PROVE  /\ instr' \in [Ids -> Instruction]
         /\ \A j \in Ids \ {i} : instr'[j] = instr[j]
         /\ instr'[i].rv = instr[i].rv + 1
         /\ instr'[i].exists = o.exists /\ instr'[i].deleting = o.deleting
         /\ instr'[i].finalizer = o.finalizer /\ instr'[i].target = o.target
         /\ instr'[i].delivered = o.delivered
<1> DEFINE n == [o EXCEPT !.rv = instr[i].rv + 1]
<1>1. instr[i].rv + 1 \in Nat
  BY DEF Instruction
<1>2. n \in Instruction
  BY <1>1 DEF Instruction
<1>3. instr' = [instr EXCEPT ![i] = n]
  BY DEF PutInstr
<1>4. /\ n.rv = instr[i].rv + 1
      /\ n.exists = o.exists /\ n.deleting = o.deleting
      /\ n.finalizer = o.finalizer /\ n.target = o.target
      /\ n.delivered = o.delivered
  BY DEF Instruction
<1> HIDE DEF n
<1>5. instr' \in [Ids -> Instruction] /\ instr'[i] = n /\ \A j \in Ids \ {i} : instr'[j] = instr[j]
  BY <1>2, <1>3
<1> QED
  BY <1>4, <1>5

-----------------------------------------------------------------------------
(* What a step does to the instructions.                                   *)

(* The object n becomes m: versions grow, the cluster, Delivered and a     *)
(* mark for deletion stay, what is gone does not come back, and what is    *)
(* marked or Delivered has its finalizer.                                  *)
Evolves(n, m) ==
  \/ m = n
  \/ /\ m.rv = n.rv + 1
     /\ n.rv > 0 => m.target = n.target
     /\ m.target \in Clusters
     /\ n.deleting => m.deleting
     /\ n.delivered => m.delivered
     /\ n.rv > 0 /\ ~ n.exists => ~ m.exists
     /\ m.exists /\ (m.deleting \/ m.delivered) => m.finalizer

(* An instruction stays Delivered until the peering has been torn down.    *)
KeepsDelivered(i) ==
  instr[i].exists /\ instr[i].delivered =>
    \/ instr'[i].exists /\ instr'[i].delivered
    \/ instr[i].target \notin peered'

InstrStep(i) == Evolves(instr[i], instr'[i]) /\ KeepsDelivered(i)

(* An instruction that a step does not make Delivered.                     *)
NotNewlyDelivered(i) ==
  instr'[i].exists /\ instr'[i].delivered /\ ~ instr'[i].deleting =>
    instr[i].exists /\ instr[i].delivered /\ ~ instr[i].deleting

LEMMA OlderCopyStays ==
  ASSUME NEW o \in Instruction, NEW n \in Instruction, NEW m \in Instruction,
         OlderCopy(o, n), Evolves(n, m)
  PROVE  OlderCopy(o, m)
<1>1. ASSUME m = n PROVE OlderCopy(o, m)
  BY <1>1
<1>2. ASSUME m.rv = n.rv + 1,
             n.rv > 0 => m.target = n.target,
             n.deleting => m.deleting, n.delivered => m.delivered
      PROVE  OlderCopy(o, m)
  <2>1. o.rv \in Nat /\ n.rv \in Nat /\ m.rv \in Nat
    BY DEF Instruction
  <2>2. o.rv <= m.rv /\ o.rv # m.rv /\ (o.rv > 0 => n.rv > 0)
    BY <1>2, <2>1 DEF OlderCopy
  <2> QED
    BY <1>2, <2>2 DEF OlderCopy
<1> QED
  BY <1>1, <1>2 DEF Evolves

LEMMA UnchangedInstr ==
  ASSUME instr' = instr
  PROVE  \A i \in Ids : InstrStep(i) /\ NotNewlyDelivered(i)
  BY DEF InstrStep, Evolves, KeepsDelivered, NotNewlyDelivered

(* An update that keeps the cluster, Delivered, a mark for deletion and    *)
(* the order of finalizer, mark and peering.                               *)
LEMMA UpdateStep ==
  ASSUME TypeOK, NEW i \in Ids, NEW o \in Instruction, PutInstr(i, o),
         o.target = instr[i].target, o.target \in Clusters,
         instr[i].deleting => o.deleting,
         instr[i].exists, instr[i].delivered => o.delivered,
         o.exists /\ (o.deleting \/ o.delivered) => o.finalizer,
         instr[i].delivered => o.exists \/ instr[i].target \notin peered'
  PROVE  /\ instr' \in [Ids -> Instruction]
         /\ \A j \in Ids : InstrStep(j)
         /\ \A j \in Ids \ {i} : NotNewlyDelivered(j)
         /\ instr'[i].exists = o.exists /\ instr'[i].deleting = o.deleting
         /\ instr'[i].delivered = o.delivered /\ instr'[i].target = o.target
<1>1. /\ instr' \in [Ids -> Instruction]
      /\ \A j \in Ids \ {i} : instr'[j] = instr[j]
      /\ instr'[i].rv = instr[i].rv + 1
      /\ instr'[i].exists = o.exists /\ instr'[i].deleting = o.deleting
      /\ instr'[i].finalizer = o.finalizer /\ instr'[i].target = o.target
      /\ instr'[i].delivered = o.delivered
  BY PutInstrFacts DEF TypeOK
<1>2. InstrStep(i)
  BY <1>1 DEF InstrStep, Evolves, KeepsDelivered
<1>3. \A j \in Ids \ {i} : InstrStep(j) /\ NotNewlyDelivered(j)
  BY <1>1 DEF InstrStep, Evolves, KeepsDelivered, NotNewlyDelivered
<1> QED
  BY <1>1, <1>2, <1>3

LEMMA Existing ==
  ASSUME TypeOK, Lifecycle, NEW i \in Ids, instr[i].exists
  PROVE  instr[i].rv > 0 /\ instr[i].target \in Clusters
<1>1. NoInstruction.exists = FALSE /\ instr[i].rv \in Nat
  BY DEF NoInstruction, TypeOK, Instruction
<1> QED
  BY <1>1 DEF Lifecycle

LEMMA DeleteInstrStep ==
  ASSUME TypeOK, Lifecycle, NEW i \in Ids, DeleteInstr(i)
  PROVE  /\ instr' \in [Ids -> Instruction]
         /\ \A j \in Ids : InstrStep(j) /\ NotNewlyDelivered(j)
<1>1. ASSUME UNCHANGED instr
      PROVE  /\ instr' \in [Ids -> Instruction]
             /\ \A j \in Ids : InstrStep(j) /\ NotNewlyDelivered(j)
  BY <1>1, UnchangedInstr DEF TypeOK
<1>2. ASSUME instr[i].exists, ~ instr[i].deleting, instr[i].finalizer,
             PutInstr(i, [instr[i] EXCEPT !.deleting = TRUE])
      PROVE  /\ instr' \in [Ids -> Instruction]
             /\ \A j \in Ids : InstrStep(j) /\ NotNewlyDelivered(j)
  <2> DEFINE o == [instr[i] EXCEPT !.deleting = TRUE]
  <2>1. o \in Instruction
    BY DEF TypeOK, Instruction
  <2>2. /\ o.exists = instr[i].exists /\ o.deleting = TRUE
        /\ o.finalizer = instr[i].finalizer /\ o.target = instr[i].target
        /\ o.delivered = instr[i].delivered
    BY DEF TypeOK, Instruction
  <2> HIDE DEF o
  <2>3. PutInstr(i, o)
    BY <1>2 DEF o
  <2>4. /\ instr' \in [Ids -> Instruction]
        /\ \A j \in Ids : InstrStep(j)
        /\ \A j \in Ids \ {i} : NotNewlyDelivered(j)
        /\ instr'[i].deleting = TRUE
    BY <1>2, <2>1, <2>2, <2>3, UpdateStep, Existing
  <2> QED
    BY <2>4 DEF NotNewlyDelivered
<1>3. ASSUME instr[i].exists, ~ instr[i].deleting, ~ instr[i].finalizer,
             PutInstr(i, [instr[i] EXCEPT !.exists = FALSE])
      PROVE  /\ instr' \in [Ids -> Instruction]
             /\ \A j \in Ids : InstrStep(j) /\ NotNewlyDelivered(j)
  <2> DEFINE o == [instr[i] EXCEPT !.exists = FALSE]
  <2>1. o \in Instruction
    BY DEF TypeOK, Instruction
  <2>2. /\ o.exists = FALSE /\ o.deleting = instr[i].deleting
        /\ o.target = instr[i].target /\ o.delivered = instr[i].delivered
    BY DEF TypeOK, Instruction
  <2> HIDE DEF o
  <2>3. PutInstr(i, o) /\ ~ instr[i].delivered
    BY <1>3 DEF o, Lifecycle
  <2>4. /\ instr' \in [Ids -> Instruction]
        /\ \A j \in Ids : InstrStep(j)
        /\ \A j \in Ids \ {i} : NotNewlyDelivered(j)
        /\ instr'[i].exists = FALSE
    BY <1>3, <2>1, <2>2, <2>3, UpdateStep, Existing
  <2> QED
    BY <2>4 DEF NotNewlyDelivered
<1> QED
  BY <1>1, <1>2, <1>3 DEF DeleteInstr

LEMMA CreateStep ==
  ASSUME TypeOK, Lifecycle, NEW i \in Ids, CreateReservationInstruction(i)
  PROVE  /\ instr' \in [Ids -> Instruction]
         /\ \A j \in Ids : InstrStep(j) /\ NotNewlyDelivered(j)
<1>1. PICK g \in Grants[i] : instr' = [instr EXCEPT ![i] = NewInstruction(g)]
  BY DEF CreateReservationInstruction
<1> DEFINE n == NewInstruction(g)
<1>2. /\ n \in Instruction /\ n.rv = 1
      /\ n.deleting = FALSE /\ n.delivered = FALSE /\ n.target = g.target
  BY NewInstructionType DEF NewInstruction, NoInstruction
<1>7. g.target \in Clusters
  BY InstructionsAssumption
<1>3. /\ instr[i].rv = 0
      /\ instr[i].exists = FALSE /\ instr[i].deleting = FALSE
      /\ instr[i].delivered = FALSE
  BY DEF CreateReservationInstruction, Lifecycle, NoInstruction
<1>4. instr' = [instr EXCEPT ![i] = n]
  BY <1>1
<1> HIDE DEF n
<1>5. instr' \in [Ids -> Instruction] /\ instr'[i] = n /\ \A j \in Ids \ {i} : instr'[j] = instr[j]
  BY <1>2, <1>4 DEF TypeOK
<1>6. InstrStep(i) /\ NotNewlyDelivered(i)
  BY <1>2, <1>3, <1>5, <1>7 DEF InstrStep, Evolves, KeepsDelivered, NotNewlyDelivered
<1> QED
  BY <1>5, <1>6 DEF InstrStep, Evolves, KeepsDelivered, NotNewlyDelivered

-----------------------------------------------------------------------------
(* What such steps preserve.                                               *)

LEMMA LifecycleStays ==
  ASSUME TypeOK, instr' \in [Ids -> Instruction], Lifecycle, \A i \in Ids : InstrStep(i)
  PROVE  Lifecycle'
<1> SUFFICES ASSUME NEW i \in Ids
             PROVE  /\ instr'[i].rv = 0 => instr'[i] = NoInstruction
                    /\ instr'[i].rv > 0 => instr'[i].target \in Clusters
                    /\ instr'[i].exists /\ (instr'[i].deleting \/ instr'[i].delivered)
                         => instr'[i].finalizer
  BY DEF Lifecycle
<1>1. instr[i].rv \in Nat
  BY DEF TypeOK, Instruction
<1> QED
  BY <1>1 DEF Lifecycle, InstrStep, Evolves

LEMMA CopiesStay ==
  ASSUME TypeOK, instr' \in [Ids -> Instruction], Lifecycle, Copies,
         \A i \in Ids : InstrStep(i),
         \A i \in Ids : icache'[i] \in {icache[i], instr'[i]},
         vpc' # "idle" => /\ v'.id \in Ids /\ v'.obj \in Instruction
                          /\ v'.obj.exists /\ OlderCopy(v'.obj, instr[v'.id])
  PROVE  Copies'
<1>1. \A i \in Ids : \A o \in Instruction :
        OlderCopy(o, instr[i]) => OlderCopy(o, instr'[i])
  <2> TAKE i \in Ids
  <2> TAKE o \in Instruction
  <2>1. instr[i] \in Instruction /\ instr'[i] \in Instruction /\ Evolves(instr[i], instr'[i])
    BY DEF TypeOK, InstrStep
  <2> QED
    BY <2>1, OlderCopyStays
<1>2. Lifecycle'
  BY LifecycleStays
<1>3. \A i \in Ids : OlderCopy(icache'[i], instr'[i])
  <2> TAKE i \in Ids
  <2>1. OlderCopy(icache[i], instr'[i])
    BY <1>1 DEF TypeOK, Copies
  <2>2. instr'[i].rv \in Nat /\ (instr'[i].rv = 0 => instr'[i] = NoInstruction)
    BY <1>2 DEF Lifecycle, Instruction
  <2>3. instr'[i].exists => instr'[i].rv > 0
    BY <2>2 DEF NoInstruction
  <2>4. OlderCopy(instr'[i], instr'[i])
    BY <2>2, <2>3 DEF OlderCopy
  <2> QED
    BY <2>1, <2>4
<1>4. vpc' # "idle" => v'.obj.exists /\ OlderCopy(v'.obj, instr'[v'.id])
  BY <1>1
<1> QED
  BY <1>3, <1>4 DEF Copies

(* What stood for a peering stands for it still.                           *)
LEMMA RecordedStays ==
  ASSUME TypeOK, Lifecycle, PeeringIsRecorded, \A i \in Ids : InstrStep(i),
         \A c \in peered' :
           \/ c \in interrupted'
           \/ vpc' = "deliver" /\ v'.obj.target = c
           \/ \E i \in Ids : instr'[i].exists /\ instr'[i].delivered /\ instr'[i].target = c
           \/ c \in peered /\ c \notin interrupted /\ ~ (vpc = "deliver" /\ v.obj.target = c)
  PROVE  PeeringIsRecorded'
<1> SUFFICES ASSUME NEW c \in peered', c \in peered, c \notin interrupted,
                    ~ (vpc = "deliver" /\ v.obj.target = c)
             PROVE  \E i \in Ids : instr'[i].exists /\ instr'[i].delivered /\ instr'[i].target = c
  BY DEF PeeringIsRecorded
<1>1. PICK i \in Ids : instr[i].exists /\ instr[i].delivered /\ instr[i].target = c
  BY DEF PeeringIsRecorded
<1>2. instr'[i].exists /\ instr'[i].delivered
  BY <1>1 DEF InstrStep, KeepsDelivered
<1>3. instr[i].rv > 0
  BY <1>1, Existing
<1>4. instr'[i].target = c
  BY <1>1, <1>3 DEF InstrStep, Evolves
<1> QED
  BY <1>2, <1>4

(* A Delivered instruction that was deleted stays so.                      *)
LEMMA SharedStays ==
  ASSUME TypeOK, \A j \in Ids : InstrStep(j), NEW i \in Ids, instr[i].rv > 0,
         Lifecycle, SharedWasDeleted(i)
  PROVE  SharedWasDeleted(i)'
<1>1. PICK j \in Ids \ {i} :
        /\ instr[j].target = instr[i].target /\ instr[j].delivered
        /\ instr[j].deleting \/ ~ instr[j].exists
  BY DEF SharedWasDeleted
<1>2. instr[j].rv > 0
  <2>1. NoInstruction.delivered = FALSE
    BY DEF NoInstruction
  <2> QED
    BY <1>1, <2>1 DEF Lifecycle, TypeOK, Instruction
<1>3. Evolves(instr[i], instr'[i]) /\ Evolves(instr[j], instr'[j])
  BY DEF InstrStep
<1>4. instr'[i].target = instr[i].target /\ instr'[j].target = instr[j].target
  BY <1>2, <1>3 DEF Evolves
<1>5. instr'[j].delivered /\ (instr'[j].deleting \/ ~ instr'[j].exists)
  BY <1>1, <1>2, <1>3 DEF Evolves
<1> QED
  BY <1>1, <1>4, <1>5 DEF SharedWasDeleted

LEMMA DeliveredStays ==
  ASSUME TypeOK, Lifecycle, DeliveredIsPeered, NEW i \in Ids,
         \A j \in Ids : InstrStep(j), NotNewlyDelivered(i), peered \subseteq peered',
         instr'[i].exists, instr'[i].delivered, ~ instr'[i].deleting
  PROVE  instr'[i].target \in peered' \/ SharedWasDeleted(i)'
<1>1. instr[i].exists /\ instr[i].delivered /\ ~ instr[i].deleting
  BY DEF NotNewlyDelivered
<1>2. instr[i].rv > 0
  BY <1>1, Existing
<1>3. instr'[i].target = instr[i].target
  BY <1>2 DEF InstrStep, Evolves
<1>4. instr[i].target \in peered \/ SharedWasDeleted(i)
  BY <1>1 DEF DeliveredIsPeered
<1> QED
  BY <1>2, <1>3, <1>4, SharedStays

LEMMA AllDeliveredStay ==
  ASSUME TypeOK, Lifecycle, DeliveredIsPeered,
         \A i \in Ids : InstrStep(i) /\ NotNewlyDelivered(i), peered \subseteq peered'
  PROVE  DeliveredIsPeered'
<1> SUFFICES ASSUME NEW i \in Ids,
                    instr'[i].exists, instr'[i].delivered, ~ instr'[i].deleting
             PROVE  instr'[i].target \in peered' \/ SharedWasDeleted(i)'
  BY DEF DeliveredIsPeered
<1> QED
  BY DeliveredStays

-----------------------------------------------------------------------------
(* The steps.                                                              *)

(* What every step has to show.                                            *)
StepOK ==
  /\ TypeOK' /\ Calls' /\ PeeringIsRecorded' /\ DeliveredIsPeered'
  /\ \A i \in Ids : InstrStep(i)
  /\ \A i \in Ids : icache'[i] \in {icache[i], instr'[i]}
  /\ vpc' # "idle" => /\ v'.id \in Ids /\ v'.obj \in Instruction
                      /\ v'.obj.exists /\ OlderCopy(v'.obj, instr[v'.id])

LEMMA StepOKSuffices ==
  ASSUME PeeringInv, StepOK
  PROVE  PeeringInv'
<1>1. TypeOK /\ Lifecycle /\ Copies /\ instr' \in [Ids -> Instruction]
  BY DEF PeeringInv, StepOK, TypeOK
<1>2. Lifecycle'
  BY <1>1, LifecycleStays DEF StepOK
<1>3. Copies'
  BY <1>1, CopiesStay DEF StepOK
<1> QED
  BY <1>2, <1>3 DEF PeeringInv, StepOK

(* The worker's copy when it is the current version, and at any rate.      *)
LEMMA WorkersCopy ==
  ASSUME PeeringInv, vpc # "idle"
  PROVE  /\ v.id \in Ids /\ v.obj \in Instruction /\ v.obj.target \in Clusters
         /\ instr[v.id].rv > 0 /\ instr[v.id].target = v.obj.target
         /\ Current => v.obj = instr[v.id]
<1>1. /\ v.id \in Ids /\ v.obj \in Instruction
      /\ v.obj.exists /\ OlderCopy(v.obj, instr[v.id])
  BY DEF PeeringInv, TypeOK, Copies
<1>2. v.obj.rv > 0 /\ v.obj.rv <= instr[v.id].rv /\ v.obj.target = instr[v.id].target
  BY <1>1 DEF OlderCopy
<1>3. instr[v.id].rv > 0
  BY <1>1, <1>2 DEF PeeringInv, TypeOK, Instruction
<1>4. Current => v.obj = instr[v.id]
  BY <1>1 DEF Current, OlderCopy
<1>5. instr[v.id].target \in Clusters
  BY <1>1, <1>3 DEF PeeringInv, Lifecycle
<1> QED
  BY <1>1, <1>2, <1>3, <1>4, <1>5

(* Steps that leave the peerings alone and at most end a call of the       *)
(* worker.                                                                 *)
LEMMA QuietStep ==
  ASSUME PeeringInv, TypeOK',
         \A i \in Ids : InstrStep(i) /\ NotNewlyDelivered(i),
         \A i \in Ids : icache'[i] \in {icache[i], instr'[i]},
         UNCHANGED peering,
         \/ vpc # "deliver" /\ vpc' = "idle"
         \/ UNCHANGED <<vpc, v>>
  PROVE  StepOK
<1>1. Calls'
  BY DEF PeeringInv, Calls, peering
<1>2. PeeringIsRecorded'
  <2>1. \A c \in peered' :
          \/ c \in interrupted'
          \/ vpc' = "deliver" /\ v'.obj.target = c
          \/ c \in peered /\ c \notin interrupted /\ ~ (vpc = "deliver" /\ v.obj.target = c)
    BY DEF peering
  <2> QED
    BY <2>1, RecordedStays DEF PeeringInv
<1>3. DeliveredIsPeered'
  BY AllDeliveredStay DEF PeeringInv, peering
<1>4. vpc' # "idle" => /\ v'.id \in Ids /\ v'.obj \in Instruction
                       /\ v'.obj.exists /\ OlderCopy(v'.obj, instr[v'.id])
  BY DEF PeeringInv, TypeOK, Copies
<1> QED
  BY <1>1, <1>2, <1>3, <1>4 DEF StepOK

LEMMA CallReturns ==
  ASSUME TypeOK, v.id \in Ids, Done \/ Requeue
  PROVE  /\ vpc' = "idle" /\ iqueue' \subseteq Ids
         /\ v' \in [id : Ids \cup {None}, obj : Instruction]
  BY NewInstructionType DEF Done, Requeue, Finish, TypeOK

LEMMA StartInstructionStep ==
  ASSUME PeeringInv, NEW i \in Ids, StartInstruction(i)
  PROVE  StepOK
<1> DEFINE o == icache[i]
           call == NextCall(i, o)
<1>1. /\ vpc = "idle"
      /\ UNCHANGED <<instr, icache, uploaded, peering, expired, faults>>
      /\ iqueue' \subseteq iqueue
  BY DEF StartInstruction
<1>2. \A j \in Ids : InstrStep(j) /\ NotNewlyDelivered(j)
  BY <1>1, UnchangedInstr
<1>3. ASSUME UNCHANGED <<vpc, v>>
      PROVE  StepOK
  <2>1. TypeOK'
    BY <1>1, <1>3 DEF PeeringInv, TypeOK, peering
  <2> QED
    BY <1>1, <1>2, <1>3, <2>1, QuietStep
<1>4. ASSUME o.exists, call # "idle", vpc' = call, v' = [id |-> i, obj |-> o]
      PROVE  StepOK
  <2>1. o \in Instruction /\ OlderCopy(o, instr[i]) /\ v'.id = i /\ v'.obj = o
    BY <1>4 DEF PeeringInv, TypeOK, Copies
  <2>2. o.deleting \in BOOLEAN /\ o.finalizer \in BOOLEAN /\ o.delivered \in BOOLEAN
    BY <2>1 DEF Instruction
  <2>3. /\ call \in {"unpeer", "release", "finalize", "delete", "fetch", "peer"}
        /\ call \in {"unpeer", "release"} <=> o.deleting
        /\ call \in {"fetch", "peer"} => o.finalizer
        /\ call = "unpeer" => o.delivered
        /\ call = "release" => ~ o.delivered
    BY <1>4, <2>2 DEF NextCall
  <2> HIDE DEF o, call
  <2>4. TypeOK'
    BY <1>1, <1>4, <2>1, <2>3 DEF PeeringInv, TypeOK, peering
  <2>5. Calls'
    BY <1>4, <2>1, <2>3 DEF Calls
  <2>6. PeeringIsRecorded'
    <3>1. \A c \in peered' :
            \/ c \in interrupted'
            \/ c \in peered /\ c \notin interrupted /\ ~ (vpc = "deliver" /\ v.obj.target = c)
      BY <1>1 DEF peering
    <3> QED
      BY <1>2, <3>1, RecordedStays DEF PeeringInv
  <2>7. DeliveredIsPeered'
    BY <1>1, <1>2, AllDeliveredStay DEF PeeringInv, peering
  <2> QED
    BY <1>1, <1>2, <1>4, <2>1, <2>4, <2>5, <2>6, <2>7 DEF StepOK
<1> QED
  BY <1>3, <1>4 DEF StartInstruction

LEMMA RemoveFinalizerStep ==
  ASSUME PeeringInv, RemoveFinalizer
  PROVE  StepOK
<1> DEFINE o == [v.obj EXCEPT !.exists = FALSE, !.finalizer = FALSE]
<1>1. /\ vpc = "release"
      /\ UNCHANGED <<uploaded, icache, peering, expired, faults>>
      /\ Done \/ Requeue
  BY DEF RemoveFinalizer
<1>2. /\ v.id \in Ids /\ v.obj \in Instruction /\ v.obj.target \in Clusters
      /\ Current => v.obj = instr[v.id]
  BY <1>1, WorkersCopy
<1>3. /\ instr' \in [Ids -> Instruction]
      /\ \A j \in Ids : InstrStep(j) /\ NotNewlyDelivered(j)
  <2>1. ASSUME Current, PutInstr(v.id, o)
        PROVE  /\ instr' \in [Ids -> Instruction]
               /\ \A j \in Ids : InstrStep(j) /\ NotNewlyDelivered(j)
    <3>1. /\ o \in Instruction
          /\ o.exists = FALSE /\ o.deleting = v.obj.deleting
          /\ o.target = v.obj.target /\ o.delivered = v.obj.delivered
      BY <1>2 DEF Instruction
    <3> HIDE DEF o
    <3>2. /\ v.obj = instr[v.id] /\ instr[v.id].exists
          /\ v.obj.delivered => v.obj.target \notin peered'
      BY <1>1, <1>2, <2>1 DEF PeeringInv, Calls, peering, Current
    <3>3. /\ instr' \in [Ids -> Instruction]
          /\ \A j \in Ids : InstrStep(j)
          /\ \A j \in Ids \ {v.id} : NotNewlyDelivered(j)
          /\ instr'[v.id].exists = FALSE
      BY <1>2, <2>1, <3>1, <3>2, UpdateStep DEF PeeringInv
    <3> QED
      BY <3>3 DEF NotNewlyDelivered
  <2>2. ASSUME UNCHANGED instr
        PROVE  /\ instr' \in [Ids -> Instruction]
               /\ \A j \in Ids : InstrStep(j) /\ NotNewlyDelivered(j)
    BY <2>2, UnchangedInstr DEF PeeringInv, TypeOK
  <2> QED
    BY <2>1, <2>2 DEF RemoveFinalizer
<1>4. vpc' = "idle" /\ TypeOK'
  BY <1>1, <1>2, <1>3, CallReturns DEF PeeringInv, TypeOK, peering
<1> QED
  BY <1>1, <1>3, <1>4, QuietStep

LEMMA AddFinalizerStep ==
  ASSUME PeeringInv, AddFinalizer
  PROVE  StepOK
<1> DEFINE o == [v.obj EXCEPT !.finalizer = TRUE]
<1>1. /\ vpc = "finalize"
      /\ UNCHANGED <<uploaded, icache, peering, expired, faults>>
      /\ Done \/ Requeue
  BY DEF AddFinalizer
<1>2. /\ v.id \in Ids /\ v.obj \in Instruction /\ v.obj.target \in Clusters
      /\ Current => v.obj = instr[v.id]
  BY <1>1, WorkersCopy
<1>3. /\ instr' \in [Ids -> Instruction]
      /\ \A j \in Ids : InstrStep(j) /\ NotNewlyDelivered(j)
  <2>1. ASSUME Current, PutInstr(v.id, o)
        PROVE  /\ instr' \in [Ids -> Instruction]
               /\ \A j \in Ids : InstrStep(j) /\ NotNewlyDelivered(j)
    <3>1. /\ o \in Instruction /\ o.finalizer = TRUE
          /\ o.exists = v.obj.exists /\ o.deleting = v.obj.deleting
          /\ o.delivered = v.obj.delivered /\ o.target = v.obj.target
      BY <1>2 DEF Instruction
    <3> HIDE DEF o
    <3>2. v.obj = instr[v.id] /\ instr[v.id].exists
      BY <1>2, <2>1 DEF Current
    <3>3. /\ o.exists /\ o.finalizer
          /\ instr[v.id].deleting => o.deleting
          /\ instr[v.id].delivered => o.delivered
      BY <3>1, <3>2, Zenon
    <3>4. /\ instr' \in [Ids -> Instruction]
          /\ \A j \in Ids : InstrStep(j)
          /\ \A j \in Ids \ {v.id} : NotNewlyDelivered(j)
          /\ instr'[v.id].exists = o.exists
          /\ instr'[v.id].delivered = o.delivered
          /\ instr'[v.id].deleting = o.deleting
      BY <1>2, <2>1, <3>1, <3>2, <3>3, UpdateStep DEF PeeringInv
    <3>5. /\ instr'[v.id].exists = instr[v.id].exists
          /\ instr'[v.id].delivered = instr[v.id].delivered
          /\ instr'[v.id].deleting = instr[v.id].deleting
      BY <3>1, <3>2, <3>4
    <3> QED
      BY <3>4, <3>5 DEF NotNewlyDelivered
  <2>2. ASSUME UNCHANGED instr
        PROVE  /\ instr' \in [Ids -> Instruction]
               /\ \A j \in Ids : InstrStep(j) /\ NotNewlyDelivered(j)
    BY <2>2, UnchangedInstr DEF PeeringInv, TypeOK
  <2> QED
    BY <2>1, <2>2 DEF AddFinalizer
<1>4. vpc' = "idle" /\ TypeOK'
  BY <1>1, <1>2, <1>3, CallReturns DEF PeeringInv, TypeOK, peering
<1> QED
  BY <1>1, <1>3, <1>4, QuietStep

LEMMA FetchPeeringKubeconfigStep ==
  ASSUME PeeringInv, FetchPeeringKubeconfig
  PROVE  StepOK
<1> DEFINE o == [v.obj EXCEPT !.kubeconfig = TRUE]
<1>1. /\ vpc = "fetch"
      /\ UNCHANGED <<uploaded, icache, peering, expired, faults>>
      /\ Done \/ Requeue
  BY DEF FetchPeeringKubeconfig
<1>2. /\ v.id \in Ids /\ v.obj \in Instruction /\ v.obj.target \in Clusters
      /\ Current => v.obj = instr[v.id]
  BY <1>1, WorkersCopy
<1>3. /\ instr' \in [Ids -> Instruction]
      /\ \A j \in Ids : InstrStep(j) /\ NotNewlyDelivered(j)
  <2>1. ASSUME Current, PutInstr(v.id, o)
        PROVE  /\ instr' \in [Ids -> Instruction]
               /\ \A j \in Ids : InstrStep(j) /\ NotNewlyDelivered(j)
    <3>1. /\ o \in Instruction /\ o.finalizer = v.obj.finalizer
          /\ o.exists = v.obj.exists /\ o.deleting = v.obj.deleting
          /\ o.delivered = v.obj.delivered /\ o.target = v.obj.target
      BY <1>2 DEF Instruction
    <3> HIDE DEF o
    <3>2. v.obj = instr[v.id] /\ v.obj.finalizer /\ instr[v.id].exists
      BY <1>1, <1>2, <2>1 DEF PeeringInv, Calls, Current
    <3>3. /\ o.exists /\ o.finalizer
          /\ instr[v.id].deleting => o.deleting
          /\ instr[v.id].delivered => o.delivered
      BY <3>1, <3>2, Zenon
    <3>4. /\ instr' \in [Ids -> Instruction]
          /\ \A j \in Ids : InstrStep(j)
          /\ \A j \in Ids \ {v.id} : NotNewlyDelivered(j)
          /\ instr'[v.id].exists = o.exists
          /\ instr'[v.id].delivered = o.delivered
          /\ instr'[v.id].deleting = o.deleting
      BY <1>2, <2>1, <3>1, <3>2, <3>3, UpdateStep DEF PeeringInv
    <3>5. /\ instr'[v.id].exists = instr[v.id].exists
          /\ instr'[v.id].delivered = instr[v.id].delivered
          /\ instr'[v.id].deleting = instr[v.id].deleting
      BY <3>1, <3>2, <3>4
    <3> QED
      BY <3>4, <3>5 DEF NotNewlyDelivered
  <2>2. ASSUME UNCHANGED instr
        PROVE  /\ instr' \in [Ids -> Instruction]
               /\ \A j \in Ids : InstrStep(j) /\ NotNewlyDelivered(j)
    BY <2>2, UnchangedInstr DEF PeeringInv, TypeOK
  <2> QED
    BY <2>1, <2>2 DEF FetchPeeringKubeconfig
<1>4. vpc' = "idle" /\ TypeOK'
  BY <1>1, <1>2, <1>3, CallReturns DEF PeeringInv, TypeOK, peering
<1> QED
  BY <1>1, <1>3, <1>4, QuietStep

LEMMA DeleteExpiredStep ==
  ASSUME PeeringInv, DeleteExpired
  PROVE  StepOK
<1>1. /\ vpc = "delete"
      /\ UNCHANGED <<uploaded, icache, peering, expired, faults>>
      /\ Done \/ Requeue
      /\ DeleteInstr(v.id)
  BY DEF DeleteExpired
<1>2. v.id \in Ids
  BY <1>1, WorkersCopy
<1>3. /\ instr' \in [Ids -> Instruction]
      /\ \A j \in Ids : InstrStep(j) /\ NotNewlyDelivered(j)
  BY <1>1, <1>2, DeleteInstrStep DEF PeeringInv
<1>4. vpc' = "idle" /\ TypeOK'
  BY <1>1, <1>2, <1>3, CallReturns DEF PeeringInv, TypeOK, peering
<1> QED
  BY <1>1, <1>3, <1>4, QuietStep

(* A teardown is for a Delivered instruction that is being deleted, so     *)
(* that the others of its cluster are exempt from then on.                 *)
LEMMA ExecuteLiqoUnpeerStep ==
  ASSUME PeeringInv, ExecuteLiqoUnpeer
  PROVE  StepOK
<1>1. /\ vpc = "unpeer"
      /\ UNCHANGED <<uploaded, instr, icache, interrupted, expired, faults>>
      /\ peered' \in {peered, peered \ {v.obj.target}}
  BY DEF ExecuteLiqoUnpeer
<1>2. /\ v.id \in Ids /\ v.obj.target \in Clusters
      /\ instr[v.id].rv > 0 /\ instr[v.id].target = v.obj.target
  BY <1>1, WorkersCopy
<1>3. v.obj.deleting /\ instr[v.id].deleting /\ instr[v.id].delivered
  BY <1>1 DEF PeeringInv, Calls, Copies, OlderCopy
<1>4. \A j \in Ids : InstrStep(j)
  BY <1>1, UnchangedInstr
<1>5. \/ vpc' = "idle" /\ iqueue' \subseteq Ids /\ v' \in [id : Ids \cup {None}, obj : Instruction]
      \/ /\ vpc' = "release" /\ UNCHANGED <<v, iqueue>>
         /\ v.obj.target \notin peered'
  <2>1. ASSUME Requeue
        PROVE  vpc' = "idle" /\ iqueue' \subseteq Ids /\ v' \in [id : Ids \cup {None}, obj : Instruction]
    BY <1>2, <2>1, CallReturns DEF PeeringInv
  <2> QED
    BY <2>1 DEF ExecuteLiqoUnpeer
<1>6. TypeOK'
  BY <1>1, <1>2, <1>5 DEF PeeringInv, TypeOK
<1>7. Calls'
  BY <1>1, <1>3, <1>5 DEF PeeringInv, Calls
<1>8. PeeringIsRecorded'
  <2>1. \A c \in peered' :
          \/ c \in interrupted'
          \/ c \in peered /\ c \notin interrupted /\ ~ (vpc = "deliver" /\ v.obj.target = c)
    BY <1>1
  <2> QED
    BY <1>4, <2>1, RecordedStays DEF PeeringInv
<1>9. DeliveredIsPeered'
  <2> SUFFICES ASSUME NEW i \in Ids,
                      instr[i].exists, instr[i].delivered, ~ instr[i].deleting
               PROVE  instr[i].target \in peered' \/ SharedWasDeleted(i)'
    BY <1>1 DEF DeliveredIsPeered
  <2>1. CASE instr[i].target = v.obj.target
    <3>1. i # v.id
      BY <1>3
    <3>2. SharedWasDeleted(i)
      BY <1>2, <1>3, <2>1, <3>1 DEF SharedWasDeleted
    <3> QED
      BY <1>1, <3>2 DEF SharedWasDeleted
  <2>2. CASE instr[i].target # v.obj.target
    <3>1. instr[i].target \in peered \/ SharedWasDeleted(i)
      BY DEF PeeringInv, DeliveredIsPeered
    <3> QED
      BY <1>1, <2>2, <3>1 DEF SharedWasDeleted
  <2> QED
    BY <2>1, <2>2
<1> QED
  <2>1. vpc' # "idle" => /\ v'.id \in Ids /\ v'.obj \in Instruction
                         /\ v'.obj.exists /\ OlderCopy(v'.obj, instr[v'.id])
    BY <1>1, <1>5 DEF PeeringInv, TypeOK, Copies
  <2> QED
    BY <1>1, <1>4, <1>6, <1>7, <1>8, <1>9, <2>1 DEF StepOK

LEMMA ExecuteLiqoPeeringStep ==
  ASSUME PeeringInv, ExecuteLiqoPeering
  PROVE  StepOK
<1> DEFINE t == v.obj.target
<1>1. /\ vpc = "peer"
      /\ UNCHANGED <<uploaded, instr, icache, expired, faults>>
  BY DEF ExecuteLiqoPeering
<1>2. v.id \in Ids /\ v.obj \in Instruction /\ t \in Clusters
  BY <1>1, WorkersCopy
<1>3. /\ \A j \in Ids : InstrStep(j) /\ NotNewlyDelivered(j)
      /\ \A j \in Ids : icache'[j] \in {icache[j], instr'[j]}
  BY <1>1, UnchangedInstr
<1>4. ASSUME Requeue, UNCHANGED peering
      PROVE  StepOK
  <2>1. vpc' = "idle" /\ TypeOK'
    BY <1>1, <1>2, <1>4, CallReturns DEF PeeringInv, TypeOK, peering
  <2> QED
    BY <1>1, <1>3, <1>4, <2>1, QuietStep
<1>5. ASSUME peered' = peered \cup {t}, interrupted \subseteq interrupted',
             interrupted' \subseteq Clusters, iqueue' \subseteq Ids,
             \/ vpc' = "deliver" /\ v' = v
             \/ /\ vpc' = "idle" /\ t \in interrupted'
                /\ v' \in [id : Ids \cup {None}, obj : Instruction]
      PROVE  StepOK
  <2> HIDE DEF t
  <2>1. TypeOK'
    BY <1>1, <1>2, <1>5 DEF PeeringInv, TypeOK
  <2>2. Calls'
    BY <1>1, <1>5 DEF PeeringInv, Calls, t
  <2>3. PeeringIsRecorded'
    <3>1. \A c \in peered' :
            \/ c \in interrupted'
            \/ vpc' = "deliver" /\ v'.obj.target = c
            \/ c \in peered /\ c \notin interrupted /\ ~ (vpc = "deliver" /\ v.obj.target = c)
      BY <1>1, <1>5 DEF t
    <3> QED
      BY <1>3, <3>1, RecordedStays DEF PeeringInv
  <2>4. DeliveredIsPeered'
    BY <1>3, <1>5, AllDeliveredStay DEF PeeringInv
  <2>5. vpc' # "idle" => /\ v'.id \in Ids /\ v'.obj \in Instruction
                         /\ v'.obj.exists /\ OlderCopy(v'.obj, instr[v'.id])
    BY <1>1, <1>2, <1>5 DEF PeeringInv, Copies
  <2> QED
    BY <1>3, <2>1, <2>2, <2>3, <2>4, <2>5 DEF StepOK
<1>6. ASSUME Requeue
      PROVE  /\ vpc' = "idle" /\ iqueue' \subseteq Ids
             /\ v' \in [id : Ids \cup {None}, obj : Instruction]
  BY <1>2, <1>6, CallReturns DEF PeeringInv
<1>7. ASSUME peered' = peered \cup {t}, vpc' = "deliver", UNCHANGED <<v, iqueue, interrupted>>
      PROVE  StepOK
  BY <1>5, <1>7 DEF PeeringInv, TypeOK
<1>8. ASSUME Requeue, peered' = peered \cup {t}, interrupted' = interrupted \cup {t}
      PROVE  StepOK
  <2>1. /\ interrupted \subseteq interrupted' /\ t \in interrupted'
        /\ interrupted' \subseteq Clusters
    BY <1>2, <1>8 DEF PeeringInv, TypeOK
  <2> QED
    BY <1>5, <1>6, <1>8, <2>1
<1> QED
  BY <1>4, <1>7, <1>8 DEF ExecuteLiqoPeering

(* Delivered is written on the version that was peered with, whose cluster *)
(* is peered.                                                              *)
LEMMA MarkDeliveredStep ==
  ASSUME PeeringInv, MarkDelivered
  PROVE  StepOK
<1> DEFINE t == v.obj.target
           o == [v.obj EXCEPT !.delivered = TRUE]
<1>1. /\ vpc = "deliver" /\ Requeue
      /\ UNCHANGED <<uploaded, icache, peered, expired, faults>>
  BY DEF MarkDelivered
<1>2. /\ v.id \in Ids /\ v.obj \in Instruction /\ t \in Clusters
      /\ Current => v.obj = instr[v.id]
  BY <1>1, WorkersCopy
<1>3. /\ t \in peered /\ v.obj.finalizer
      /\ vpc' = "idle" /\ iqueue' \subseteq Ids
      /\ v' \in [id : Ids \cup {None}, obj : Instruction]
  BY <1>1, <1>2, CallReturns DEF PeeringInv, Calls
<1>4. Calls'
  BY <1>3 DEF Calls
<1>5. ASSUME UNCHANGED instr, interrupted' = interrupted \cup {t}
      PROVE  StepOK
  <2>1. \A j \in Ids : InstrStep(j) /\ NotNewlyDelivered(j)
    BY <1>5, UnchangedInstr
  <2>2. TypeOK'
    BY <1>1, <1>2, <1>3, <1>5 DEF PeeringInv, TypeOK
  <2>3. PeeringIsRecorded'
    <3>1. \A c \in peered' :
            \/ c \in interrupted'
            \/ c \in peered /\ c \notin interrupted /\ ~ (vpc = "deliver" /\ v.obj.target = c)
      BY <1>1, <1>5
    <3> QED
      BY <2>1, <3>1, RecordedStays DEF PeeringInv
  <2>4. DeliveredIsPeered'
    BY <1>1, <2>1, AllDeliveredStay DEF PeeringInv
  <2> QED
    BY <1>1, <1>3, <1>4, <2>1, <2>2, <2>3, <2>4 DEF StepOK
<1>6. ASSUME Current, PutInstr(v.id, o), UNCHANGED interrupted
      PROVE  StepOK
  <2>1. /\ o \in Instruction /\ o.delivered = TRUE
        /\ o.exists = v.obj.exists /\ o.deleting = v.obj.deleting
        /\ o.finalizer = v.obj.finalizer /\ o.target = t
    BY <1>2 DEF Instruction
  <2> HIDE DEF o, t
  <2>2. o.finalizer
    BY <1>3, <2>1, Zenon
  <2>3. v.obj = instr[v.id] /\ instr[v.id].exists /\ instr[v.id].target = t
    BY <1>2, <1>6 DEF Current, t
  <2>4. o.exists
    BY <2>1, <2>3, Zenon
  <2>5. /\ instr' \in [Ids -> Instruction]
        /\ \A j \in Ids : InstrStep(j)
        /\ \A j \in Ids \ {v.id} : NotNewlyDelivered(j)
        /\ instr'[v.id].exists = o.exists
        /\ instr'[v.id].delivered = TRUE
        /\ instr'[v.id].target = t
    BY <1>2, <1>6, <2>1, <2>2, <2>3, <2>4, UpdateStep DEF PeeringInv
  <2>6. TypeOK'
    BY <1>1, <1>2, <1>3, <1>6, <2>5 DEF PeeringInv, TypeOK
  <2>7. PeeringIsRecorded'
    <3>1. instr'[v.id].exists /\ instr'[v.id].delivered /\ instr'[v.id].target = t
      BY <2>4, <2>5, Zenon
    <3>2. \A c \in peered' :
            \/ c \in interrupted'
            \/ \E i \in Ids : instr'[i].exists /\ instr'[i].delivered /\ instr'[i].target = c
            \/ c \in peered /\ c \notin interrupted /\ ~ (vpc = "deliver" /\ v.obj.target = c)
      BY <1>1, <1>2, <1>6, <3>1 DEF t
    <3> QED
      BY <2>5, <3>2, RecordedStays DEF PeeringInv
  <2>8. DeliveredIsPeered'
    <3> SUFFICES ASSUME NEW i \in Ids,
                        instr'[i].exists, instr'[i].delivered, ~ instr'[i].deleting
                 PROVE  instr'[i].target \in peered' \/ SharedWasDeleted(i)'
      BY DEF DeliveredIsPeered
    <3>1. CASE i = v.id
      BY <1>1, <1>3, <2>5, <3>1 DEF t
    <3>2. CASE i # v.id
      BY <1>1, <2>5, <3>2, DeliveredStays DEF PeeringInv
    <3> QED
      BY <3>1, <3>2
  <2> QED
    BY <1>1, <1>3, <1>4, <2>5, <2>6, <2>7, <2>8 DEF StepOK
<1> QED
  BY <1>5, <1>6 DEF MarkDelivered

LEMMA CrashStep ==
  ASSUME PeeringInv, Crash
  PROVE  StepOK
<1>1. /\ icache' = instr /\ vpc' = "idle" /\ faults' \in 0 .. MaxFaults
      /\ v' \in [id : Ids \cup {None}, obj : Instruction]
      /\ UNCHANGED <<instr, uploaded, peered, expired>>
      /\ iqueue' \subseteq Ids
  <2>1. faults' = faults + 1 /\ faults < MaxFaults
    BY DEF Crash, Fault
  <2>2. faults' \in 0 .. MaxFaults
    BY <2>1, InstructionsAssumption DEF PeeringInv, TypeOK
  <2> QED
    BY <2>2, NewInstructionType DEF Crash, Finish
<1>2. /\ interrupted \subseteq interrupted' /\ interrupted' \subseteq Clusters
      /\ vpc = "deliver" => v.obj.target \in interrupted'
  <2>1. vpc # "idle" => v.obj.target \in Clusters
    BY WorkersCopy
  <2> QED
    BY <2>1 DEF PeeringInv, TypeOK, Crash
<1>3. \A j \in Ids : InstrStep(j) /\ NotNewlyDelivered(j)
  BY <1>1, UnchangedInstr
<1>4. TypeOK' /\ Calls'
  BY <1>1, <1>2 DEF PeeringInv, TypeOK, Calls
<1>5. PeeringIsRecorded'
  <2>1. \A c \in peered' :
          \/ c \in interrupted'
          \/ c \in peered /\ c \notin interrupted /\ ~ (vpc = "deliver" /\ v.obj.target = c)
    BY <1>1, <1>2
  <2> QED
    BY <1>3, <2>1, RecordedStays DEF PeeringInv
<1>6. DeliveredIsPeered'
  BY <1>1, <1>3, AllDeliveredStay DEF PeeringInv
<1> QED
  BY <1>1, <1>3, <1>4, <1>5, <1>6 DEF StepOK

(* The broker, the provider, the user, the watch and time.                 *)
LEMMA OthersStep ==
  ASSUME PeeringInv, NEW i \in Ids,
         \/ SyncInstruction(i) \/ CreateReservationInstruction(i) \/ DeleteOldInstruction(i)
         \/ ProviderUploads(i) \/ Expire(i)
  PROVE  StepOK
<1>1. CASE SyncInstruction(i)
  <2>1. \A j \in Ids : InstrStep(j) /\ NotNewlyDelivered(j)
    BY <1>1, UnchangedInstr DEF SyncInstruction
  <2>2. TypeOK'
    BY <1>1 DEF SyncInstruction, PeeringInv, TypeOK, peering
  <2>3. \A j \in Ids : icache'[j] \in {icache[j], instr'[j]}
    BY <1>1 DEF SyncInstruction, PeeringInv, TypeOK
  <2> QED
    BY <1>1, <2>1, <2>2, <2>3, QuietStep DEF SyncInstruction
<1>2. CASE CreateReservationInstruction(i)
  <2>1. /\ instr' \in [Ids -> Instruction]
        /\ \A j \in Ids : InstrStep(j) /\ NotNewlyDelivered(j)
    BY <1>2, CreateStep DEF PeeringInv
  <2>2. TypeOK'
    BY <1>2, <2>1 DEF CreateReservationInstruction, PeeringInv, TypeOK, peering
  <2> QED
    BY <1>2, <2>1, <2>2, QuietStep DEF CreateReservationInstruction
<1>3. CASE DeleteOldInstruction(i)
  <2>1. /\ instr' \in [Ids -> Instruction]
        /\ \A j \in Ids : InstrStep(j) /\ NotNewlyDelivered(j)
    BY <1>3, DeleteInstrStep DEF DeleteOldInstruction, PeeringInv
  <2>2. faults' \in 0 .. MaxFaults
    BY <1>3, InstructionsAssumption DEF DeleteOldInstruction, Fault, PeeringInv, TypeOK
  <2>3. TypeOK'
    BY <1>3, <2>1, <2>2 DEF DeleteOldInstruction, PeeringInv, TypeOK, peering
  <2> QED
    BY <1>3, <2>1, <2>3, QuietStep DEF DeleteOldInstruction
<1>4. CASE ProviderUploads(i) \/ Expire(i)
  <2>1. /\ UNCHANGED <<instr, icache, iqueue, vpc, v, peering, faults>>
        /\ uploaded' \subseteq uploaded \cup {i} /\ expired' \subseteq expired \cup {i}
    BY <1>4 DEF ProviderUploads, Expire
  <2>2. \A j \in Ids : InstrStep(j) /\ NotNewlyDelivered(j)
    BY <2>1, UnchangedInstr
  <2>3. TypeOK'
    BY <2>1 DEF PeeringInv, TypeOK, peering
  <2> QED
    BY <2>1, <2>2, <2>3, QuietStep
<1> QED
  BY <1>1, <1>2, <1>3, <1>4

LEMMA StutterStep ==
  ASSUME PeeringInv, UNCHANGED vars
  PROVE  StepOK
<1>1. \A j \in Ids : InstrStep(j) /\ NotNewlyDelivered(j)
  BY UnchangedInstr DEF vars
<1>2. TypeOK'
  BY DEF vars, peering, PeeringInv, TypeOK
<1> QED
  BY <1>1, <1>2, QuietStep DEF vars

LEMMA NextStep ==
  ASSUME PeeringInv, [Next]_vars
  PROVE  StepOK
<1>1. CASE Reconcile
  BY <1>1, ExecuteLiqoUnpeerStep, RemoveFinalizerStep, AddFinalizerStep, DeleteExpiredStep,
     FetchPeeringKubeconfigStep, ExecuteLiqoPeeringStep, MarkDeliveredStep DEF Reconcile
<1>2. CASE Crash
  BY <1>2, CrashStep
<1>3. ASSUME NEW i \in Ids,
             \/ StartInstruction(i) \/ SyncInstruction(i) \/ CreateReservationInstruction(i)
             \/ DeleteOldInstruction(i) \/ ProviderUploads(i) \/ Expire(i)
      PROVE  StepOK
  BY <1>3, StartInstructionStep, OthersStep
<1>4. CASE UNCHANGED vars
  BY <1>4, StutterStep
<1> QED
  BY <1>1, <1>2, <1>3, <1>4 DEF Next

-----------------------------------------------------------------------------
(* The theorems.                                                           *)

LEMMA PeeringInvariant == Spec => []PeeringInv
<1>1. Init => PeeringInv
  BY InitPeeringInv
<1>2. PeeringInv /\ [Next]_vars => PeeringInv'
  BY NextStep, StepOKSuffices
<1> QED
  BY <1>1, <1>2, PTL DEF Spec

(* Every variable keeps its type, and the worker always has an instruction *)
(* when it is about to make a call.                                        *)
THEOREM TypeCorrect == Spec => []TypeOK
<1>1. PeeringInv => TypeOK
  BY DEF PeeringInv
<1> QED
  BY <1>1, PeeringInvariant, PTL

(* Every peering has a Delivered instruction, or the worker is about to    *)
(* write it, or liqoctl's success was not recorded: the controller leaves  *)
(* no other peering behind, whatever is deleted, expires or restarts.      *)
THEOREM PeeringsAreRecorded == Spec => []PeeringIsRecorded
<1>1. PeeringInv => PeeringIsRecorded
  BY DEF PeeringInv
<1> QED
  BY <1>1, PeeringInvariant, PTL

(* An instruction that says Delivered has its peering, unless another      *)
(* Delivered instruction of its cluster has been deleted: no kill, crash,  *)
(* conflict or expiry takes a peering from those that it is left to.       *)
THEOREM DeliveredArePeered == Spec => []DeliveredIsPeered
<1>1. PeeringInv => DeliveredIsPeered
  BY DEF PeeringInv
<1> QED
  BY <1>1, PeeringInvariant, PTL

(* The finalizer does its work: a Delivered instruction is not removed     *)
(* before the peering is torn down.                                        *)
THEOREM TeardownFirst == Spec => TeardownBeforeRemoval
<1>1. PeeringInv /\ [Next]_vars =>
        [\A i \in Ids :
           instr[i].exists /\ instr[i].delivered /\ ~ instr'[i].exists
             => instr[i].target \notin peered']_vars
  BY NextStep DEF StepOK, InstrStep, KeepsDelivered
<1> QED
  BY <1>1, PeeringInvariant, PTL DEF Spec, TeardownBeforeRemoval
=============================================================================
