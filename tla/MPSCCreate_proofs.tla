--------------------------- MODULE MPSCCreate_proofs ---------------------------
(***************************************************************************)
(* Proofs about mpsc_create and its rollback (MPSCCreate), for every       *)
(* n_max_producers: the model is well typed, and whatever call fails the   *)
(* rollback releases exactly the mutex and condition variables that were   *)
(* initialised and every block that was allocated.                         *)
(***************************************************************************)
EXTENDS MPSCCreate, TLAPS

USE NMaxProducersCreateAssumption

(* The blocks held according to self and its fields.                       *)
HeldMem ==
    {Obj(b) : b \in {c \in BlockNames : field[c] = "set"}}
        \cup (IF selfp = "set" THEN {Obj("self")} ELSE {})

(* The synchronisation objects initialised before the step pc: the ones   *)
(* the switch of the rollback destroys for the failure recorded.           *)
SyncHeld ==
    CASE pc = "pcv"                 -> {Obj("cv")} \cup Pcvs(cvi)
      [] pc = "mutex"               -> {Obj("cv")} \cup Pcvs(params.n_max_producers)
      [] pc \in {"thread", "created"} ->
             {Obj("cv"), Obj("mutex")} \cup Pcvs(params.n_max_producers)
      [] pc = "rollback"            -> DestroyedSync(ftype, fidx)
      [] OTHER                      -> {}

(* The fields from the k-th on have not been assigned since malloc.       *)
Fresh(k) == \A j \in k .. 5 : field[BlockOrder[j]] = "garbage"

Running == {"validate", "self", "cv", "pcv", "mutex", "thread", "rollback",
            "created"} \cup BlockNames

(* held is what self, its fields and the step imply; nothing is destroyed  *)
(* wrongly before the end.  The rest is what the steps need to keep it:    *)
(* no field is assigned before self is allocated or before its own malloc, *)
(* self is allocated in every later step, and the producer loop runs       *)
(* below n_max_producers.                                                  *)
Inv ==
    /\ TypeOK
    /\ pc \in {"validate", "self"} =>
          selfp = "unset" /\ \A b \in BlockNames : field[b] = "garbage"
    /\ \A k \in 1 .. 5 : pc = BlockOrder[k] => Fresh(k)
    /\ pc \in Running \ {"validate", "self", "rollback"} => selfp = "set"
    /\ pc = "rollback" => selfp \in {"null", "set"}
    /\ pc \in Running \ {"validate"} => params.n_max_producers # 0
    /\ pc = "pcv" => cvi < params.n_max_producers
    /\ pc \in Running => held = HeldMem \cup SyncHeld /\ bad_destroy = {}
    /\ pc \in {"null", "destroyed"} => held = {} /\ bad_destroy = {}

LEMMA InvInit == Init => Inv
BY DEF Init, Inv, TypeOK, Params, Fresh, BlockOrder, BlockNames, Running,
       HeldMem, SyncHeld, FailureTypes, Errnos

(* The five blocks of self, by name, and the step after each.             *)
LEMMA BlockNamesFacts ==
    /\ BlockNames = {"buffer", "thread_ids", "producers", "pcvs", "queue"}
    /\ \A k \in 1 .. 5 : BlockOrder[k] \in BlockNames
    /\ \A k \in 1 .. 4 : BlockOrder[k + 1] \in BlockNames
BY DEF BlockNames, BlockOrder

(* The steps of the five mallocs are distinct.                             *)
LEMMA BlockOrderInjective ==
    ASSUME NEW i \in 1 .. 5, NEW j \in 1 .. 5, BlockOrder[i] = BlockOrder[j]
    PROVE  i = j
BY DEF BlockOrder

(* Every object the model names is one of the Resources.                   *)
LEMMA ResourceFacts ==
    /\ \A b \in BlockNames \cup {"self", "cv", "mutex"} : Obj(b) \in Resources
    /\ \A k \in 0 .. NMaxProducers : Pcvs(k) \subseteq Resources
    /\ \A i \in 0 .. NMaxProducers - 1 : Pcv(i) \in Resources
BY DEF Resources, Obj, Pcvs, Pcv

(* What the switch of the rollback destroys is a set of Resources.         *)
LEMMA DestroyedSyncType ==
    ASSUME TypeOK
    PROVE  DestroyedSync(ftype, fidx) \subseteq Resources
<1>1. params.n_max_producers \in 0 .. NMaxProducers
    BY DEF TypeOK, Params
<1>2. fidx # -1 => fidx + 0 \in 0 .. NMaxProducers
    BY DEF TypeOK
<1>3. {Obj("mutex"), Obj("cv")} \subseteq Resources
    BY ResourceFacts
<1>4. QED
    BY <1>1, <1>2, <1>3, ResourceFacts DEF DestroyedSync, TypeOK, FailureTypes

(* The producer loop adds one condition variable to those initialised.    *)
LEMMA PcvsNext ==
    /\ Pcvs(0) = {}
    /\ \A i \in Nat : Pcvs(i + 1) = Pcvs(i) \cup {Pcv(i)}
BY DEF Pcvs, Pcv

LEMMA TypeStep == Inv /\ [Next]_vars => TypeOK'
<1> SUFFICES ASSUME Inv, [Next]_vars PROVE TypeOK'
    OBVIOUS
<1>0. TypeOK
    BY DEF Inv
<1>1. CASE mpsc_create_params_validate
    BY <1>0, <1>1 DEF mpsc_create_params_validate, TypeOK, Ends
<1>2. CASE MallocSelf
    BY <1>0, <1>2, ResourceFacts, BlockNamesFacts
       DEF MallocSelf, Call, MallocFailure, TypeOK, Ends, FailureTypes, Errnos
<1>3. ASSUME NEW k \in 1 .. 5, MallocBlock(k) PROVE TypeOK'
    BY <1>0, <1>3, ResourceFacts, BlockNamesFacts
       DEF MallocBlock, Call, MallocFailure, TypeOK, Ends, FailureTypes, Errnos
<1>4. CASE CondInitMain
    BY <1>0, <1>4, ResourceFacts
       DEF CondInitMain, Call, CondInitFailure, TypeOK, Ends, FailureTypes, Errnos
<1>5. CASE CondInitProducer
    <2>1. cvi < NMaxProducers
        BY <1>0, <1>5 DEF CondInitProducer, Inv, TypeOK, Params
    <2>2. QED
        BY <1>0, <1>5, <2>1, ResourceFacts
           DEF CondInitProducer, Call, CondInitFailure, TypeOK, Ends,
               FailureTypes, Errnos
<1>6. CASE MutexInit
    BY <1>0, <1>6, ResourceFacts
       DEF MutexInit, Call, MutexInitFailure, TypeOK, Ends, FailureTypes, Errnos
<1>7. CASE ThreadCreate
    BY <1>0, <1>7
       DEF ThreadCreate, Call, ThreadCreateFailure, TypeOK, Ends, FailureTypes,
           Errnos
<1>8. CASE mpsc_handle_creation_failure
    <2>1. ASSUME NEW G \in SUBSET BlockNames
          PROVE  {Obj(b) : b \in {c \in BlockNames : field[c] = "set"} \cup G}
                   \cup {Obj("self")} \subseteq Resources
        BY ResourceFacts
    <2>2. QED
        BY <1>0, <1>8, <2>1, DestroyedSyncType
           DEF mpsc_handle_creation_failure, Release, TypeOK, Ends
<1>9. CASE mpsc_destroy
    <2>1. Pcvs(params.n_max_producers) \subseteq Resources
        BY <1>0, ResourceFacts DEF TypeOK, Params
    <2>2. {Obj(b) : b \in BlockNames \cup {"self"}} \subseteq Resources
        BY ResourceFacts
    <2>3. QED
        BY <1>0, <1>9, <2>1, <2>2, ResourceFacts
           DEF mpsc_destroy, Release, TypeOK, Ends
<1>10. CASE UNCHANGED vars
    BY <1>0, <1>10 DEF vars, TypeOK
<1>11. QED
    BY <1>1, <1>2, <1>3, <1>4, <1>5, <1>6, <1>7, <1>8, <1>9, <1>10 DEF Next


LEMMA InvStep == Inv /\ [Next]_vars => Inv'
<1> SUFFICES ASSUME Inv, [Next]_vars PROVE Inv'
    OBVIOUS
<1>0. TypeOK'
    BY TypeStep
<1>a. TypeOK
    BY DEF Inv
<1>1. CASE mpsc_create_params_validate
    BY <1>0, <1>a, <1>1, BlockNamesFacts
       DEF mpsc_create_params_validate, ParamsValid, Inv, Running, HeldMem,
           SyncHeld, TypeOK
<1>2. CASE MallocSelf
    <2>0. /\ selfp = "unset" /\ \A b \in BlockNames : field[b] = "garbage"
          /\ held = {} /\ bad_destroy = {}
        <3>1. HeldMem = {} /\ SyncHeld = {}
            BY <1>2 DEF MallocSelf, Inv, HeldMem, SyncHeld
        <3>2. QED
            BY <1>2, <3>1, BlockNamesFacts DEF MallocSelf, Inv, Running
    <2>1. CASE pc' = "aborted"
        BY <1>2, <2>1, <1>0, BlockNamesFacts DEF Inv, Running
    <2>2. CASE pc' = "rollback"
        BY <1>2, <2>0, <2>2, <1>0, <1>a, BlockNamesFacts
           DEF MallocSelf, Call, Inv, Running, HeldMem, SyncHeld, DestroyedSync, TypeOK
    <2>3. CASE pc' \notin {"aborted", "rollback"}
        <3>1. /\ selfp' = "set" /\ held' = {Obj("self")} /\ pc' = "buffer"
              /\ UNCHANGED <<field, params, bad_destroy>>
            BY <1>2, <2>3 DEF MallocSelf, Call
        <3>2. HeldMem' = {Obj("self")}
            BY <2>0, <3>1 DEF HeldMem
        <3>3. SyncHeld' = {}
            BY <3>1 DEF SyncHeld
        <3>4. \A k \in 1 .. 5 : pc' = BlockOrder[k] => Fresh(k)'
            BY <2>0, <3>1, BlockNamesFacts DEF Fresh
        <3>5. QED
            BY <1>2, <1>a, <3>1, <3>2, <3>3, <3>4, <1>0, BlockNamesFacts
               DEF MallocSelf, Inv, Running, TypeOK, Params
    <2>4. QED
        BY <2>1, <2>2, <2>3
<1>4. CASE CondInitMain
    <2>1. CASE pc' = "aborted"
        BY <1>4, <2>1, <1>0, BlockNamesFacts DEF Inv, Running
    <2>2. CASE pc' = "rollback"
        BY <1>4, <2>2, <1>0, <1>a, BlockNamesFacts
           DEF CondInitMain, Call, Inv, Running, HeldMem, SyncHeld, DestroyedSync, TypeOK
    <2>3. CASE pc' \notin {"aborted", "rollback"}
        BY <1>4, <2>3, <1>0, <1>a, BlockNamesFacts, PcvsNext
           DEF CondInitMain, Call, Inv, Running, HeldMem, SyncHeld, TypeOK, Params
    <2>4. QED
        BY <2>1, <2>2, <2>3
<1>5. CASE CondInitProducer
    <2>1. CASE pc' = "aborted"
        BY <1>5, <2>1, <1>0, BlockNamesFacts DEF Inv, Running
    <2>2. CASE pc' = "rollback"
        BY <1>5, <2>2, <1>0, <1>a, BlockNamesFacts, ResourceFacts
           DEF CondInitProducer, Call, Inv, Running, HeldMem, SyncHeld, DestroyedSync, TypeOK
    <2>3. CASE pc' \notin {"aborted", "rollback"}
        <3>1. /\ held' = held \cup {Pcv(cvi)}
              /\ cvi' = cvi + 1
              /\ pc' = IF MoreProducerCvs THEN "pcv" ELSE "mutex"
              /\ UNCHANGED <<selfp, field, params, bad_destroy>>
            BY <1>5, <2>3 DEF CondInitProducer, Call
        <3>2. /\ pc = "pcv"
              /\ held = HeldMem \cup {Obj("cv")} \cup Pcvs(cvi)
              /\ bad_destroy = {}
              /\ selfp = "set"
              /\ cvi < params.n_max_producers
            BY <1>5, BlockNamesFacts DEF CondInitProducer, Inv, Running, SyncHeld
        <3>3. Pcvs(cvi + 1) = Pcvs(cvi) \cup {Pcv(cvi)}
            BY <1>a, PcvsNext DEF TypeOK
        <3>4. HeldMem' = HeldMem
            BY <3>1 DEF HeldMem
        <3>5. params.n_max_producers \in Nat /\ cvi \in Nat
            BY <1>a DEF TypeOK, Params
        <3>6. CASE MoreProducerCvs
            BY <3>1, <3>2, <3>3, <3>4, <3>5, <3>6, <1>0, BlockNamesFacts
               DEF MoreProducerCvs, Inv, Running, SyncHeld
        <3>7. CASE ~MoreProducerCvs
            BY <3>1, <3>2, <3>3, <3>4, <3>5, <3>7, <1>0, BlockNamesFacts
               DEF MoreProducerCvs, Inv, Running, SyncHeld
        <3>8. QED
            BY <3>6, <3>7
    <2>4. QED
        BY <2>1, <2>2, <2>3
<1>6. CASE MutexInit
    <2>1. CASE pc' = "aborted"
        BY <1>6, <2>1, <1>0, BlockNamesFacts DEF Inv, Running
    <2>2. CASE pc' = "rollback"
        BY <1>6, <2>2, <1>0, <1>a, BlockNamesFacts
           DEF MutexInit, Call, Inv, Running, HeldMem, SyncHeld, DestroyedSync, TypeOK
    <2>3. CASE pc' \notin {"aborted", "rollback"}
        BY <1>6, <2>3, <1>0, <1>a, BlockNamesFacts
           DEF MutexInit, Call, Inv, Running, HeldMem, SyncHeld, TypeOK
    <2>4. QED
        BY <2>1, <2>2, <2>3
<1>7. CASE ThreadCreate
    <2>1. CASE pc' = "aborted"
        BY <1>7, <2>1, <1>0, BlockNamesFacts DEF Inv, Running
    <2>2. CASE pc' = "rollback"
        BY <1>7, <2>2, <1>0, <1>a, BlockNamesFacts
           DEF ThreadCreate, Call, Inv, Running, HeldMem, SyncHeld, DestroyedSync, TypeOK
    <2>3. CASE pc' \notin {"aborted", "rollback"}
        BY <1>7, <2>3, <1>0, <1>a, BlockNamesFacts
           DEF ThreadCreate, Call, Inv, Running, HeldMem, SyncHeld, TypeOK
    <2>4. QED
        BY <2>1, <2>2, <2>3
<1>3. ASSUME NEW k \in 1 .. 5, MallocBlock(k) PROVE Inv'
    <2>0. /\ pc = BlockOrder[k] /\ Fresh(k)
          /\ field[BlockOrder[k]] = "garbage" /\ selfp = "set"
          /\ held = HeldMem /\ bad_destroy = {}
        <3>1. pc = BlockOrder[k] /\ Fresh(k)
            BY <1>3 DEF MallocBlock, Inv
        <3>2. field[BlockOrder[k]] = "garbage"
            BY <3>1 DEF Fresh
        <3>3. pc \in BlockNames /\ SyncHeld = {}
            BY <3>1, BlockNamesFacts DEF SyncHeld
        <3>4. QED
            BY <3>1, <3>2, <3>3, BlockNamesFacts DEF Inv, Running
    <2>1. CASE pc' = "aborted"
        BY <1>3, <2>1, <1>0, BlockNamesFacts DEF Inv, Running
    <2>2. CASE pc' = "rollback"
        <3>1. /\ field' = [field EXCEPT ![BlockOrder[k]] = "null"]
              /\ UNCHANGED <<selfp, held, params, bad_destroy>>
              /\ ftype' = "NONE"
            BY <1>3, <2>2, BlockNamesFacts DEF MallocBlock, Call
        <3>2. HeldMem' = HeldMem
            BY <2>0, <3>1, <1>a, BlockNamesFacts DEF HeldMem, TypeOK
        <3>3. SyncHeld' = {}
            BY <2>2, <3>1 DEF SyncHeld, DestroyedSync
        <3>4. QED
            BY <2>0, <2>2, <3>1, <3>2, <3>3, <1>0, BlockNamesFacts DEF Inv, Running
    <2>3. CASE pc' \notin {"aborted", "rollback"}
        <3>1. /\ field' = [field EXCEPT ![BlockOrder[k]] = "set"]
              /\ held' = held \cup {Obj(BlockOrder[k])}
              /\ pc' = IF k = 5 THEN "cv" ELSE BlockOrder[k + 1]
              /\ UNCHANGED <<selfp, params, bad_destroy>>
            BY <1>3, <2>3 DEF MallocBlock, Call
        <3>2. HeldMem' = HeldMem \cup {Obj(BlockOrder[k])}
            BY <2>0, <3>1, <1>a, BlockNamesFacts DEF HeldMem, TypeOK
        <3>3. SyncHeld' = {}
            BY <3>1, BlockNamesFacts DEF SyncHeld
        <3>4. \A j \in 1 .. 5 : pc' = BlockOrder[j] => Fresh(j)'
            <4>1. CASE k = 5
                BY <3>1, <4>1, BlockNamesFacts
            <4>2. CASE k < 5
                <5>1. pc' = BlockOrder[k + 1]
                    BY <3>1, <4>2
                <5>2. Fresh(k + 1)'
                    <6>1. SUFFICES ASSUME NEW i \in k + 1 .. 5
                                   PROVE  field'[BlockOrder[i]] = "garbage"
                        BY DEF Fresh
                    <6>2. i \in 1 .. 5 /\ i # k
                        BY <4>2
                    <6>3. BlockOrder[i] # BlockOrder[k]
                        BY <6>2, BlockOrderInjective
                    <6>4. field[BlockOrder[i]] = "garbage"
                        BY <2>0, <6>2 DEF Fresh
                    <6>5. BlockOrder[i] \in BlockNames
                        BY <6>2, BlockNamesFacts
                    <6>6. QED
                        BY <3>1, <6>3, <6>4, <6>5, <1>a DEF TypeOK
                <5>3. SUFFICES ASSUME NEW j \in 1 .. 5, pc' = BlockOrder[j]
                               PROVE  Fresh(j)'
                    OBVIOUS
                <5>4. k + 1 \in 1 .. 5
                    BY <4>2
                <5>6. j = k + 1
                    BY <5>1, <5>3, <5>4, BlockOrderInjective
                <5>5. QED
                    BY <5>2, <5>6
            <4>3. QED
                BY <4>1, <4>2
        <3>5. pc' \in BlockNames \cup {"cv"}
            BY <3>1, BlockNamesFacts
        <3>6. QED
            BY <2>0, <3>1, <3>2, <3>3, <3>4, <3>5, <1>0, BlockNamesFacts
               DEF Inv, Running
    <2>4. QED
        BY <2>1, <2>2, <2>3
<1>8. CASE mpsc_handle_creation_failure
    <2>1. CASE selfp = "null"
        BY <1>8, <2>1, <1>0, BlockNamesFacts
           DEF mpsc_handle_creation_failure, Inv, Running
    <2>2. CASE selfp = "set"
        <3>1. held = HeldMem \cup DestroyedSync(ftype, fidx) /\ bad_destroy = {}
            BY <1>8, <1>a, BlockNamesFacts
               DEF mpsc_handle_creation_failure, Inv, Running, SyncHeld
        <3>2. PICK G \in SUBSET {b \in BlockNames : field[b] = "garbage"} :
                 Release(DestroyedSync(ftype, fidx),
                         {Obj(b) : b \in {c \in BlockNames : field[c] = "set"} \cup G}
                           \cup {Obj("self")})
            BY <1>8, <2>2 DEF mpsc_handle_creation_failure
        <3>3. held' = {} /\ bad_destroy' = {}
            BY <3>1, <3>2, <2>2 DEF Release, HeldMem
        <3>4. pc' = "null"
            BY <1>8, <2>2 DEF mpsc_handle_creation_failure
        <3>5. QED
            BY <3>3, <3>4, <1>0, BlockNamesFacts DEF Inv, Running
    <2>3. QED
        BY <1>8, <2>1, <2>2 DEF mpsc_handle_creation_failure, Inv
<1>9. CASE mpsc_destroy
    <2>1. held = {Obj(b) : b \in {c \in BlockNames : field[c] = "set"}}
                   \cup {Obj("self")}
                   \cup {Obj("cv"), Obj("mutex")} \cup Pcvs(params.n_max_producers)
          /\ bad_destroy = {}
        BY <1>9, <1>a, BlockNamesFacts DEF mpsc_destroy, Inv, Running, HeldMem, SyncHeld
    <2>2. held' = {} /\ bad_destroy' = {} /\ pc' = "destroyed"
        BY <1>9, <2>1 DEF mpsc_destroy, Release
    <2>3. QED
        BY <2>2, <1>0, BlockNamesFacts DEF Inv, Running
<1>10. CASE UNCHANGED vars
    <2>1. UNCHANGED <<params, pc, selfp, field, held, cvi, ftype, fidx>>
        BY <1>10 DEF vars
    <2>2. HeldMem' = HeldMem /\ SyncHeld' = SyncHeld
        BY <2>1 DEF HeldMem, SyncHeld, DestroyedSync
    <2>3. QED
        BY <1>10, <2>1, <2>2, <1>0 DEF vars, Inv, Fresh
<1>11. QED
    BY <1>1, <1>2, <1>3, <1>4, <1>5, <1>6, <1>7, <1>8, <1>9, <1>10 DEF Next

(* Every state of mpsc_create, its rollback and mpsc_destroy is well typed: *)
(* the producer index stays within n_max_producers and every object held,  *)
(* freed or destroyed is one the channel has.                              *)
THEOREM CreateTypeCorrect == Spec => []TypeOK
<1>1. Inv => TypeOK
    BY DEF Inv
<1>2. QED
    BY <1>1, InvInit, InvStep, PTL DEF Spec

(* Whichever call of mpsc_create fails, mpsc_handle_creation_failure       *)
(* destroys exactly the mutex and condition variables that were            *)
(* initialised and frees every block allocated, and mpsc_destroy releases  *)
(* everything: nothing is held once NULL is returned or the channel is     *)
(* destroyed, and nothing uninitialised is destroyed.                      *)
THEOREM CreateReleasesExactly == Spec => []ReleasesExactlyWhatItHolds
<1>1. Inv => ReleasesExactlyWhatItHolds
    BY DEF Inv, ReleasesExactlyWhatItHolds
<1>2. QED
    BY <1>1, InvInit, InvStep, PTL DEF Spec


====
