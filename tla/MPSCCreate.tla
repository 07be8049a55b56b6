------------------------------ MODULE MPSCCreate ------------------------------
(***************************************************************************)
(* mpsc_create (mpsc.c 111-182) with its parameter check (533-561), its   *)
(* rollback mpsc_handle_creation_failure (446-531) and mpsc_destroy        *)
(* (430-444).  Creation runs on one thread before any other exists: the    *)
(* model is the sequence of its allocations and initialisations, each of   *)
(* which may fail, and what the rollback then releases.                    *)
(*                                                                         *)
(* A resource is a pair <<kind, i>>: the blocks malloc'd for self and its  *)
(* five arrays, the consumer's condition variable, the producers'          *)
(* condition variables <<"pcv", i>> and the mutex.  held is the set of     *)
(* resources acquired and not yet released.  The fields of self are        *)
(* uninitialised after its malloc ("garbage"): a test of such a field      *)
(* against NULL reads an indeterminate value, so either outcome may occur. *)
(***************************************************************************)
EXTENDS Integers

CONSTANTS
    NMaxProducers       \* the largest n_max_producers a caller passes

ASSUME NMaxProducersCreateAssumption == NMaxProducers \in Nat \ {0}

\* The array fields of struct mpsc_s, in the order mpsc_create allocates them.
BlockOrder == <<"buffer", "thread_ids", "producers", "pcvs", "queue">>
BlockNames == {BlockOrder[k] : k \in 1 .. 5}

Obj(kind) == <<kind, 0>>
Pcv(i) == <<"pcv", i>>
Pcvs(k) == {Pcv(i) : i \in 0 .. k - 1}

Resources == {Obj(b) : b \in BlockNames \cup {"self", "cv", "mutex"}}
             \cup Pcvs(NMaxProducers)

(* mpsc_create_params_t (mpsc.h): the callbacks are present or NULL.       *)
Params == [consumer_callback : BOOLEAN, consumer_error_callback : BOOLEAN,
           n_max_producers : 0 .. NMaxProducers, error_handling_enabled : BOOLEAN]

FailureTypes == {"NONE", "COND_VAR_INIT", "MUTEX_INIT", "THREAD_CREATE"}
Errnos == {"none", "ENOMEM", "EAGAIN"}

VARIABLES
    params,         \* the argument of mpsc_create
    pc,             \* the next step of mpsc_create, or how it ended
    selfp,          \* self: "unset", "null" or "set"
    field,          \* each array field of self: "garbage", "null" or "set"
    held,           \* resources acquired and not released
    cvi,            \* the index of the producer condition-variable loop
    ftype, fidx,    \* the arguments passed to mpsc_handle_creation_failure
    errno,
    bad_free,       \* blocks passed to free that were never allocated
    bad_destroy     \* objects destroyed that were never initialised

vars == <<params, pc, selfp, field, held, cvi, ftype, fidx, errno, bad_free,
          bad_destroy>>

-----------------------------------------------------------------------------
(* The codes each call can fail with: malloc returns NULL leaving errno    *)
(* ENOMEM or, as ISO C does not say it sets errno, another value;          *)
(* pthread_cond_init and pthread_mutex_init return ENOMEM, EAGAIN or a    *)
(* code such as EBUSY or EPERM; pthread_create EAGAIN, EINVAL or EPERM.   *)
(* "EOTHER" stands for every code other than ENOMEM and EAGAIN.           *)
MallocCodes == {"ENOMEM", "EOTHER"}
CondInitCodes == {"ENOMEM", "EAGAIN", "EOTHER"}
MutexInitCodes == {"ENOMEM", "EAGAIN", "EOTHER"}
ThreadCreateCodes == {"EAGAIN", "EOTHER"}

(* The codes each wrapper hands back to its caller when error handling is *)
(* enabled, leaving them in errno; on any other code it aborts:           *)
(* my_malloc (784-802) ENOMEM, my_condition_variable_init (729-748)       *)
(* ENOMEM or EAGAIN, my_mutex_init (695-714) ENOMEM only, my_thread_create *)
(* (763-782) EAGAIN.                                                       *)
MallocFailure == {"ENOMEM"}
CondInitFailure == {"ENOMEM", "EAGAIN"}
MutexInitFailure == {"ENOMEM"}
ThreadCreateFailure == {"EAGAIN"}
\* The loop test of line 165 written with <=.
MoreProducerCvs_OffByOne == cvi + 1 <= params.n_max_producers

\* Plausible bugs in the rollback.
DestroyedSync_MutexCaseNoCv(t, i) ==
    CASE t = "THREAD_CREATE" -> {Obj("mutex"), Obj("cv")} \cup Pcvs(params.n_max_producers)
      [] t = "MUTEX_INIT"    -> Pcvs(params.n_max_producers)
      [] t = "COND_VAR_INIT" -> IF i = -1 THEN {} ELSE {Obj("cv")} \cup Pcvs(i)
      [] t = "NONE"          -> {}
DestroyedSync_OffByOne(t, i) ==
    CASE t = "THREAD_CREATE" -> {Obj("mutex"), Obj("cv")} \cup Pcvs(params.n_max_producers)
      [] t = "MUTEX_INIT"    -> {Obj("cv")} \cup Pcvs(params.n_max_producers)
      [] t = "COND_VAR_INIT" -> IF i = -1 THEN {} ELSE {Obj("cv")} \cup Pcvs(i + 1)
      [] t = "NONE"          -> {}

-----------------------------------------------------------------------------
(* Every combination of parameters a caller can pass.                      *)
Init ==
    /\ params \in Params
    /\ pc = "validate"
    /\ selfp = "unset"
    /\ field = [b \in BlockNames |-> "garbage"]
    /\ held = {}
    /\ cvi = 0
    /\ ftype = "NONE"
    /\ fidx = -1
    /\ errno = "none"
    /\ bad_free = {}
    /\ bad_destroy = {}

(* mpsc_create_params_validate: abort on a NULL consumer callback, on a    *)
(* NULL error callback when error handling is enabled, and on              *)
(* n_max_producers = 0.                                                    *)
ParamsValid ==
    /\ params.consumer_callback
    /\ params.error_handling_enabled => params.consumer_error_callback
    /\ params.n_max_producers # 0

mpsc_create_params_validate ==
    /\ pc = "validate"
    /\ pc' = IF ParamsValid THEN "self" ELSE "aborted"
    /\ UNCHANGED <<params, selfp, field, held, cvi, ftype, fidx, errno,
                   bad_free, bad_destroy>>

(* One call of a wrapper: Ok is the caller's step on success.  The call   *)
(* fails with one of codes; the wrapper aborts unless error handling is   *)
(* enabled and the code is one of failures, which it leaves in errno, and *)
(* the caller then passes type t and index i to the rollback.             *)
Call(codes, failures, Ok, Failed, t, i) ==
    \/ Ok /\ UNCHANGED <<errno, ftype, fidx, bad_free, bad_destroy, params>>
    \/ /\ \E c \in codes : ~(params.error_handling_enabled /\ c \in failures)
       /\ pc' = "aborted"
       /\ UNCHANGED <<params, selfp, field, held, cvi, ftype, fidx, errno,
                      bad_free, bad_destroy>>
    \/ /\ params.error_handling_enabled
       /\ \E e \in codes \cap failures : errno' = e
       /\ Failed
       /\ ftype' = t
       /\ fidx' = i
       /\ pc' = "rollback"
       /\ UNCHANGED <<params, bad_free, bad_destroy>>

(* The malloc of self; its fields are uninitialised.                       *)
MallocSelf ==
    /\ pc = "self"
    /\ Call(MallocCodes, MallocFailure,
            /\ selfp' = "set"
            /\ held' = {Obj("self")}
            /\ pc' = "buffer"
            /\ UNCHANGED <<field, cvi>>,
            selfp' = "null" /\ UNCHANGED <<field, held, cvi>>,
            "NONE", -1)

(* The malloc of the k-th array; its result is stored in the field.        *)
MallocBlock(k) ==
    /\ pc = BlockOrder[k]
    /\ Call(MallocCodes, MallocFailure,
            /\ field' = [field EXCEPT ![BlockOrder[k]] = "set"]
            /\ held' = held \cup {Obj(BlockOrder[k])}
            /\ pc' = IF k = 5 THEN "cv" ELSE BlockOrder[k + 1]
            /\ UNCHANGED <<selfp, cvi>>,
            field' = [field EXCEPT ![BlockOrder[k]] = "null"]
              /\ UNCHANGED <<selfp, held, cvi>>,
            "NONE", -1)

(* The consumer's condition variable (line 161).                           *)
CondInitMain ==
    /\ pc = "cv"
    /\ Call(CondInitCodes, CondInitFailure,
            held' = held \cup {Obj("cv")} /\ pc' = "pcv" /\ cvi' = 0
              /\ UNCHANGED <<selfp, field>>,
            UNCHANGED <<selfp, field, held, cvi>>,
            "COND_VAR_INIT", -1)

(* The test of the loop at line 165, after round cvi.                      *)
MoreProducerCvs == cvi + 1 < params.n_max_producers

(* One round of the loop over the producers' condition variables.          *)
CondInitProducer ==
    /\ pc = "pcv"
    /\ Call(CondInitCodes, CondInitFailure,
            /\ held' = held \cup {Pcv(cvi)}
            /\ cvi' = cvi + 1
            /\ pc' = IF MoreProducerCvs THEN "pcv" ELSE "mutex"
            /\ UNCHANGED <<selfp, field>>,
            UNCHANGED <<selfp, field, held, cvi>>,
            "COND_VAR_INIT", cvi)

MutexInit ==
    /\ pc = "mutex"
    /\ Call(MutexInitCodes, MutexInitFailure,
            held' = held \cup {Obj("mutex")} /\ pc' = "thread"
              /\ UNCHANGED <<selfp, field, cvi>>,
            UNCHANGED <<selfp, field, held, cvi>>,
            "MUTEX_INIT", -1)

(* The consumer thread; on success mpsc_create returns self.               *)
ThreadCreate ==
    /\ pc = "thread"
    /\ Call(ThreadCreateCodes, ThreadCreateFailure,
            pc' = "created" /\ UNCHANGED <<selfp, field, held, cvi>>,
            UNCHANGED <<selfp, field, held, cvi>>,
            "THREAD_CREATE", -1)

-----------------------------------------------------------------------------
(* The synchronisation objects the switch on type destroys.                *)
DestroyedSync(t, i) ==
    CASE t = "THREAD_CREATE" -> {Obj("mutex"), Obj("cv")} \cup Pcvs(params.n_max_producers)
      [] t = "MUTEX_INIT"    -> {Obj("cv")} \cup Pcvs(params.n_max_producers)
      [] t = "COND_VAR_INIT" -> IF i = -1 THEN {} ELSE {Obj("cv")} \cup Pcvs(i)
      [] t = "NONE"          -> {}

(* Release D and F: what was not held is a wrong destroy or free.          *)
Release(D, F) ==
    /\ held' = held \ (D \cup F)
    /\ bad_destroy' = bad_destroy \cup (D \ held)
    /\ bad_free' = bad_free \cup (F \ held)

(* mpsc_handle_creation_failure: destroy by type, free every field that  *)
(* tests non-NULL, free self, restore errno and return NULL.  With self    *)
(* NULL the first field test dereferences NULL.  A garbage field tests     *)
(* non-NULL or not.  The switch on errno (lines 455-469) aborts on codes   *)
(* other than ENOMEM and EAGAIN; a wrapper hands back only those two, so   *)
(* its default is not a step here.                                         *)
mpsc_handle_creation_failure ==
    /\ pc = "rollback"
    /\ \/ selfp = "null" /\ pc' = "crashed"
          /\ UNCHANGED <<held, bad_free, bad_destroy>>
       \/ /\ selfp = "set"
          /\ \E G \in SUBSET {b \in BlockNames : field[b] = "garbage"} :
                Release(DestroyedSync(ftype, fidx),
                        {Obj(b) : b \in {c \in BlockNames : field[c] = "set"} \cup G}
                          \cup {Obj("self")})
          /\ pc' = "null"
    /\ UNCHANGED <<params, selfp, field, cvi, ftype, fidx, errno>>

(* mpsc_destroy, at the end of mpsc_join: destroy the mutex and every      *)
(* condition variable, free the arrays and self.                           *)
mpsc_destroy ==
    /\ pc = "created"
    /\ Release({Obj("mutex"), Obj("cv")} \cup Pcvs(params.n_max_producers),
               {Obj(b) : b \in BlockNames \cup {"self"}})
    /\ pc' = "destroyed"
    /\ UNCHANGED <<params, selfp, field, cvi, ftype, fidx, errno>>

Next ==
    \/ mpsc_create_params_validate
    \/ MallocSelf
    \/ \E k \in 1 .. 5 : MallocBlock(k)
    \/ CondInitMain
    \/ CondInitProducer
    \/ MutexInit
    \/ ThreadCreate
    \/ mpsc_handle_creation_failure
    \/ mpsc_destroy

Spec == Init /\ [][Next]_vars

(* The caller's thread runs mpsc_create to its end.                        *)
FairSpec == Spec /\ WF_vars(Next)

-----------------------------------------------------------------------------
Ends == {"null", "destroyed", "aborted", "crashed"}

TypeOK ==
    /\ params \in Params
    /\ pc \in {"validate", "self", "cv", "pcv", "mutex", "thread", "rollback",
               "created"} \cup BlockNames \cup Ends
    /\ selfp \in {"unset", "null", "set"}
    /\ field \in [BlockNames -> {"garbage", "null", "set"}]
    /\ held \subseteq Resources
    /\ cvi \in 0 .. NMaxProducers
    /\ ftype \in FailureTypes
    /\ fidx \in -1 .. NMaxProducers - 1
    /\ errno \in Errnos
    /\ bad_free \subseteq Resources
    /\ bad_destroy \subseteq Resources

\* Whichever call of mpsc_create fails, the rollback destroys exactly the
\* mutex and condition variables that were initialised and frees every
\* block that was allocated; mpsc_destroy does the same for a created
\* channel.  Nothing is left held when NULL is returned or the channel is
\* destroyed, and no object is destroyed that was never initialised.
ReleasesExactlyWhatItHolds ==
    pc \in {"null", "destroyed"} => held = {} /\ bad_destroy = {}

\* The rollback frees only blocks that were allocated: free is never
\* called on an uninitialised field of self.
NoInvalidFree == bad_free = {}

\* A failed malloc of self is reported by returning NULL, not by a crash
\* in the rollback.
NullSelfNotDereferenced == pc # "crashed"

=============================================================================
