--------------------------- MODULE CraftGateProofs ---------------------------
(* Proofs about CraftGate: its invariants hold for any number of threads,
   entries, steps, rows and validations.                                   *)
EXTENDS CraftGate, TLAPS

USE DEF Steps, Deployments, ValidationIds, NoRow, NoId

-----------------------------------------------------------------------------
(* Type correctness *)

(* What Idle, the start of every request, looks like.                      *)
LEMMA IdleType ==
    /\ Idle \in ThreadStates
    /\ EmptySnapshot \in Snapshots
    /\ Idle = [pc |-> "idle", row |-> NoRow, snap |-> EmptySnapshot,
               step |-> 1, config |-> Unset, id |-> NoId, code |-> NoHcl]
    /\ 1 \in Steps
BY GateAssumption DEF Idle, Hcl, ThreadStates, BusyStates, EmptySnapshot, Snapshots

(* A request that is under way stays one when it goes on.                  *)
LEMMA AdvanceType ==
    ASSUME NEW st \in ThreadStates, st.pc # "idle", NEW snap \in Snapshots,
           NEW pc \in {"save_refresh", "save_write", "deploy_upload",
                      "deploy_commit", "deploy_spawn"}
    PROVE  /\ [st EXCEPT !.pc = pc] \in ThreadStates
           /\ [st EXCEPT !.pc = pc, !.snap = snap] \in ThreadStates
           /\ st.row \in Deployments
<1>1. st \in BusyStates
      BY IdleType DEF ThreadStates
<1>2. /\ [st EXCEPT !.pc = pc] \in BusyStates
      /\ [st EXCEPT !.pc = pc, !.snap = snap] \in BusyStates
      /\ st.row \in Deployments
      BY <1>1 DEF BusyStates
<1> QED BY <1>2 DEF ThreadStates

(* Marking a row of which two requests have met.                           *)
LEMMA MarkType ==
    ASSUME TypeOK, NEW d \in Deployments, NEW others
    PROVE  /\ [raced EXCEPT !.saves = @ \cup Met(d, others)]
                  = [saves |-> raced.saves \cup Met(d, others),
                     validations |-> raced.validations]
           /\ [raced EXCEPT !.validations = @ \cup Met(d, others)]
                  = [saves |-> raced.saves,
                     validations |-> raced.validations \cup Met(d, others)]
           /\ raced.saves \cup Met(d, others) \in SUBSET Deployments
           /\ raced.validations \cup Met(d, others) \in SUBSET Deployments
<1>1. raced \in [saves : SUBSET Deployments, validations : SUBSET Deployments]
      BY DEF TypeOK
<1> QED BY <1>1 DEF Met

(* Every step of a wizard or deploy request keeps the shape of the state.  *)
LEMMA TypeInductive == TypeOK /\ [Next]_vars => TypeOK'
<1> SUFFICES ASSUME TypeOK, [Next]_vars PROVE TypeOK'
    OBVIOUS
<1> USE IdleType DEF TypeOK, Statuses, rows, Hcl, Goto, Return, Busy
<1>0. \A t \in Threads : thread[t] \in ThreadStates
      OBVIOUS
<1>1. ASSUME NEW t \in Threads, save_config(t) PROVE TypeOK'
  <2>1. ASSUME NEW d \in Deployments, NEW step \in Steps, NEW config \in Configs,
               SaveRead(t, d, step, config) PROVE TypeOK'
    <3>1. raced' \in [saves : SUBSET Deployments, validations : SUBSET Deployments]
          BY <2>1, MarkType DEF SaveRead
    <3>2. thread' \in [Threads -> ThreadStates]
          BY <2>1 DEF SaveRead, ThreadStates, BusyStates
    <3> QED BY <2>1, <3>1, <3>2 DEF SaveRead
  <2>2. ASSUME NEW d \in Deployments, NEW config \in Configs,
               SaveReadNoDraft(t, d, config) PROVE TypeOK'
        BY <2>2 DEF SaveReadNoDraft, ThreadStates, BusyStates
  <2>3. CASE create_initial_deployment(t)
        BY <2>3, <1>0, AdvanceType DEF create_initial_deployment
  <2>4. CASE SaveRefresh(t)
        BY <2>4, <1>0, AdvanceType DEF SaveRefresh
  <2>5. CASE SaveWrite(t)
        BY <2>5 DEF SaveWrite, Snapshots, ThreadStates, BusyStates
  <2> QED BY <1>1, <2>1, <2>2, <2>3, <2>4, <2>5 DEF save_config
<1>2. ASSUME NEW t \in Threads, validate(t) PROVE TypeOK'
  <2>1. ASSUME NEW d \in Deployments, ValidateRead(t, d) PROVE TypeOK'
    <3>1. raced' \in [saves : SUBSET Deployments, validations : SUBSET Deployments]
          BY <2>1, MarkType DEF ValidateRead
    <3>2. thread' \in [Threads -> ThreadStates]
          BY <2>1 DEF ValidateRead, ThreadStates, BusyStates
    <3> QED BY <2>1, <3>1, <3>2 DEF ValidateRead
  <2>2. ASSUME NEW id \in ValidationIds, ValidatePass(t, id) PROVE TypeOK'
        BY <2>2 DEF ValidatePass, ThreadStates, BusyStates
  <2>3. CASE ValidateManualEdit(t)
        BY <2>3 DEF ValidateManualEdit
  <2>4. CASE ValidateReject(t)
        BY <2>4 DEF ValidateReject
  <2> QED BY <1>2, <2>1, <2>2, <2>3, <2>4 DEF validate
<1>3. ASSUME NEW t \in Threads, deploy(t) PROVE TypeOK'
  <2>1. ASSUME NEW d \in Deployments, NEW id \in ClientIds,
               DeployRead(t, d, id) PROVE TypeOK'
        BY <2>1, ZenonT(60) DEF DeployRead, ClientIds, ThreadStates, BusyStates
  <2>2. CASE DeployCheck(t)
        BY <2>2, <1>0, AdvanceType, ZenonT(60) DEF DeployCheck
  <2>3. CASE DeployUpload(t)
    <3>1. thread[t] \in ThreadStates /\ thread[t].pc # "idle"
          BY <2>3, <1>0 DEF DeployUpload
    <3>2. thread[t] \in BusyStates
          BY <3>1 DEF ThreadStates
    <3>3. thread[t].snap \in Snapshots
          BY <3>2 DEF BusyStates
    <3>4. [thread[t] EXCEPT !.pc = "deploy_commit"] \in ThreadStates
          BY <3>1, AdvanceType
    <3> QED BY <2>3, <3>1, <3>3, <3>4 DEF DeployUpload
  <2>4. CASE DeployUploadFails(t)
        BY <2>4 DEF DeployUploadFails
  <2>5. CASE DeployCommit(t)
        BY <2>5, <1>0, AdvanceType DEF DeployCommit
  <2>6. CASE DeploySpawn(t)
        BY <2>6 DEF DeploySpawn, ThreadStates, BusyStates
  <2>7. CASE DeploySpawnFails(t)
        BY <2>7 DEF DeploySpawnFails
  <2> QED BY <1>3, <2>1, <2>2, <2>3, <2>4, <2>5, <2>6, <2>7 DEF deploy
<1>4. ASSUME NEW d \in Deployments,
             NEW r \in {"completed", "partial_failed", "failed"},
             deployment_complete_callback(d, r) PROVE TypeOK'
      BY <1>4 DEF deployment_complete_callback
<1>5. CASE UNCHANGED vars
      BY <1>5 DEF vars
<1> QED BY <1>1, <1>2, <1>3, <1>4, <1>5 DEF Next

LEMMA InitType == Init => TypeOK
BY IdleType, GateAssumption DEF Init, TypeOK, Statuses, Hcl

(* The state keeps its shape, for every value of the constants.            *)
THEOREM TypeCorrect == Spec => []TypeOK
BY InitType, TypeInductive, PTL DEF Spec

-----------------------------------------------------------------------------
(* StepsArePrefix *)

(* What a save request holds: the snapshot it has read has no holes, and
   the prerequisites of its step were met in it.                           *)
SaveOK(t) ==
    LET me == thread[t] IN
    /\ IsPrefix(me.snap)
    /\ me.pc \in {"save_create", "save_refresh", "save_write"} =>
          me.config \in Configs
    /\ me.pc \in {"save_create", "save_refresh"} => me.step = 1
    /\ me.pc = "save_write" => validate_step_prerequisites(me.step, me.snap)

PrefixInv == StepsArePrefix /\ \A t \in Threads : SaveOK(t)

(* Replacing the entry of a step whose prerequisites are met opens no hole. *)
LEMMA SavedSnapshotIsPrefix ==
    ASSUME NEW snap \in Snapshots, NEW step \in Steps, NEW config \in Configs,
           IsPrefix(snap), validate_step_prerequisites(step, snap)
    PROVE  IsPrefix([snap EXCEPT ![step] = config])
<1> DEFINE new == [snap EXCEPT ![step] = config]
<1>1. /\ new[step] # Unset
      /\ \A s \in Steps \ {step} : new[s] = snap[s]
      BY GateAssumption DEF Snapshots
<1>2. \A e \in 1 .. (step - 1) : snap[e] # Unset
      BY DEF validate_step_prerequisites, completed_steps
<1>3. SUFFICES ASSUME NEW s \in Steps, new[s] # Unset, NEW e \in 1 .. s
               PROVE  new[e] # Unset
      BY DEF IsPrefix
<1>4. e \in Steps
      BY GateAssumption
<1>5. CASE s = step
      BY <1>1, <1>2, <1>4, <1>5
<1>6. CASE s # step
      BY <1>1, <1>3, <1>4, <1>6 DEF IsPrefix
<1> QED BY <1>5, <1>6

LEMMA PrefixInductive == TypeOK /\ PrefixInv /\ [Next]_vars => PrefixInv'
<1> SUFFICES ASSUME TypeOK, PrefixInv, [Next]_vars PROVE PrefixInv'
    OBVIOUS
<1> USE IdleType DEF PrefixInv, StepsArePrefix, SaveOK, Goto, Return, Busy
<1>0. /\ IsPrefix(EmptySnapshot)
      /\ \A snap : validate_step_prerequisites(1, snap)
      BY DEF IsPrefix, EmptySnapshot, validate_step_prerequisites
<1>1. ASSUME NEW t \in Threads, save_config(t) PROVE PrefixInv'
  <2>1. ASSUME NEW d \in Deployments, NEW step \in Steps, NEW config \in Configs,
               SaveRead(t, d, step, config) PROVE PrefixInv'
        BY <2>1, <1>0 DEF SaveRead, rows, TypeOK
  <2>2. ASSUME NEW d \in Deployments, NEW config \in Configs,
               SaveReadNoDraft(t, d, config) PROVE PrefixInv'
        BY <2>2, <1>0 DEF SaveReadNoDraft, rows, TypeOK
  <2>3. CASE create_initial_deployment(t)
        BY <2>3, <1>0 DEF create_initial_deployment, TypeOK, ThreadStates, BusyStates
  <2>4. CASE SaveRefresh(t)
        BY <2>4, <1>0 DEF SaveRefresh, rows, TypeOK, ThreadStates, BusyStates
  <2>5. CASE SaveWrite(t)
        BY <2>5, <1>0, SavedSnapshotIsPrefix
        DEF SaveWrite, TypeOK, ThreadStates, BusyStates
  <2> QED BY <1>1, <2>1, <2>2, <2>3, <2>4, <2>5 DEF save_config
<1>2. ASSUME NEW t \in Threads, validate(t) PROVE PrefixInv'
  <2>1. ASSUME NEW d \in Deployments, ValidateRead(t, d) PROVE PrefixInv'
        BY <2>1, <1>0 DEF ValidateRead, rows, TypeOK
  <2>2. ASSUME NEW id \in ValidationIds, ValidatePass(t, id) PROVE PrefixInv'
        BY <2>2, <1>0 DEF ValidatePass, TypeOK
  <2>3. CASE ValidateManualEdit(t)
        BY <2>3, <1>0 DEF ValidateManualEdit, TypeOK
  <2>4. CASE ValidateReject(t)
        BY <2>4, <1>0 DEF ValidateReject, rows, TypeOK
  <2> QED BY <1>2, <2>1, <2>2, <2>3, <2>4 DEF validate
<1>3. ASSUME NEW t \in Threads, deploy(t) PROVE PrefixInv'
  <2>1. ASSUME NEW d \in Deployments, NEW id \in ClientIds,
               DeployRead(t, d, id) PROVE PrefixInv'
        BY <2>1, <1>0 DEF DeployRead, rows, TypeOK
  <2>2. CASE DeployCheck(t)
    <3>1. CASE Goto(t, [thread[t] EXCEPT !.pc = "deploy_upload"])
          BY <2>2, <3>1, <1>0
          DEF DeployCheck, rows, TypeOK, ThreadStates, BusyStates
    <3>2. CASE Return(t)
          BY <2>2, <3>2, <1>0 DEF DeployCheck, rows, TypeOK
    <3> QED BY <2>2, <3>1, <3>2 DEF DeployCheck
  <2>3. CASE DeployUpload(t)
        BY <2>3, <1>0 DEF DeployUpload, rows, TypeOK, ThreadStates, BusyStates
  <2>4. CASE DeployUploadFails(t)
        BY <2>4, <1>0 DEF DeployUploadFails, rows, TypeOK
  <2>5. CASE DeployCommit(t)
        BY <2>5, <1>0 DEF DeployCommit, TypeOK, ThreadStates, BusyStates
  <2>6. CASE DeploySpawn(t)
        BY <2>6, <1>0 DEF DeploySpawn, rows, TypeOK
  <2>7. CASE DeploySpawnFails(t)
        BY <2>7, <1>0 DEF DeploySpawnFails, TypeOK
  <2> QED BY <1>3, <2>1, <2>2, <2>3, <2>4, <2>5, <2>6, <2>7 DEF deploy
<1>4. ASSUME NEW d \in Deployments,
             NEW r \in {"completed", "partial_failed", "failed"},
             deployment_complete_callback(d, r) PROVE PrefixInv'
      BY <1>4 DEF deployment_complete_callback
<1>5. CASE UNCHANGED vars
      BY <1>5 DEF vars
<1> QED BY <1>1, <1>2, <1>3, <1>4, <1>5 DEF Next

(* However many requests save steps at once, no snapshot has a hole: a later
   wizard step is never stored without all the earlier ones.               *)
THEOREM SnapshotsHaveNoHoles == Spec => []StepsArePrefix
<1>1. Init => PrefixInv
      BY IdleType, GateAssumption
      DEF Init, PrefixInv, StepsArePrefix, SaveOK, IsPrefix, EmptySnapshot
<1>2. PrefixInv => StepsArePrefix
      BY DEF PrefixInv
<1> QED BY <1>1, <1>2, TypeCorrect, PrefixInductive, PTL DEF Spec

-----------------------------------------------------------------------------
(* IdNamesTheCode *)

(* What a validation has loaded is still the row's code, as long as no other
   one has run beside it; and code, once stored, does not vanish.           *)
LoadedOK(t) ==
    LET me == thread[t] IN
    me.pc = "validating" =>
        /\ me.code # NoHcl => terraform_code[me.row] # NoHcl
        /\ me.row \notin raced.validations => me.code = terraform_code[me.row]

(* The first two of a row's validations to meet have marked the row.       *)
MeetingsAreMarked ==
    \A s, t \in Threads :
        s # t /\ thread[s].row = thread[t].row /\ Busy(s, "validating") /\ Busy(t, "validating")
            => thread[t].row \in raced.validations

IdInv == IdNamesTheCode /\ MeetingsAreMarked /\ \A t \in Threads : LoadedOK(t)

(* Steps that leave the validations and what they write alone: they put no
   thread into a validation and change neither column.                     *)
LEMMA OthersKeepIds ==
    ASSUME IdInv, NEW t \in Threads, thread'[t].pc # "validating",
           \A e \in Threads \ {t} : thread'[e] = thread[e],
           raced'.validations = raced.validations,
           UNCHANGED <<validation_id, terraform_code, scans>>
    PROVE  IdInv'
<1>1. IdNamesTheCode' /\ MeetingsAreMarked'
      BY DEF IdInv, IdNamesTheCode, MeetingsAreMarked, Busy
<1>2. \A e \in Threads : LoadedOK(e)'
      BY DEF IdInv, LoadedOK
<1> QED BY <1>1, <1>2 DEF IdInv

LEMMA SaveKeepsIds ==
    ASSUME TypeOK, IdInv, NEW t \in Threads, save_config(t) PROVE IdInv'
<1>1. /\ thread'[t].pc # "validating"
      /\ \A e \in Threads \ {t} : thread'[e] = thread[e]
  <2> USE IdleType DEF TypeOK, Goto, Return, Busy, ThreadStates, BusyStates
  <2>1. CASE create_initial_deployment(t)
        BY <2>1 DEF create_initial_deployment
  <2>2. CASE SaveRefresh(t)
        BY <2>2 DEF SaveRefresh
  <2>3. ASSUME NEW d \in Deployments, NEW step \in Steps, NEW config \in Configs,
               SaveRead(t, d, step, config) \/ SaveReadNoDraft(t, d, config)
        PROVE  /\ thread'[t].pc # "validating"
               /\ \A e \in Threads \ {t} : thread'[e] = thread[e]
    <3>1. CASE SaveRead(t, d, step, config)
      <4> DEFINE st == [Idle EXCEPT !.pc = "save_write", !.row = d,
                                    !.snap = config_snapshot[d],
                                    !.step = step, !.config = config]
      <4>1. thread' = [thread EXCEPT ![t] = st]
            BY <3>1 DEF SaveRead
      <4>2. st.pc = "save_write"
            BY IdleType
      <4> HIDE DEF st
      <4> QED BY <4>1, <4>2
    <3>2. CASE SaveReadNoDraft(t, d, config)
          BY <3>2 DEF SaveReadNoDraft
    <3> QED BY <2>3, <3>1, <3>2
  <2>4. CASE SaveWrite(t)
        BY <2>4 DEF SaveWrite
  <2> QED BY <2>1, <2>2, <2>3, <2>4 DEF save_config
<1>2. raced'.validations = raced.validations
      BY DEF TypeOK, save_config, SaveRead, SaveReadNoDraft, create_initial_deployment,
             SaveRefresh, SaveWrite
<1>3. UNCHANGED <<validation_id, terraform_code, scans>>
      BY DEF save_config, SaveRead, SaveReadNoDraft, create_initial_deployment,
             SaveRefresh, SaveWrite, rows
<1> QED BY <1>1, <1>2, <1>3, OthersKeepIds

(* A validation begins: it loads the code, and marks the row if another one
   is at work on it.                                                       *)
LEMMA ValidateReadKeepsIds ==
    ASSUME TypeOK, IdInv, NEW t \in Threads, NEW d \in Deployments, ValidateRead(t, d)
    PROVE  IdInv'
<1>1. /\ thread[t].pc = "idle" /\ UNCHANGED <<validation_id, terraform_code, scans>>
      /\ thread'[t].pc = "validating" /\ thread'[t].row = d
      /\ thread'[t].code = terraform_code[d]
      /\ \A e \in Threads \ {t} : thread'[e] = thread[e]
      BY IdleType DEF ValidateRead, Busy, Goto, TypeOK, rows
<1>2. raced'.validations = raced.validations \cup Met(d, Validations(d))
      BY DEF ValidateRead, TypeOK
<1>3. raced.validations \subseteq raced'.validations
      BY <1>2
<1>4. ASSUME NEW s \in Threads \ {t}, thread[s].pc = "validating", thread[s].row = d
      PROVE  d \in raced'.validations
      BY <1>2, <1>4 DEF Validations, Met
<1>5. IdNamesTheCode'
      BY <1>1, <1>3 DEF IdInv, IdNamesTheCode
<1>6. MeetingsAreMarked'
      BY <1>1, <1>3, <1>4 DEF IdInv, MeetingsAreMarked, Busy
<1>7. \A e \in Threads : LoadedOK(e)'
      BY <1>1, <1>3 DEF IdInv, LoadedOK
<1> QED BY <1>5, <1>6, <1>7 DEF IdInv

(* A validation passes.  If it stores no code, the row had that code when it
   was loaded, and has it still unless another validation ran beside it.   *)
LEMMA ValidatePassKeepsIds ==
    ASSUME TypeOK, IdInv, NEW t \in Threads, NEW id \in ValidationIds, ValidatePass(t, id)
    PROVE  IdInv'
<1> DEFINE me == thread[t]
           d  == me.row
           new == [id |-> id, row |-> d, hcl |-> me.snap]
<1>1. /\ me.pc = "validating" /\ raced' = raced
      /\ validation_id' = [validation_id EXCEPT ![d] = id]
      /\ scans' = scans \cup {new}
      /\ thread' = [thread EXCEPT ![t] = Idle]
      BY DEF ValidatePass, Busy, Return, Goto
<1>2. me \in BusyStates /\ d \in Deployments /\ me.snap \in Snapshots /\ me.snap # NoHcl
      BY <1>1, IdleType, GateAssumption DEF TypeOK, ThreadStates, BusyStates
<1>3. /\ terraform_code'[d] = IF me.snap = me.code THEN terraform_code[d] ELSE me.snap
      /\ \A e \in Deployments \ {d} : terraform_code'[e] = terraform_code[e]
      BY <1>2 DEF ValidatePass, TypeOK
<1>4. /\ validation_id'[d] = id
      /\ \A e \in Deployments \ {d} : validation_id'[e] = validation_id[e]
      BY <1>1, <1>2 DEF TypeOK
<1>5. terraform_code'[d] # NoHcl
      BY <1>1, <1>2, <1>3 DEF IdInv, LoadedOK
<1>6. d \notin raced.validations => terraform_code'[d] = me.snap
      BY <1>1, <1>3 DEF IdInv, LoadedOK
<1>7. new \in scans' /\ new.id = id /\ new.row = d /\ new.hcl = me.snap
      BY <1>1
<1>8. IdNamesTheCode'
  <2> SUFFICES ASSUME NEW e \in Deployments
               PROVE  /\ terraform_code'[e] # NoHcl =>
                            \E s \in scans' : s.row = e /\ s.hcl = terraform_code'[e]
                      /\ validation_id'[e] # NoId =>
                            \E s \in scans' :
                               /\ s.row = e /\ s.id = validation_id'[e]
                               /\ s.hcl = terraform_code'[e] \/ e \in raced'.validations
      BY DEF IdNamesTheCode
  <2>1. CASE e # d
        BY <1>1, <1>3, <1>4, <2>1 DEF IdInv, IdNamesTheCode
  <2>2. CASE e = d
    <3>1. \E s \in scans' : s.row = e /\ s.hcl = terraform_code'[e]
      <4>1. CASE me.snap = me.code
        <5>1. terraform_code'[d] = terraform_code[d] /\ terraform_code[d] # NoHcl
              BY <1>3, <1>5, <4>1
        <5>2. PICK s \in scans : s.row = d /\ s.hcl = terraform_code[d]
              BY <1>2, <5>1 DEF IdInv, IdNamesTheCode
        <5> QED BY <1>1, <2>2, <5>1, <5>2
      <4>2. CASE me.snap # me.code
            BY <1>3, <1>7, <2>2, <4>2
      <4> QED BY <4>1, <4>2
    <3>2. new.hcl = terraform_code'[e] \/ e \in raced'.validations
          BY <1>1, <1>6, <2>2
    <3>3. new.row = e /\ new.id = validation_id'[e]
          BY <1>4, <2>2
    <3> QED BY <1>7, <3>1, <3>2, <3>3
  <2> QED BY <2>1, <2>2
<1>9. MeetingsAreMarked'
      BY <1>1, IdleType DEF IdInv, MeetingsAreMarked, Busy, TypeOK
<1>10. \A e \in Threads : LoadedOK(e)'
  <2> SUFFICES ASSUME NEW e \in Threads, thread'[e].pc = "validating" PROVE LoadedOK(e)'
      BY DEF LoadedOK
  <2>1. e # t /\ thread'[e] = thread[e]
        BY <1>1, IdleType DEF TypeOK
  <2>2. thread[e].row \in Deployments
        BY <2>1, IdleType DEF TypeOK, ThreadStates, BusyStates
  <2>3. CASE thread[e].row = d
        BY <1>1, <1>5, <2>1, <2>3 DEF IdInv, LoadedOK, MeetingsAreMarked, Busy
  <2>4. CASE thread[e].row # d
        BY <1>1, <1>3, <2>1, <2>2, <2>4 DEF IdInv, LoadedOK
  <2> QED BY <2>3, <2>4
<1> QED BY <1>8, <1>9, <1>10 DEF IdInv

LEMMA IdInductive == TypeOK /\ IdInv /\ [Next]_vars => IdInv'
<1> SUFFICES ASSUME TypeOK, IdInv, [Next]_vars PROVE IdInv'
    OBVIOUS
<1> USE IdleType DEF Goto, Return, Busy, rows
<1>1. ASSUME NEW t \in Threads, save_config(t) PROVE IdInv'
      BY <1>1, SaveKeepsIds
<1>2. ASSUME NEW t \in Threads, validate(t) PROVE IdInv'
  <2>1. ASSUME NEW d \in Deployments, ValidateRead(t, d) PROVE IdInv'
        BY <2>1, ValidateReadKeepsIds
  <2>2. ASSUME NEW id \in ValidationIds, ValidatePass(t, id) PROVE IdInv'
        BY <2>2, ValidatePassKeepsIds
  <2>3. CASE ValidateManualEdit(t)
        BY <2>3 DEF ValidateManualEdit, TypeOK, IdInv, IdNamesTheCode,
                    MeetingsAreMarked, Busy, LoadedOK
  <2>4. CASE ValidateReject(t)
    <3>1. /\ thread'[t].pc # "validating"
          /\ \A e \in Threads \ {t} : thread'[e] = thread[e]
          /\ UNCHANGED <<validation_id, terraform_code, scans, raced>>
          BY <2>4 DEF ValidateReject, TypeOK
    <3> QED BY <3>1, OthersKeepIds
  <2> QED BY <1>2, <2>1, <2>2, <2>3, <2>4 DEF validate
<1>3. ASSUME NEW t \in Threads, deploy(t) PROVE IdInv'
  <2>1. /\ thread'[t].pc # "validating"
        /\ \A e \in Threads \ {t} : thread'[e] = thread[e]
    <3> USE DEF TypeOK, ThreadStates, BusyStates
    <3>1. CASE DeployCheck(t)
          BY <3>1 DEF DeployCheck
    <3>2. CASE DeployUpload(t) \/ DeployCommit(t)
          BY <3>2 DEF DeployUpload, DeployCommit
    <3>3. ASSUME NEW d \in Deployments, NEW id \in ClientIds, DeployRead(t, d, id)
          PROVE  /\ thread'[t].pc # "validating"
                 /\ \A e \in Threads \ {t} : thread'[e] = thread[e]
          BY <3>3 DEF DeployRead
    <3>4. CASE DeployUploadFails(t) \/ DeploySpawn(t) \/ DeploySpawnFails(t)
          BY <3>4 DEF DeployUploadFails, DeploySpawn, DeploySpawnFails
    <3> QED BY <1>3, <3>1, <3>2, <3>3, <3>4 DEF deploy
  <2>2. UNCHANGED <<validation_id, terraform_code, scans, raced>>
        BY <1>3 DEF deploy, DeployRead, DeployCheck, DeployUpload, DeployUploadFails,
                    DeployCommit, DeploySpawn, DeploySpawnFails
  <2> QED BY <2>1, <2>2, OthersKeepIds
<1>4. ASSUME NEW d \in Deployments,
             NEW r \in {"completed", "partial_failed", "failed"},
             deployment_complete_callback(d, r) PROVE IdInv'
      BY <1>4 DEF deployment_complete_callback, IdInv, IdNamesTheCode,
                  MeetingsAreMarked, Busy, LoadedOK
<1>5. CASE UNCHANGED vars
      BY <1>5 DEF vars, IdInv, IdNamesTheCode, MeetingsAreMarked, Busy, LoadedOK
<1> QED BY <1>1, <1>2, <1>3, <1>4, <1>5 DEF Next

(* The stored code and the stored id are always those of validations of the
   row that passed, and of one and the same unless validations of the row
   overlapped.  IdInv is needed because a validation that finds its HCL in
   the row already leaves the code to whoever has written it since.        *)
THEOREM StoredIdNamesStoredCode == Spec => []IdNamesTheCode
<1>1. Init => IdInv
  <2> SUFFICES ASSUME Init PROVE IdInv
      OBVIOUS
  <2>1. \A t \in Threads : thread[t].pc = "idle"
    <3>1. thread = [t \in Threads |-> Idle]
          BY DEF Init
    <3> QED BY <3>1, IdleType
  <2>2. /\ validation_id = [d \in Deployments |-> NoId]
        /\ terraform_code = [d \in Deployments |-> NoHcl]
        BY DEF Init
  <2> QED BY <2>1, <2>2 DEF IdInv, IdNamesTheCode, MeetingsAreMarked, Busy, LoadedOK
<1>2. IdInv => IdNamesTheCode
      BY DEF IdInv
<1> QED BY <1>1, <1>2, TypeCorrect, IdInductive, PTL DEF Spec

-----------------------------------------------------------------------------
(* DeployedRowWasValidated *)

(* A passing validation of the row has seen all wizard steps.              *)
WasValidated(d) == \E s \in scans : s.row = d /\ AllStepsDone(s.hcl)

(* What validate and deploy requests hold: the loop runs on a complete
   snapshot; a request past the gate works on a row with code, and from the
   commit of its status on the row's main.tf is in S3.                     *)
GateOK(t) ==
    LET me == thread[t] IN
    /\ me.pc = "validating" => AllStepsDone(me.snap)
    /\ Deploying(t) => terraform_code[me.row] # NoHcl
    /\ me.pc \in {"deploy_commit", "deploy_spawn"} => main_tf[me.row] # NoHcl

(* Code is stored by a passing validation only; a task is started, and with
   it a status is owed, only for a row that was uploaded and has code.     *)
RowOK(d) ==
    /\ terraform_code[d] # NoHcl => WasValidated(d)
    /\ tasks[d] > 0 \/ status[d] \notin {"absent", "created"} =>
          main_tf[d] # NoHcl /\ terraform_code[d] # NoHcl

GateInv == (\A t \in Threads : GateOK(t)) /\ (\A d \in Deployments : RowOK(d))

LEMMA GateInductive == TypeOK /\ GateInv /\ [Next]_vars => GateInv'
<1> SUFFICES ASSUME TypeOK, GateInv, [Next]_vars PROVE GateInv'
    OBVIOUS
<1> USE IdleType, GateAssumption
    DEF TypeOK, GateInv, GateOK, RowOK, WasValidated, Deploying, rows,
        ThreadStates, BusyStates, Goto, Return, Busy
<1>1. ASSUME NEW t \in Threads, save_config(t) PROVE GateInv'
  <2>1. ASSUME NEW d \in Deployments, NEW step \in Steps, NEW config \in Configs,
               SaveRead(t, d, step, config) PROVE GateInv'
        BY <2>1 DEF SaveRead
  <2>2. ASSUME NEW d \in Deployments, NEW config \in Configs,
               SaveReadNoDraft(t, d, config) PROVE GateInv'
        BY <2>2 DEF SaveReadNoDraft
  <2>3. CASE create_initial_deployment(t)
        BY <2>3 DEF create_initial_deployment
  <2>4. CASE SaveRefresh(t)
        BY <2>4 DEF SaveRefresh
  <2>5. CASE SaveWrite(t)
        BY <2>5 DEF SaveWrite
  <2> QED BY <1>1, <2>1, <2>2, <2>3, <2>4, <2>5 DEF save_config
<1>2. ASSUME NEW t \in Threads, validate(t) PROVE GateInv'
  <2>1. ASSUME NEW d \in Deployments, ValidateRead(t, d) PROVE GateInv'
        BY <2>1 DEF ValidateRead
  <2>2. ASSUME NEW id \in ValidationIds, ValidatePass(t, id) PROVE GateInv'
    <3>1. /\ thread[t] \in BusyStates
          /\ AllStepsDone(thread[t].snap)
          BY <2>2 DEF ValidatePass
    <3>2. \A e \in Threads : GateOK(e)'
          BY <2>2, <3>1 DEF ValidatePass
    <3>3. \A d \in Deployments : terraform_code'[d] # NoHcl => WasValidated(d)'
      <4>1. SUFFICES ASSUME NEW d \in Deployments, terraform_code'[d] # NoHcl
                     PROVE  WasValidated(d)'
            OBVIOUS
      <4>2. CASE d = thread[t].row
        <5> DEFINE s == [id |-> id, row |-> d, hcl |-> thread[t].snap]
        <5>1. s \in scans' /\ s.row = d /\ AllStepsDone(s.hcl)
              BY <2>2, <3>1, <4>2 DEF ValidatePass
        <5> QED BY <5>1
      <4>3. CASE d # thread[t].row
        <5>1. PICK s \in scans : s.row = d /\ AllStepsDone(s.hcl)
              BY <2>2, <3>1, <4>1, <4>3 DEF ValidatePass
        <5>2. s \in scans'
              BY <2>2 DEF ValidatePass
        <5> QED BY <5>1, <5>2
      <4> QED BY <4>2, <4>3
    <3>4. \A d \in Deployments : terraform_code[d] # NoHcl => terraform_code'[d] # NoHcl
          BY <2>2, <3>1 DEF ValidatePass
    <3>5. UNCHANGED <<status, main_tf, tasks>>
          BY <2>2 DEF ValidatePass
    <3> QED BY <3>2, <3>3, <3>4, <3>5
  <2>3. CASE ValidateManualEdit(t)
        BY <2>3 DEF ValidateManualEdit
  <2>4. CASE ValidateReject(t)
        BY <2>4 DEF ValidateReject
  <2> QED BY <1>2, <2>1, <2>2, <2>3, <2>4 DEF validate
<1>3. ASSUME NEW t \in Threads, deploy(t) PROVE GateInv'
  <2>1. ASSUME NEW d \in Deployments, NEW id \in ClientIds,
               DeployRead(t, d, id) PROVE GateInv'
        BY <2>1 DEF DeployRead
  <2>2. CASE DeployCheck(t)
    <3>1. CASE Goto(t, [thread[t] EXCEPT !.pc = "deploy_upload"])
          BY <2>2, <3>1 DEF DeployCheck
    <3>2. CASE Return(t)
          BY <2>2, <3>2 DEF DeployCheck
    <3> QED BY <2>2, <3>1, <3>2 DEF DeployCheck
  <2>3. CASE DeployUpload(t)
        BY <2>3 DEF DeployUpload
  <2>4. CASE DeployUploadFails(t)
        BY <2>4 DEF DeployUploadFails
  <2>5. CASE DeployCommit(t)
        BY <2>5 DEF DeployCommit
  <2>6. CASE DeploySpawn(t)
        BY <2>6 DEF DeploySpawn
  <2>7. CASE DeploySpawnFails(t)
        BY <2>7 DEF DeploySpawnFails
  <2> QED BY <1>3, <2>1, <2>2, <2>3, <2>4, <2>5, <2>6, <2>7 DEF deploy
<1>4. ASSUME NEW d \in Deployments,
             NEW r \in {"completed", "partial_failed", "failed"},
             deployment_complete_callback(d, r) PROVE GateInv'
      BY <1>4 DEF deployment_complete_callback
<1>5. CASE UNCHANGED vars
      BY <1>5 DEF vars
<1> QED BY <1>1, <1>2, <1>3, <1>4, <1>5 DEF Next

(* No row leaves the draft stage without a main.tf in S3 and a validation
   that passed on the whole wizard, whatever runs concurrently.            *)
THEOREM DeployedRowsWereValidated == Spec => []DeployedRowWasValidated
<1>1. Init => GateInv
      BY IdleType, GateAssumption DEF Init, GateInv, GateOK, RowOK, Deploying
<1>2. GateInv => DeployedRowWasValidated
      BY DEF GateInv, RowOK, WasValidated, DeployedRowWasValidated
<1> QED BY <1>1, <1>2, TypeCorrect, GateInductive, PTL DEF Spec

-----------------------------------------------------------------------------
(* AcceptedIdIsOfThisRow *)

LEMMA AcceptedInductive ==
    TypeOK /\ IdNamesTheCode /\ AcceptedIdIsOfThisRow /\ [Next]_vars
        => AcceptedIdIsOfThisRow'
<1> SUFFICES ASSUME TypeOK, IdNamesTheCode, AcceptedIdIsOfThisRow, [Next]_vars
             PROVE  AcceptedIdIsOfThisRow'
    OBVIOUS
<1> USE IdleType
    DEF TypeOK, AcceptedIdIsOfThisRow, Deploying, rows,
        ThreadStates, BusyStates, Goto, Return, Busy
<1>1. ASSUME NEW t \in Threads, save_config(t) PROVE AcceptedIdIsOfThisRow'
  <2>1. ASSUME NEW d \in Deployments, NEW step \in Steps, NEW config \in Configs,
               SaveRead(t, d, step, config) PROVE AcceptedIdIsOfThisRow'
        BY <2>1 DEF SaveRead
  <2>2. ASSUME NEW d \in Deployments, NEW config \in Configs,
               SaveReadNoDraft(t, d, config) PROVE AcceptedIdIsOfThisRow'
        BY <2>2 DEF SaveReadNoDraft
  <2>3. CASE create_initial_deployment(t)
        BY <2>3 DEF create_initial_deployment
  <2>4. CASE SaveRefresh(t)
        BY <2>4 DEF SaveRefresh
  <2>5. CASE SaveWrite(t)
        BY <2>5 DEF SaveWrite
  <2> QED BY <1>1, <2>1, <2>2, <2>3, <2>4, <2>5 DEF save_config
<1>2. ASSUME NEW t \in Threads, validate(t) PROVE AcceptedIdIsOfThisRow'
  <2>1. ASSUME NEW d \in Deployments, ValidateRead(t, d) PROVE AcceptedIdIsOfThisRow'
        BY <2>1 DEF ValidateRead
  <2>2. ASSUME NEW id \in ValidationIds, ValidatePass(t, id) PROVE AcceptedIdIsOfThisRow'
        BY <2>2 DEF ValidatePass
  <2>3. CASE ValidateManualEdit(t)
        BY <2>3 DEF ValidateManualEdit
  <2>4. CASE ValidateReject(t)
        BY <2>4 DEF ValidateReject
  <2> QED BY <1>2, <2>1, <2>2, <2>3, <2>4 DEF validate
<1>3. ASSUME NEW t \in Threads, deploy(t) PROVE AcceptedIdIsOfThisRow'
  <2>1. ASSUME NEW d \in Deployments, NEW id \in ClientIds,
               DeployRead(t, d, id) PROVE AcceptedIdIsOfThisRow'
    <3>1. id # NoId => \E s \in scans : s.id = id /\ s.row = d
          BY <2>1 DEF DeployRead, IdNamesTheCode
    <3>2. scans' = scans
          BY <2>1 DEF DeployRead
    <3>3. /\ thread'[t].id = id /\ thread'[t].row = d
          /\ \A e \in Threads \ {t} : thread'[e] = thread[e]
          BY <2>1 DEF DeployRead
    <3>4. \A e \in Threads : Deploying(e)' /\ e # t => Deploying(e)
          BY <3>3
    <3> QED BY <3>1, <3>2, <3>3, <3>4
  <2>2. CASE DeployCheck(t)
    <3>1. CASE Goto(t, [thread[t] EXCEPT !.pc = "deploy_upload"])
          BY <2>2, <3>1 DEF DeployCheck
    <3>2. CASE Return(t)
          BY <2>2, <3>2 DEF DeployCheck
    <3> QED BY <2>2, <3>1, <3>2 DEF DeployCheck
  <2>3. CASE DeployUpload(t)
        BY <2>3 DEF DeployUpload
  <2>4. CASE DeployUploadFails(t)
        BY <2>4 DEF DeployUploadFails
  <2>5. CASE DeployCommit(t)
        BY <2>5 DEF DeployCommit
  <2>6. CASE DeploySpawn(t)
        BY <2>6 DEF DeploySpawn
  <2>7. CASE DeploySpawnFails(t)
        BY <2>7 DEF DeploySpawnFails
  <2> QED BY <1>3, <2>1, <2>2, <2>3, <2>4, <2>5, <2>6, <2>7 DEF deploy
<1>4. ASSUME NEW d \in Deployments,
             NEW r \in {"completed", "partial_failed", "failed"},
             deployment_complete_callback(d, r) PROVE AcceptedIdIsOfThisRow'
      BY <1>4 DEF deployment_complete_callback
<1>5. CASE UNCHANGED vars
      BY <1>5 DEF vars
<1> QED BY <1>1, <1>2, <1>3, <1>4, <1>5 DEF Next

(* An id that passes the gate is never that of another draft.              *)
THEOREM AcceptedIdsAreOfTheirRow == Spec => []AcceptedIdIsOfThisRow
<1>1. Init => AcceptedIdIsOfThisRow
      BY IdleType DEF Init, AcceptedIdIsOfThisRow, Deploying
<1> QED BY <1>1, TypeCorrect, StoredIdNamesStoredCode, AcceptedInductive, PTL
        DEF Spec

-----------------------------------------------------------------------------
(* SavesAccumulate and DeployedHclIsComplete                               *)

Saving(t) == thread[t].pc \in {"save_create", "save_refresh", "save_write"}

(* A request works on a row that exists, except the one that is about to
   insert it, and that one is alone; a task's row exists.                  *)
RequestHasRow(t) ==
    LET me == thread[t] IN
    /\ me.pc = "save_create" => status[me.row] = "absent"
    /\ me.pc \notin {"idle", "save_create"} => status[me.row] # "absent"
InsertsAlone ==
    \A s, t \in Threads :
        Busy(s, "save_create") /\ Busy(t, "save_create") /\ thread[s].row = thread[t].row
            => s = t
TasksHaveRows == \A d \in Deployments : tasks[d] > 0 => status[d] # "absent"

RowsExist == (\A t \in Threads : RequestHasRow(t)) /\ InsertsAlone /\ TasksHaveRows

(* The first two of a row's saves to meet have marked the row.             *)
SavesAreMarked ==
    \A s, t \in Threads :
        s # t /\ thread[s].row = thread[t].row /\ Saving(s) /\ Saving(t)
            => thread[t].row \in raced.saves

(* While no two saves of its row have met, a save writes back what the row
   still holds, and what validate and deploy have seen to be complete is
   complete still.                                                         *)
SaveAlone(t) ==
    LET me == thread[t] IN
    me.row \notin raced.saves =>
        /\ me.pc = "save_write" => me.snap = config_snapshot[me.row]
        /\ me.pc = "validating" => AllStepsDone(config_snapshot[me.row])
        /\ me.pc \in {"deploy_check", "deploy_upload"} => AllStepsDone(me.snap)
CodeIsComplete ==
    \A d \in Deployments \ raced.saves :
        terraform_code[d] # NoHcl => AllStepsDone(config_snapshot[d])

SaveInv ==
    /\ RowsExist /\ SavesAreMarked
    /\ \A t \in Threads : SaveAlone(t)
    /\ CodeIsComplete /\ DeployedHclIsComplete

(* The steps that do not begin a save: the thread is done, or stays or starts
   on an existing row without becoming a save.                             *)
Proceeds(t) ==
    /\ \A e \in Threads \ {t} : thread'[e] = thread[e]
    /\ raced'.saves = raced.saves
    /\ \/ thread'[t].pc = "idle"
       \/ /\ thread'[t].pc # "save_create"
          /\ status[thread'[t].row] # "absent"
          /\ Saving(t)' => Saving(t) /\ thread'[t].row = thread[t].row

LEMMA SaveProceeds ==
    ASSUME TypeOK, RowsExist, NEW t \in Threads, SaveRefresh(t) \/ SaveWrite(t)
    PROVE  Proceeds(t)
<1> USE IdleType DEF TypeOK, Goto, Return, Busy, ThreadStates, BusyStates
<1>1. CASE SaveRefresh(t)
      BY <1>1 DEF SaveRefresh, Proceeds, RowsExist, RequestHasRow, Saving
<1>2. CASE SaveWrite(t)
      BY <1>2 DEF SaveWrite, Proceeds
<1> QED BY <1>1, <1>2

LEMMA ValidateProceeds ==
    ASSUME TypeOK, RowsExist, NEW t \in Threads, validate(t) PROVE Proceeds(t)
<1> USE IdleType DEF TypeOK, Goto, Return, Busy
<1>1. ASSUME NEW d \in Deployments, ValidateRead(t, d) PROVE Proceeds(t)
  <2>1. thread'[t].pc = "validating" /\ thread'[t].row = d
        BY <1>1 DEF ValidateRead
  <2>2. \A e \in Threads \ {t} : thread'[e] = thread[e]
        BY <1>1 DEF ValidateRead
  <2>3. raced'.saves = raced.saves
        BY <1>1, MarkType DEF ValidateRead
  <2>4. status[d] # "absent"
        BY <1>1 DEF ValidateRead, LatestDraft, Drafts
  <2> QED BY <2>1, <2>2, <2>3, <2>4 DEF Proceeds, Saving
<1>2. ASSUME NEW id \in ValidationIds, ValidatePass(t, id) PROVE Proceeds(t)
      BY <1>2 DEF ValidatePass, Proceeds
<1>3. CASE ValidateManualEdit(t)
      BY <1>3 DEF ValidateManualEdit, Proceeds
<1>4. CASE ValidateReject(t)
      BY <1>4 DEF ValidateReject, Proceeds
<1> QED BY <1>1, <1>2, <1>3, <1>4 DEF validate

LEMMA DeployProceeds ==
    ASSUME TypeOK, RowsExist, NEW t \in Threads, deploy(t) PROVE Proceeds(t)
<1> USE IdleType DEF TypeOK, Goto, Return, Busy
<1>1. ASSUME NEW d \in Deployments, NEW id \in ClientIds, DeployRead(t, d, id)
      PROVE  Proceeds(t)
  <2>1. thread'[t].pc = "deploy_check" /\ thread'[t].row = d
        BY <1>1 DEF DeployRead
  <2>2. /\ \A e \in Threads \ {t} : thread'[e] = thread[e]
        /\ raced' = raced
        BY <1>1 DEF DeployRead
  <2>3. status[d] # "absent"
        BY <1>1 DEF DeployRead, LatestDraft, Drafts
  <2> QED BY <2>1, <2>2, <2>3 DEF Proceeds, Saving
<1>2. CASE DeployCheck(t)
  <2>1. CASE Goto(t, [thread[t] EXCEPT !.pc = "deploy_upload"])
        BY <1>2, <2>1 DEF DeployCheck, Proceeds, RowsExist, RequestHasRow,
                 Saving, ThreadStates, BusyStates
  <2>2. CASE Return(t)
        BY <1>2, <2>2 DEF DeployCheck, Proceeds
  <2> QED BY <1>2, <2>1, <2>2 DEF DeployCheck
<1>3. CASE DeployUpload(t)
      BY <1>3 DEF DeployUpload, Proceeds, RowsExist, RequestHasRow,
                 Saving, ThreadStates, BusyStates
<1>4. CASE DeployCommit(t)
      BY <1>4 DEF DeployCommit, Proceeds, RowsExist, RequestHasRow,
                 Saving, ThreadStates, BusyStates
<1>5. CASE DeployUploadFails(t) \/ DeploySpawn(t) \/ DeploySpawnFails(t)
      BY <1>5 DEF DeployUploadFails, DeploySpawn, DeploySpawnFails, Proceeds
<1> QED BY <1>1, <1>2, <1>3, <1>4, <1>5 DEF deploy

(* No step but the insertion makes a row appear, and none makes one vanish. *)
LEMMA RowsStay ==
    ASSUME TypeOK, RowsExist, NEW t \in Threads,
           SaveRefresh(t) \/ SaveWrite(t) \/ validate(t) \/ deploy(t)
    PROVE  \A d \in Deployments :
               /\ status'[d] = "absent" <=> status[d] = "absent"
               /\ tasks'[d] > 0 => status[d] # "absent"
<1> USE DEF TypeOK, RowsExist, RequestHasRow, TasksHaveRows, Busy, rows
<1>1. CASE SaveRefresh(t) \/ SaveWrite(t) \/ validate(t)
      BY <1>1 DEF SaveRefresh, SaveWrite, validate, ValidateRead, ValidatePass,
                  ValidateManualEdit, ValidateReject
<1>2. CASE DeployCommit(t)
      BY <1>2 DEF DeployCommit
<1>3. CASE DeploySpawn(t)
      BY <1>3 DEF DeploySpawn
<1>4. CASE DeploySpawnFails(t)
      BY <1>4 DEF DeploySpawnFails
<1>5. CASE ~DeployCommit(t) /\ ~DeploySpawn(t) /\ ~DeploySpawnFails(t) /\ deploy(t)
      BY <1>5 DEF deploy, DeployRead, DeployCheck, DeployUpload, DeployUploadFails
<1> QED BY <1>1, <1>2, <1>3, <1>4, <1>5

LEMMA ProceedingKeepsMeetings ==
    ASSUME RowsExist, SavesAreMarked, NEW t \in Threads, Proceeds(t),
           \A d \in Deployments : /\ status'[d] = "absent" <=> status[d] = "absent"
                                  /\ tasks'[d] > 0 => status[d] # "absent",
           \A e \in Threads : thread[e].pc # "idle" => thread[e].row \in Deployments,
           thread'[t].pc # "idle" => thread'[t].row \in Deployments
    PROVE  RowsExist' /\ SavesAreMarked'
<1>1. ASSUME NEW e \in Threads PROVE RequestHasRow(e)'
  <2>1. CASE e = t
        BY <2>1 DEF Proceeds, RequestHasRow
  <2>2. CASE e # t
        BY <2>2 DEF Proceeds, RequestHasRow, RowsExist
  <2> QED BY <2>1, <2>2
<1>2. InsertsAlone'
      BY DEF Proceeds, RowsExist, InsertsAlone, Busy
<1>3. TasksHaveRows'
      BY DEF RowsExist, TasksHaveRows
<1>4. SavesAreMarked'
      BY DEF Proceeds, SavesAreMarked, Saving
<1> QED BY <1>1, <1>2, <1>3, <1>4 DEF RowsExist

(* A save begins on a row with a draft, or with none: in the first case it
   marks the row if another save of it is under way, in the second there is
   no other, as a row that can be taken next has none.                     *)
LEMMA BeginningKeepsMeetings ==
    ASSUME TypeOK, RowsExist, SavesAreMarked, NEW t \in Threads, NEW d \in Deployments,
           NEW step \in Steps, NEW config \in Configs,
           SaveRead(t, d, step, config) \/ SaveReadNoDraft(t, d, config)
    PROVE  RowsExist' /\ SavesAreMarked'
<1>1. CASE SaveRead(t, d, step, config)
  <2>1. /\ thread'[t].pc = "save_write" /\ thread'[t].row = d
        /\ \A e \in Threads \ {t} : thread'[e] = thread[e]
    <3> DEFINE st == [Idle EXCEPT !.pc = "save_write", !.row = d,
                                  !.snap = config_snapshot[d],
                                  !.step = step, !.config = config]
    <3>1. thread' = [thread EXCEPT ![t] = st]
          BY <1>1 DEF SaveRead, Goto
    <3>2. st.pc = "save_write" /\ st.row = d
          BY IdleType
    <3> HIDE DEF st
    <3> QED BY <3>1, <3>2 DEF TypeOK
  <2>2. UNCHANGED <<status, tasks>> /\ status[d] = "created"
        BY <1>1 DEF SaveRead, LatestDraft, Drafts, rows
  <2>3. raced'.saves = raced.saves \cup Met(d, Saves(d))
        BY <1>1, MarkType DEF SaveRead
  <2>4. ASSUME NEW e \in Threads \ {t}, Saving(e), thread[e].row = d
        PROVE  d \in raced'.saves
        BY <2>3, <2>4 DEF Saves, Saving, Met
  <2>5. RowsExist'
    <3>1. \A e \in Threads : RequestHasRow(e)'
          BY <2>1, <2>2 DEF RowsExist, RequestHasRow
    <3>2. InsertsAlone'
          BY <2>1 DEF RowsExist, InsertsAlone, Busy
    <3>3. TasksHaveRows'
          BY <2>2 DEF RowsExist, TasksHaveRows
    <3> QED BY <3>1, <3>2, <3>3 DEF RowsExist
  <2>6. raced.saves \subseteq raced'.saves
        BY <2>3
  <2>7. SavesAreMarked'
        BY <2>1, <2>4, <2>6 DEF SavesAreMarked, Saving
  <2> QED BY <2>5, <2>7
<1>2. CASE SaveReadNoDraft(t, d, config)
  <2>1. /\ thread'[t].pc = "save_create" /\ thread'[t].row = d
        /\ \A e \in Threads \ {t} : thread'[e] = thread[e]
        BY <1>2, IdleType DEF SaveReadNoDraft, Goto, TypeOK
  <2>2. UNCHANGED <<status, tasks, raced>>
        BY <1>2 DEF SaveReadNoDraft, rows
  <2>3. /\ status[d] = "absent"
        /\ \A e \in Threads : thread[e].pc = "save_create" => thread[e].row # d
        BY <1>2 DEF SaveReadNoDraft, NextRow, Taken, Busy
  <2>4. \A e \in Threads : Saving(e) => thread[e].row # d
        BY <2>3 DEF RowsExist, RequestHasRow, Saving
  <2>5. RowsExist'
    <3>1. \A e \in Threads : RequestHasRow(e)'
          BY <2>1, <2>2, <2>3 DEF RowsExist, RequestHasRow
    <3>2. InsertsAlone'
          BY <2>1, <2>3 DEF RowsExist, InsertsAlone, Busy
    <3>3. TasksHaveRows'
          BY <2>2 DEF RowsExist, TasksHaveRows
    <3> QED BY <3>1, <3>2, <3>3 DEF RowsExist
  <2>6. SavesAreMarked'
        BY <2>1, <2>2, <2>4 DEF SavesAreMarked, Saving
  <2> QED BY <2>5, <2>6
<1> QED BY <1>1, <1>2

LEMMA MeetingsInductive ==
    TypeOK /\ RowsExist /\ SavesAreMarked /\ [Next]_vars => RowsExist' /\ SavesAreMarked'
<1> SUFFICES ASSUME TypeOK, RowsExist, SavesAreMarked, [Next]_vars
             PROVE  RowsExist' /\ SavesAreMarked'
    OBVIOUS
<1>0. /\ \A e \in Threads : thread[e].pc # "idle" => thread[e].row \in Deployments
      /\ \A e \in Threads : thread'[e].pc # "idle" => thread'[e].row \in Deployments
  <2>1. TypeOK'
        BY TypeInductive
  <2> QED BY <2>1, IdleType DEF TypeOK, ThreadStates, BusyStates
<1>1. ASSUME NEW t \in Threads, SaveRefresh(t) \/ SaveWrite(t) \/ validate(t) \/ deploy(t)
      PROVE  RowsExist' /\ SavesAreMarked'
  <2>1. Proceeds(t)
        BY <1>1, SaveProceeds, ValidateProceeds, DeployProceeds
  <2> QED BY <1>0, <1>1, <2>1, RowsStay, ProceedingKeepsMeetings
<1>2. ASSUME NEW t \in Threads, create_initial_deployment(t)
      PROVE  RowsExist' /\ SavesAreMarked'
  <2>1. /\ thread[t].pc = "save_create" /\ thread[t].row \in Deployments
        /\ thread'[t].pc = "save_refresh" /\ thread'[t].row = thread[t].row
        /\ \A e \in Threads \ {t} : thread'[e] = thread[e]
        /\ status' = [status EXCEPT ![thread[t].row] = "created"]
        /\ UNCHANGED <<tasks, raced>>
        BY <1>2, IdleType
        DEF create_initial_deployment, Busy, Goto, TypeOK, ThreadStates, BusyStates
  <2>2. RowsExist'
    <3> DEFINE d == thread[t].row
    <3>0. status'[d] = "created" /\ \A e \in Deployments \ {d} : status'[e] = status[e]
          BY <2>1 DEF TypeOK
    <3>1. ASSUME NEW e \in Threads PROVE RequestHasRow(e)'
      <4>1. CASE e = t
            BY <2>1, <3>0, <4>1 DEF RequestHasRow
      <4>2. CASE e # t /\ thread[e].pc = "save_create"
            BY <1>0, <2>1, <3>0, <4>2 DEF RowsExist, RequestHasRow, InsertsAlone, Busy
      <4>3. CASE e # t /\ thread[e].pc # "save_create"
            BY <1>0, <2>1, <3>0, <4>3 DEF RowsExist, RequestHasRow
      <4> QED BY <4>1, <4>2, <4>3
    <3>2. InsertsAlone'
          BY <2>1 DEF RowsExist, InsertsAlone, Busy
    <3>3. TasksHaveRows'
          BY <2>1, <3>0 DEF RowsExist, TasksHaveRows
    <3> QED BY <3>1, <3>2, <3>3 DEF RowsExist
  <2>3. SavesAreMarked'
        BY <2>1 DEF SavesAreMarked, Saving
  <2> QED BY <2>2, <2>3
<1>3. ASSUME NEW t \in Threads, NEW d \in Deployments, NEW step \in Steps,
             NEW config \in Configs,
             SaveRead(t, d, step, config) \/ SaveReadNoDraft(t, d, config)
      PROVE  RowsExist' /\ SavesAreMarked'
      BY <1>3, BeginningKeepsMeetings
<1>4. ASSUME NEW d \in Deployments,
             NEW r \in {"completed", "partial_failed", "failed"},
             deployment_complete_callback(d, r)
      PROVE  RowsExist' /\ SavesAreMarked'
  <2>1. /\ tasks[d] > 0 /\ UNCHANGED <<thread, raced>>
        /\ tasks' = [tasks EXCEPT ![d] = @ - 1]
        /\ status' = [status EXCEPT ![d] = r]
        BY <1>4 DEF deployment_complete_callback
  <2>2. RowsExist'
    <3>1. \A e \in Threads : RequestHasRow(e)'
          BY <1>0, <2>1 DEF RowsExist, RequestHasRow, TasksHaveRows, TypeOK
    <3>2. InsertsAlone'
          BY <2>1 DEF RowsExist, InsertsAlone, Busy
    <3>3. TasksHaveRows'
          BY <2>1 DEF RowsExist, TasksHaveRows, TypeOK
    <3> QED BY <3>1, <3>2, <3>3 DEF RowsExist
  <2>3. SavesAreMarked'
        BY <2>1 DEF SavesAreMarked, Saving
  <2> QED BY <2>2, <2>3
<1>5. CASE UNCHANGED vars
      BY <1>5 DEF vars, RowsExist, RequestHasRow, InsertsAlone, Busy, TasksHaveRows,
                  SavesAreMarked, Saving
<1>6. ASSUME NEW t \in Threads, save_config(t) PROVE RowsExist' /\ SavesAreMarked'
  <2> USE <1>6 DEF save_config
  <2>1. CASE \E d \in Deployments, step \in Steps, config \in Configs :
                SaveRead(t, d, step, config)
        BY <1>3, <2>1
  <2>2. CASE \E d \in Deployments, config \in Configs : SaveReadNoDraft(t, d, config)
        BY <1>3, <2>2, IdleType
  <2> QED BY <1>1, <1>2, <2>1, <2>2
<1> QED BY <1>1, <1>4, <1>5, <1>6 DEF Next

(* A later state of such a row has every step that an earlier one had.     *)
Accumulates ==
    \A d \in Deployments \ raced.saves :
        completed_steps(config_snapshot[d]) \subseteq completed_steps(config_snapshot'[d])

(* Writing back what the row holds, with one entry filled, loses no step.   *)
LEMMA FillingAccumulates ==
    ASSUME NEW snap \in Snapshots, NEW step \in Steps, NEW config \in Configs
    PROVE  completed_steps(snap) \subseteq completed_steps([snap EXCEPT ![step] = config])
<1> DEFINE new == [snap EXCEPT ![step] = config]
<1>1. new[step] # Unset /\ \A s \in Steps \ {step} : new[s] = snap[s]
      BY GateAssumption DEF Snapshots
<1> QED BY <1>1 DEF completed_steps

(* The only write of a snapshot: nobody else has written since it was read. *)
LEMMA SaveWriteAccumulates ==
    ASSUME TypeOK, PrefixInv, SaveInv, NEW t \in Threads, SaveWrite(t)
    PROVE  Accumulates
<1>1. /\ thread[t].pc = "save_write"
      /\ config_snapshot' = [config_snapshot EXCEPT
              ![thread[t].row] = [thread[t].snap EXCEPT ![thread[t].step] = thread[t].config]]
      BY DEF SaveWrite, Busy
<1>2. thread[t] \in BusyStates
      BY <1>1, IdleType DEF TypeOK, ThreadStates
<1>3. /\ thread[t].row \in Deployments /\ thread[t].step \in Steps
      /\ thread[t].config \in Configs
      /\ thread[t].row \notin raced.saves =>
            thread[t].snap = config_snapshot[thread[t].row]
      BY <1>1, <1>2 DEF BusyStates, PrefixInv, SaveOK, SaveInv, SaveAlone
<1>4. config_snapshot \in [Deployments -> Snapshots]
      BY DEF TypeOK
<1> QED BY <1>1, <1>3, <1>4, FillingAccumulates DEF Accumulates

LEMMA OthersKeepSnapshots ==
    ASSUME [Next]_vars, \A t \in Threads : ~SaveWrite(t)
    PROVE  UNCHANGED config_snapshot
BY DEF Next, save_config, SaveRead, SaveReadNoDraft, create_initial_deployment, SaveRefresh,
       validate, ValidateRead, ValidatePass, ValidateManualEdit, ValidateReject,
       deploy, DeployRead, DeployCheck, DeployUpload, DeployUploadFails, DeployCommit,
       DeploySpawn, DeploySpawnFails, deployment_complete_callback, rows, vars

LEMMA StepAccumulates ==
    ASSUME TypeOK, PrefixInv, SaveInv, [Next]_vars PROVE Accumulates
<1>1. CASE \E t \in Threads : SaveWrite(t)
      BY <1>1, SaveWriteAccumulates
<1>2. CASE \A t \in Threads : ~SaveWrite(t)
      BY <1>2, OthersKeepSnapshots DEF Accumulates
<1> QED BY <1>1, <1>2

(* A complete snapshot stays complete.                                     *)
LEMMA CompleteStays ==
    ASSUME Accumulates, NEW d \in Deployments \ raced.saves,
           AllStepsDone(config_snapshot[d])
    PROVE  AllStepsDone(config_snapshot'[d])
BY DEF Accumulates, AllStepsDone, completed_steps

(* Only the two steps at which requests can meet mark a row, and a row that
   has been marked stays marked.                                           *)
LEMMA OthersMarkNothing ==
    ASSUME [Next]_vars,
           \A t \in Threads, d \in Deployments, step \in Steps, config \in Configs :
               ~SaveRead(t, d, step, config),
           \A t \in Threads, d \in Deployments : ~ValidateRead(t, d)
    PROVE  raced' = raced
BY DEF Next, save_config, SaveReadNoDraft, create_initial_deployment, SaveRefresh,
       SaveWrite, validate, ValidatePass, ValidateManualEdit, ValidateReject,
       deploy, DeployRead, DeployCheck, DeployUpload, DeployUploadFails,
       DeployCommit, DeploySpawn, DeploySpawnFails, deployment_complete_callback, vars

LEMMA MarksStay == ASSUME TypeOK, [Next]_vars PROVE raced.saves \subseteq raced'.saves
<1>1. ASSUME NEW t \in Threads, NEW d \in Deployments, NEW step \in Steps,
             NEW config \in Configs, SaveRead(t, d, step, config)
      PROVE  raced.saves \subseteq raced'.saves
      BY <1>1, MarkType DEF SaveRead
<1>2. ASSUME NEW t \in Threads, NEW d \in Deployments, ValidateRead(t, d)
      PROVE  raced.saves \subseteq raced'.saves
      BY <1>2, MarkType DEF ValidateRead
<1>3. CASE raced' = raced
      BY <1>3
<1> QED BY <1>1, <1>2, <1>3, OthersMarkNothing

(* A thread that a step leaves alone: only another save of its row could
   disturb it.                                                             *)
LEMMA OthersStayAlone ==
    ASSUME TypeOK, PrefixInv, SaveInv, [Next]_vars, NEW e \in Threads, thread'[e] = thread[e]
    PROVE  SaveAlone(e)'
<1> DEFINE me == thread[e]
<1> SUFFICES ASSUME me.row \notin raced'.saves, me.pc # "idle"
             PROVE  /\ me.pc = "save_write" => me.snap = config_snapshot'[me.row]
                    /\ me.pc = "validating" => AllStepsDone(config_snapshot'[me.row])
                    /\ me.pc \in {"deploy_check", "deploy_upload"} => AllStepsDone(me.snap)
    BY DEF SaveAlone
<1>1. me.row \notin raced.saves /\ me.row \in Deployments
      BY MarksStay, IdleType DEF TypeOK, ThreadStates, BusyStates
<1>2. /\ me.pc = "save_write" => me.snap = config_snapshot[me.row]
      /\ me.pc = "validating" => AllStepsDone(config_snapshot[me.row])
      /\ me.pc \in {"deploy_check", "deploy_upload"} => AllStepsDone(me.snap)
      BY <1>1 DEF SaveInv, SaveAlone
<1>3. me.pc = "validating" => AllStepsDone(config_snapshot'[me.row])
      BY <1>1, <1>2, StepAccumulates, CompleteStays
<1>4. me.pc = "save_write" => config_snapshot'[me.row] = config_snapshot[me.row]
  <2>1. ASSUME NEW t \in Threads, SaveWrite(t), me.pc = "save_write"
        PROVE  config_snapshot'[me.row] = config_snapshot[me.row]
    <3>1. /\ thread[t].pc = "save_write" /\ thread'[t].pc = "idle"
          /\ config_snapshot' = [config_snapshot EXCEPT ![thread[t].row] =
                [thread[t].snap EXCEPT ![thread[t].step] = thread[t].config]]
          BY <2>1, IdleType DEF SaveWrite, Busy, Return, Goto, TypeOK
    <3>2. t # e
          BY <2>1, <3>1
    <3>3. thread[t].row # me.row
          BY <1>1, <2>1, <3>1, <3>2 DEF SaveInv, SavesAreMarked, Saving
    <3> QED BY <1>1, <3>1, <3>3 DEF TypeOK
  <2>2. CASE \A t \in Threads : ~SaveWrite(t)
        BY <2>2, OthersKeepSnapshots
  <2> QED BY <2>1, <2>2
<1> QED BY <1>2, <1>3, <1>4

(* The thread that takes the step.                                         *)
LEMMA MoverStaysAlone ==
    ASSUME TypeOK, PrefixInv, SaveInv, [Next]_vars, NEW t \in Threads,
           save_config(t) \/ validate(t) \/ deploy(t)
    PROVE  SaveAlone(t)'
<1> USE IdleType DEF TypeOK, Goto, Return, Busy, rows
<1>0. raced.saves \subseteq raced'.saves
      BY MarksStay
<1>1. ASSUME NEW d \in Deployments, NEW step \in Steps, NEW config \in Configs,
             SaveRead(t, d, step, config)
      PROVE  SaveAlone(t)'
  <2> DEFINE st == [Idle EXCEPT !.pc = "save_write", !.row = d,
                                !.snap = config_snapshot[d],
                                !.step = step, !.config = config]
  <2>1. thread' = [thread EXCEPT ![t] = st] /\ config_snapshot' = config_snapshot
        BY <1>1 DEF SaveRead
  <2>2. st.pc = "save_write" /\ st.row = d /\ st.snap = config_snapshot[d]
        OBVIOUS
  <2> HIDE DEF st
  <2>3. thread'[t] = st
        BY <2>1
  <2> QED BY <2>1, <2>2, <2>3 DEF SaveAlone
<1>2. ASSUME NEW d \in Deployments, NEW config \in Configs, SaveReadNoDraft(t, d, config)
      PROVE  SaveAlone(t)'
  <2>1. thread'[t].pc = "save_create"
        BY <1>2 DEF SaveReadNoDraft
  <2> QED BY <2>1 DEF SaveAlone
<1>3. CASE create_initial_deployment(t)
  <2>1. thread'[t].pc = "save_refresh"
        BY <1>3 DEF create_initial_deployment, ThreadStates, BusyStates
  <2> QED BY <2>1 DEF SaveAlone
<1>4. CASE SaveRefresh(t)
  <2>1. /\ thread'[t].pc = "save_write" /\ config_snapshot' = config_snapshot
        /\ thread'[t].snap = config_snapshot[thread'[t].row]
        BY <1>4 DEF SaveRefresh, ThreadStates, BusyStates
  <2> QED BY <2>1 DEF SaveAlone
<1>5. ASSUME NEW d \in Deployments, ValidateRead(t, d) PROVE SaveAlone(t)'
  <2>1. /\ thread'[t].pc = "validating" /\ thread'[t].row = d
        /\ config_snapshot' = config_snapshot /\ AllStepsDone(config_snapshot[d])
        BY <1>5 DEF ValidateRead
  <2> QED BY <2>1 DEF SaveAlone
<1>6. ASSUME NEW d \in Deployments, NEW id \in ClientIds, DeployRead(t, d, id)
      PROVE  SaveAlone(t)'
  <2>1. /\ thread'[t].pc = "deploy_check" /\ thread'[t].row = d
        /\ thread'[t].snap = config_snapshot[d] /\ terraform_code[d] # NoHcl
        BY <1>6 DEF DeployRead
  <2> QED BY <1>0, <2>1 DEF SaveAlone, SaveInv, CodeIsComplete
<1>7. CASE DeployCheck(t)
  <2>1. CASE Goto(t, [thread[t] EXCEPT !.pc = "deploy_upload"])
    <3>1. /\ thread[t].pc = "deploy_check" /\ thread'[t].pc = "deploy_upload"
          /\ thread'[t].row = thread[t].row /\ thread'[t].snap = thread[t].snap
          BY <1>7, <2>1 DEF DeployCheck, ThreadStates, BusyStates
    <3> QED BY <1>0, <3>1 DEF SaveAlone, SaveInv
  <2>2. CASE Return(t)
        BY <2>2 DEF SaveAlone
  <2> QED BY <1>7, <2>1, <2>2 DEF DeployCheck
<1>8. CASE DeployUpload(t) \/ DeployCommit(t)
  <2>1. thread'[t].pc \in {"deploy_commit", "deploy_spawn"}
        BY <1>8 DEF DeployUpload, DeployCommit, ThreadStates, BusyStates
  <2> QED BY <2>1 DEF SaveAlone
<1>9. ASSUME NEW id \in ValidationIds, ValidatePass(t, id) PROVE SaveAlone(t)'
  <2>1. Return(t)
        BY <1>9 DEF ValidatePass
  <2> QED BY <2>1 DEF SaveAlone
<1>10. CASE \/ SaveWrite(t) \/ ValidateManualEdit(t) \/ ValidateReject(t)
            \/ DeployUploadFails(t) \/ DeploySpawn(t) \/ DeploySpawnFails(t)
  <2>1. Return(t)
        BY <1>10 DEF SaveWrite, ValidateManualEdit, ValidateReject,
                     DeployUploadFails, DeploySpawn, DeploySpawnFails
  <2> QED BY <2>1 DEF SaveAlone
<1>11. CASE save_config(t)
       BY <1>1, <1>2, <1>3, <1>4, <1>10, <1>11 DEF save_config
<1>12. CASE validate(t)
       BY <1>5, <1>9, <1>10, <1>12 DEF validate
<1>13. CASE deploy(t)
       BY <1>6, <1>7, <1>8, <1>10, <1>13 DEF deploy
<1> QED BY <1>11, <1>12, <1>13

LEMMA SaveInductive ==
    ASSUME TypeOK, PrefixInv, GateInv, SaveInv, [Next]_vars PROVE SaveInv'
<1>1. RowsExist' /\ SavesAreMarked'
      BY MeetingsInductive DEF SaveInv
<1>2. ASSUME NEW e \in Threads PROVE SaveAlone(e)'
  <2>1. CASE thread'[e] = thread[e]
        BY <2>1, OthersStayAlone
  <2>2. CASE save_config(e) \/ validate(e) \/ deploy(e)
        BY <2>2, MoverStaysAlone
  <2>3. ASSUME NEW t \in Threads, t # e, save_config(t) \/ validate(t) \/ deploy(t)
        PROVE  thread'[e] = thread[e]
    <3>1. PICK st : thread' = [thread EXCEPT ![t] = st]
          BY <2>3, Zenon
          DEF save_config, SaveRead, SaveReadNoDraft, SaveRefresh, SaveWrite,
              create_initial_deployment, validate, ValidateRead, ValidatePass,
              ValidateManualEdit, ValidateReject, deploy, DeployRead, DeployCheck,
              DeployUpload, DeployUploadFails, DeployCommit, DeploySpawn,
              DeploySpawnFails, Goto, Return
    <3> QED BY <2>3, <3>1 DEF TypeOK
  <2> QED BY <2>1, <2>2, <2>3 DEF Next, vars, deployment_complete_callback
<1>3. CodeIsComplete'
  <2> SUFFICES ASSUME NEW d \in Deployments \ raced'.saves, terraform_code'[d] # NoHcl
               PROVE  AllStepsDone(config_snapshot'[d])
      BY DEF CodeIsComplete
  <2>0. d \notin raced.saves
        BY MarksStay
  <2>1. CASE terraform_code[d] # NoHcl
        BY <2>0, <2>1, StepAccumulates, CompleteStays DEF SaveInv, CodeIsComplete
  <2>2. CASE terraform_code[d] = NoHcl
    <3>1. PICK t \in Threads, id \in ValidationIds : ValidatePass(t, id)
          BY <2>2 DEF Next, save_config, SaveRead, SaveReadNoDraft, SaveRefresh, SaveWrite,
             create_initial_deployment, validate, ValidateRead, ValidateManualEdit,
             ValidateReject, deploy, DeployRead, DeployCheck, DeployUpload,
             DeployUploadFails, DeployCommit, DeploySpawn, DeploySpawnFails,
             deployment_complete_callback, rows, vars
    <3>2. thread[t].pc = "validating" /\ UNCHANGED config_snapshot
          BY <3>1 DEF ValidatePass, Busy
    <3>3. d = thread[t].row
          BY <2>2, <3>1 DEF ValidatePass, TypeOK
    <3> QED BY <2>0, <3>2, <3>3 DEF SaveInv, SaveAlone
  <2> QED BY <2>1, <2>2
<1>4. DeployedHclIsComplete'
  <2> SUFFICES ASSUME NEW d \in Deployments \ raced'.saves, main_tf'[d] # NoHcl
               PROVE  AllStepsDone(main_tf'[d])
      BY DEF DeployedHclIsComplete
  <2>0. d \notin raced.saves
        BY MarksStay
  <2>1. CASE main_tf'[d] = main_tf[d]
        BY <2>0, <2>1 DEF SaveInv, DeployedHclIsComplete
  <2>2. CASE main_tf'[d] # main_tf[d]
    <3>1. PICK t \in Threads : DeployUpload(t)
          BY <2>2 DEF Next, save_config, SaveRead, SaveReadNoDraft, SaveRefresh, SaveWrite,
             create_initial_deployment, validate, ValidateRead, ValidatePass,
             ValidateManualEdit, ValidateReject, deploy, DeployRead, DeployCheck,
             DeployUploadFails, DeployCommit, DeploySpawn, DeploySpawnFails,
             deployment_complete_callback, vars
    <3>2. /\ thread[t].pc = "deploy_upload"
          /\ main_tf' = [main_tf EXCEPT ![thread[t].row] = thread[t].snap]
          BY <3>1 DEF DeployUpload, Busy
    <3>3. d = thread[t].row /\ main_tf'[d] = thread[t].snap
          BY <2>2, <3>2 DEF TypeOK
    <3> QED BY <2>0, <3>2, <3>3 DEF SaveInv, SaveAlone
  <2> QED BY <2>1, <2>2
<1> QED BY <1>1, <1>2, <1>3, <1>4 DEF SaveInv

LEMMA SavesAlways == Spec => [](TypeOK /\ PrefixInv /\ GateInv /\ SaveInv)
<1>1. Init => TypeOK /\ PrefixInv /\ GateInv /\ SaveInv
  <2> SUFFICES ASSUME Init PROVE TypeOK /\ PrefixInv /\ GateInv /\ SaveInv
      OBVIOUS
  <2>0. \A t \in Threads : thread[t] = Idle /\ thread[t].pc = "idle"
    <3>1. thread = [t \in Threads |-> Idle]
          BY DEF Init
    <3> QED BY <3>1, IdleType
  <2>1. TypeOK
        BY InitType
  <2>2. PrefixInv
        BY IdleType, GateAssumption
        DEF Init, PrefixInv, StepsArePrefix, SaveOK, IsPrefix, EmptySnapshot
  <2>3. GateInv
        BY IdleType, GateAssumption DEF Init, GateInv, GateOK, RowOK, Deploying
  <2>4. /\ terraform_code = [d \in Deployments |-> NoHcl]
        /\ main_tf = [d \in Deployments |-> NoHcl]
        /\ tasks = [d \in Deployments |-> 0]
        BY DEF Init
  <2>5. SaveInv
        BY <2>0, <2>4 DEF SaveInv, RowsExist, RequestHasRow, InsertsAlone, Busy,
           TasksHaveRows, SavesAreMarked, Saving, SaveAlone, CodeIsComplete,
           DeployedHclIsComplete
  <2> QED BY <2>1, <2>2, <2>3, <2>5
<1>2. TypeOK /\ PrefixInv /\ GateInv /\ SaveInv /\ [Next]_vars
         => (TypeOK /\ PrefixInv /\ GateInv /\ SaveInv)'
      BY TypeInductive, PrefixInductive, GateInductive, SaveInductive
<1> QED BY <1>1, <1>2, PTL DEF Spec

(* However many requests run, a draft of which no two saves have met never
   loses a step that was saved: a save has its row for itself, so the snapshot
   it writes back is the one the row still holds.                          *)
THEOREM StepsAreNotLost == Spec => SavesAccumulate
<1>1. TypeOK /\ PrefixInv /\ GateInv /\ SaveInv /\ [Next]_vars
         => [\A d \in Deployments \ raced.saves :
                completed_steps(config_snapshot[d])
                    \subseteq completed_steps(config_snapshot'[d])]_vars
      BY StepAccumulates DEF Accumulates
<1> QED BY <1>1, SavesAlways, PTL DEF Spec, SavesAccumulate

(* What deploy renders and uploads for such a draft has every wizard step,
   although it renders the snapshot of the moment and not the one that was
   validated: code in the row says that all steps were done, and none of them
   has been lost since.                                                    *)
THEOREM UploadsAreComplete == Spec => []DeployedHclIsComplete
<1>1. SaveInv => DeployedHclIsComplete
      BY DEF SaveInv
<1> QED BY <1>1, SavesAlways, PTL
=============================================================================
