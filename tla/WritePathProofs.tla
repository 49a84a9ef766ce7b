--------------------------- MODULE WritePathProofs ---------------------------
(***************************************************************************)
(* WritePath for every value of the constants: its type invariant, the     *)
(* frame lemmas that say which steps change which variables, the inductive *)
(* invariant, and what follows from it: the safety properties, the         *)
(* checkpoint's monotonicity, and the refinement of ExactlyOnce.           *)
(***************************************************************************)
EXTENDS WritePath, TLAPS

USE DEF bufferVars, ingestVars, walVars, replayVars, catalogVars, ghostVars

-----------------------------------------------------------------------------
(* Types. *)

\* The values that stand for "none" have their types.
LEMMA EmptyTypes ==
  /\ NoIntent \in IntentType /\ Idle \in FlushType /\ NoTask \in TaskType
  BY ConstantsAssumption
  DEF NoIntent, IntentType, Idle, FlushType, NoTask, TaskType, PCs, Contexts

\* What the types say of the fields the steps below look at.
LEMMA Fields ==
  ASSUME RecordTypes
  PROVE  /\ task.intent \in IntentType /\ flush.intent \in IntentType
         /\ task.pc \in PCs /\ task.ctx \in Contexts
         /\ task.checks \in Nat /\ task.absent \in Nat
         /\ cat.epoch \in Nat /\ cat.gen \in 0 .. (MaxGen - 1)
         /\ cat.history \subseteq IntentType
         /\ \A d \in detached : d.intent \in IntentType
  BY Zenon DEF RecordTypes, TaskType, FlushType, CatalogType, DetachedType

LEMMA IntentFields ==
  ASSUME NEW i \in IntentType
  PROVE  /\ i.id \in Nat /\ i.epoch \in Nat
         /\ i.lo \in 0 .. (MaxGen - 1) /\ i.hi \in 0 .. (MaxGen - 1)
         /\ i.rows \subseteq Generations
  BY Zenon DEF IntentType

\* The initial state, an empty table and an empty WAL, is well typed.
LEMMA TypeInit == Init => TypeOK
<1> SUFFICES ASSUME Init PROVE TypeOK
  BY Zenon
<1>1. ModeTypes
  BY ZenonT(40) DEF Init, ModeTypes
<1>2. NumberTypes
  BY ConstantsAssumption DEF Init, NumberTypes
<1>3. SetTypes
  BY Zenon DEF Init, SetTypes
<1>4. cat \in CatalogType
  BY ConstantsAssumption DEF Init, CatalogType
<1>5. RecordTypes
  BY Zenon, <1>4, EmptyTypes DEF Init, RecordTypes
<1> QED
  BY Zenon, <1>1, <1>2, <1>3, <1>5 DEF TypeOK

\* Startup, failure and exit move between the four modes only.
LEMMA ModeStep == ASSUME TypeOK, Next PROVE ModeTypes'
<1> USE DEF TypeOK, ModeTypes
<1>1. CASE Ingest
  BY ZenonT(40), <1>1 DEF Ingest, GetOrLoad, Reserve, WalAppend, WalAppendFail, Admit,
     CancelIngest
<1>2. CASE Flush
  BY ZenonT(40), <1>2 DEF Flush, ResumePrepared, Drain, SetPrepared, WriteFail,
     PersistPrepared, PersistRefused, PersistFail, BootstrapFail, Dispatch,
     ProvedCommitted, Rejected, SnapshotMoved, LoseReply, ConnectFail,
     StatusAbsent, StatusUnknown, WalMark, Unlink, UnlinkFail, Gc, Retire,
     RetireFail, Recheck, CancelFlush, RunDetached
<1>3. CASE Catalog
  BY ZenonT(40), <1>3 DEF Catalog, CatalogApply, PeerCommit
<1>4. CASE Recovery
  BY ZenonT(40), <1>4 DEF Recovery, Crash, StartupFails, Restart, Open, ReplayRecord,
     ReplayFull, ResolveRemaining, ReplayDone, Stop
<1> QED
  BY Zenon, <1>1, <1>2, <1>3, <1>4 DEF Next

\* Generations and cutoffs stay in range: in particular Reserve never assigns
\* a generation past the last one.
LEMMA NumberStep == ASSUME TypeOK, Next PROVE NumberTypes'
<1> USE ConstantsAssumption DEF TypeOK, NumberTypes
<1>1. CASE Ingest
  BY <1>1 DEF Ingest, GetOrLoad, Reserve, WalAppend, WalAppendFail, Admit,
     CancelIngest, Fault, EpochAbove, Larger, SetTypes, Generations,
     RecordTypes, CatalogType
<1>2. CASE Flush
  <2>1. task.intent.hi \in 0 .. (MaxGen - 1) /\ cat.epoch \in Nat
    BY Zenon, Fields, IntentFields
  <2>2. CASE WalMark
    BY Zenon, <2>1, <2>2 DEF WalMark, Larger
  <2>3. CASE ProvedCommitted
    BY Zenon, <2>1, <2>3 DEF ProvedCommitted, Complete, Larger
  <2>4. CASE Rejected
    BY <2>1, <2>4 DEF Rejected, EpochAbove
  <2>5. CASE SetPrepared
    BY <2>5 DEF SetPrepared
  <2>6. CASE ~(WalMark \/ ProvedCommitted \/ Rejected \/ SetPrepared)
    <3>1. /\ nextGen' = nextGen /\ highWater' = highWater /\ walCut' = walCut
          /\ epoch' = epoch /\ nextId' = nextId
          /\ faults' = faults \/ \E k \in FaultKinds : Fault(k)
      BY ZenonT(40), <1>2, <2>6 DEF Flush, ResumePrepared, Drain, WriteFail,
         PersistPrepared, PersistRefused, PersistFail, BootstrapFail, Dispatch,
         SnapshotMoved, LoseReply, ConnectFail, StatusAbsent, StatusUnknown,
         Unlink, UnlinkFail, Gc, Retire, RetireFail, Recheck, CancelFlush,
         RunDetached, FaultKinds
    <3> QED
      BY <3>1 DEF Fault
  <2> QED
    BY Zenon, <2>2, <2>3, <2>4, <2>5, <2>6
<1>3. CASE Catalog
  BY ZenonT(40), <1>3 DEF Catalog, CatalogApply, PeerCommit
<1>4. CASE Recovery
  <2>1. cat.epoch \in Nat /\ cat.gen \in 0 .. (MaxGen - 1)
    BY Zenon, Fields
  <2>2. CASE Crash \/ StartupFails
    BY <2>2 DEF Crash, StartupFails, Stop, Fault
  <2>3. CASE Open
    BY <2>1, <2>3 DEF Open, EpochAbove
  <2>4. CASE \E g \in todo : ReplayRecord(g)
    BY <2>4 DEF ReplayRecord, Larger, SetTypes, Generations
  <2>5. CASE ~(Crash \/ StartupFails \/ Open \/ \E g \in todo : ReplayRecord(g))
    BY <1>4, <2>5 DEF Recovery, Restart, ReplayFull, ResolveRemaining,
       ReplayDone, Fault
  <2> QED
    BY Zenon, <2>2, <2>3, <2>4, <2>5
<1> QED
  BY Zenon, <1>1, <1>2, <1>3, <1>4 DEF Next

\* Every set of generations stays within the assignable ones.
LEMMA SetStep == ASSUME TypeOK, Next PROVE SetTypes'
<1> USE DEF TypeOK, SetTypes
<1>1. CASE Ingest
  <2>1. CASE Reserve
    BY <2>1, ConstantsAssumption DEF Reserve, NumberTypes, Generations
  <2>2. CASE GetOrLoad \/ \E g \in queued : WalAppend(g) \/ WalAppendFail(g)
    BY Zenon, <2>2 DEF GetOrLoad, WalAppend, WalAppendFail
  <2>3. CASE \E g \in live : Admit(g) \/ CancelIngest(g)
    BY Zenon, <2>3 DEF Admit, CancelIngest
  <2> QED
    BY Zenon, <1>1, <2>1, <2>2, <2>3 DEF Ingest
<1>2. CASE Flush
  BY ZenonT(40), <1>2 DEF Flush, ResumePrepared, Drain, SetPrepared, WriteFail,
     PersistPrepared, PersistRefused, PersistFail, BootstrapFail, Dispatch,
     ProvedCommitted, Rejected, SnapshotMoved, LoseReply, ConnectFail,
     StatusAbsent, StatusUnknown, WalMark, Unlink, UnlinkFail, Gc, Retire,
     RetireFail, Recheck, CancelFlush, RunDetached, DrainInto, Drainable,
     MergeBack, Complete, Collect
<1>3. CASE Catalog
  BY ZenonT(40), <1>3 DEF Catalog, CatalogApply, PeerCommit
<1>4. CASE Recovery
  BY <1>4 DEF Recovery, Crash, StartupFails, Restart, Open, ReplayRecord,
     ReplayFull, ResolveRemaining, ReplayDone, Stop, NextRecord, Restore,
     DrainInto, Drainable, Collect
<1> QED
  BY Zenon, <1>1, <1>2, <1>3, <1>4 DEF Next

\* set_prepared builds a typed intent from the in-flight set.
LEMMA PreparedType ==
  ASSUME TypeOK, SetPrepared
  PROVE  \E lo, hi \in inFlight :
           /\ \A g \in inFlight : lo <= g /\ g <= hi
           /\ task'.intent = [id |-> nextId, epoch |-> epoch, lo |-> lo,
                              hi |-> hi, rows |-> inFlight]
           /\ task'.intent \in IntentType
           /\ task' = [task EXCEPT !.pc = "persist", !.intent = task'.intent]
           /\ flush' = Holding(task'.intent)
<1>1. PICK lo \in inFlight, hi \in inFlight :
        /\ \A g \in inFlight : lo <= g /\ g <= hi
        /\ flush' = Holding([id |-> nextId, epoch |-> epoch, lo |-> lo,
                             hi |-> hi, rows |-> inFlight])
        /\ task' = [task EXCEPT !.pc = "persist",
                                !.intent = [id |-> nextId, epoch |-> epoch,
                                            lo |-> lo, hi |-> hi,
                                            rows |-> inFlight]]
  BY ZenonT(40) DEF SetPrepared
<1>2. task'.intent = [id |-> nextId, epoch |-> epoch, lo |-> lo, hi |-> hi,
                      rows |-> inFlight]
  BY Zenon, <1>1 DEF TypeOK, RecordTypes, TaskType
<1>3. task'.intent \in IntentType
  BY <1>2, ConstantsAssumption
  DEF TypeOK, NumberTypes, SetTypes, Generations, IntentType
<1> QED
  BY Zenon, <1>1, <1>2, <1>3

\* Only these steps change the flush state: it becomes Idle, blocked on the
\* task's intent, or prepared with a new or a recovered one.
LEMMA FlushFrame ==
  ASSUME Next
  PROVE  \/ flush' = flush \/ flush' = Idle \/ SetPrepared
         \/ task.pc \in {"commit", "rebase", "sent", "status"}
              /\ flush' = Blocked(task.intent)
         \/ rside # NoIntent /\ flush' = Holding(rside)
<1>1. CASE Ingest
  BY Zenon, <1>1 DEF Ingest, GetOrLoad, Reserve, WalAppend, WalAppendFail, Admit,
     CancelIngest
<1>2. CASE Flush
  BY ZenonT(40), <1>2 DEF Flush, ResumePrepared, Drain, WriteFail,
     PersistPrepared, PersistRefused, PersistFail, BootstrapFail, Dispatch,
     ProvedCommitted, Rejected, SnapshotMoved, LoseReply, ConnectFail,
     StatusAbsent, StatusUnknown, WalMark, Unlink, UnlinkFail, Gc, Retire,
     RetireFail, Recheck, CancelFlush, RunDetached, Complete, Definite,
     Contain, Block, CheckAgain, Ambiguous
<1>3. CASE Catalog
  BY ZenonT(40), <1>3 DEF Catalog, CatalogApply, PeerCommit
<1>4. CASE Recovery
  BY Zenon, <1>4 DEF Recovery, Crash, StartupFails, Restart, Open, ReplayRecord,
     ReplayFull, ResolveRemaining, ReplayDone, Stop, Restore
<1> QED
  BY Zenon, <1>1, <1>2, <1>3, <1>4 DEF Next

\* The task record stays well typed in every branch of the flush, recheck and
\* recovery code.
LEMMA TaskStep == ASSUME TypeOK, Next PROVE task' \in TaskType
<1> USE DEF TypeOK, RecordTypes, TaskType, PCs, Contexts
<1>1. CASE Ingest
  BY Zenon, <1>1 DEF Ingest, GetOrLoad, Reserve, WalAppend, WalAppendFail, Admit,
     CancelIngest
<1>2. CASE Flush
  <2>1. ASSUME ReturnError PROVE task' \in TaskType
    BY Zenon, <2>1, EmptyTypes DEF ReturnError
  <2>2. ASSUME NEW n \in Nat, NEW a \in Nat, CheckAgain(n, a)
        PROVE  task' \in TaskType
    BY ZenonT(40), <2>1, <2>2 DEF CheckAgain, Block
  <2>3. ASSUME NEW p \in PCs, At(p) PROVE task' \in TaskType
    BY Zenon, <2>3 DEF At
  <2>4. ASSUME Contain PROVE task' \in TaskType
    BY Zenon, <2>4, EmptyTypes DEF Contain
  <2>5. ASSUME Definite PROVE task' \in TaskType
    BY Zenon, <2>3, <2>4, <2>5 DEF Definite
  <2>6. ASSUME Ambiguous PROVE task' \in TaskType
    <3>1. CASE task.ctx = "flush"
               /\ task' = [task EXCEPT !.pc = "status", !.ctx = "resolve"]
      BY ZenonT(40), <3>1
    <3>2. CASE CheckAgain(task.checks, 0)
      BY Zenon, <2>2, <3>2
    <3>3. CASE Contain \/ task' = NoTask
      BY Zenon, <2>4, <3>3, EmptyTypes
    <3> QED
      BY Zenon, <2>6, <3>1, <3>2, <3>3 DEF Ambiguous
  <2> HIDE DEF TaskType
  <2>7. CASE SetPrepared
    BY ZenonT(40), <2>7, PreparedType DEF TaskType
  <2>8. CASE ResumePrepared \/ Recheck
    BY ZenonT(40), <2>8, EmptyTypes DEF ResumePrepared, Recheck, TaskType, FlushType
  <2>9. CASE Drain
    BY ZenonT(40), <2>9, EmptyTypes DEF Drain, DrainInto, StartedFlush, TaskType
  <2>10. CASE PersistPrepared \/ Dispatch \/ WalMark
    BY Zenon, <2>3, <2>10 DEF PersistPrepared, Dispatch, WalMark
  <2>11. CASE WriteFail \/ PersistRefused \/ PersistFail \/ Retire \/ RetireFail
    BY Zenon, <2>1, <2>11 DEF WriteFail, PersistRefused, PersistFail, Retire, RetireFail
  <2>12. CASE BootstrapFail \/ SnapshotMoved \/ ConnectFail \/ LoseReply
    BY Zenon, <2>1, <2>3, <2>4, <2>5, <2>6, <2>12
    DEF BootstrapFail, SnapshotMoved, ConnectFail, LoseReply
  <2>13. CASE ProvedCommitted \/ Rejected
    BY Zenon, <2>1, <2>3, <2>4, <2>13 DEF ProvedCommitted, Complete, Rejected, Block
  <2>14. CASE StatusAbsent
    <3>1. task.checks + 1 \in Nat /\ task.absent + 1 \in Nat
      BY Fields
    <3>2. CASE CheckAgain(task.checks + 1, task.absent + 1)
      BY Zenon, <2>2, <3>1, <3>2
    <3>3. CASE task' = [task EXCEPT !.pc = "commit", !.checks = task.checks + 1,
                                    !.absent = task.absent + 1]
      BY ZenonT(40), <3>1, <3>3 DEF TaskType
    <3> QED
      BY Zenon, <2>14, <3>2, <3>3 DEF StatusAbsent
  <2>15. CASE StatusUnknown
    <3>1. task.checks + 1 \in Nat
      BY Fields
    <3> QED
      BY Zenon, <2>2, <2>4, <2>15, <3>1, EmptyTypes DEF StatusUnknown
  <2>16. CASE Unlink \/ UnlinkFail \/ Gc \/ CancelFlush
    BY Zenon, <2>1, <2>3, <2>16, EmptyTypes
    DEF Unlink, UnlinkFail, AfterUnlink, Gc, CancelFlush
  <2>17. CASE \E d \in detached : RunDetached(d)
    BY Zenon, <2>17 DEF RunDetached
  <2> QED
    BY Zenon, <1>2, <2>7, <2>8, <2>9, <2>10, <2>11, <2>12, <2>13, <2>14, <2>15,
       <2>16, <2>17 DEF Flush
<1>3. CASE Catalog
  BY ZenonT(40), <1>3 DEF Catalog, CatalogApply, PeerCommit
<1>4. CASE Recovery
  <2>1. [NoTask EXCEPT !.pc = "exit"] \in TaskType /\ StartedFlush \in TaskType
    BY ZenonT(40), EmptyTypes DEF StartedFlush
  <2>2. [NoTask EXCEPT !.pc = "status", !.ctx = "recover", !.intent = rside]
          \in TaskType
    BY ZenonT(40), EmptyTypes
  <2> HIDE DEF TaskType
  <2> QED
    BY Zenon, <1>4, <2>1, <2>2, EmptyTypes DEF Recovery, Crash, StartupFails, Restart,
       Open, ReplayRecord, ReplayFull, ResolveRemaining, ReplayDone, Stop,
       Restore, DrainInto
<1> QED
  BY Zenon, <1>1, <1>2, <1>3, <1>4 DEF Next


\* The intents in the sidecar, in recovery's hands and in the network come
\* from the task, and the files' operations from a cancelled one.
LEMMA CarrierStep ==
  ASSUME TypeOK, Next
  PROVE  /\ sidecar' \in IntentType /\ rside' \in IntentType
         /\ detached' \subseteq DetachedType /\ net' \subseteq IntentType
<1>0. TypeOK /\ task.intent \in IntentType
  BY Zenon, Fields DEF TypeOK
<1> USE <1>0, EmptyTypes DEF TypeOK, RecordTypes
<1>1. CASE Ingest
  BY Zenon, <1>1 DEF Ingest, GetOrLoad, Reserve, WalAppend, WalAppendFail, Admit,
     CancelIngest
<1>2. CASE Flush
  <2>1. CASE CancelFlush
    BY <2>1 DEF CancelFlush, Outliving, Unattended, DetachedType
  <2>2. CASE \E d \in detached : RunDetached(d)
    BY ZenonT(40), <2>2, Fields DEF RunDetached
  <2>3. CASE ~(CancelFlush \/ \E d \in detached : RunDetached(d))
    BY ZenonT(40), <1>2, <2>3 DEF Flush, ResumePrepared, Drain, SetPrepared, WriteFail,
       PersistPrepared, PersistRefused, PersistFail, BootstrapFail, Dispatch,
       ProvedCommitted, Rejected, SnapshotMoved, LoseReply, ConnectFail,
       StatusAbsent, StatusUnknown, WalMark, Unlink, UnlinkFail, Gc, Retire,
       RetireFail, Recheck, Definite, Contain, Ambiguous, Unattended,
       AfterUnlink
  <2> QED
    BY Zenon, <2>1, <2>2, <2>3
<1>3. CASE Catalog
  BY ZenonT(40), <1>3 DEF Catalog, CatalogApply, PeerCommit
<1>4. CASE Recovery
  BY ZenonT(40), <1>4 DEF Recovery, Crash, StartupFails, Restart, Open, ReplayRecord,
     ReplayFull, ResolveRemaining, ReplayDone, Stop, Unattended
<1> QED
  BY Zenon, <1>1, <1>2, <1>3, <1>4 DEF Next

\* Only an applied append or another writer's commit changes the catalog.
LEMMA CatalogFrame ==
  ASSUME Next
  PROVE  cat' = cat \/ (\E i \in net : CatalogApply(i)) \/ PeerCommit
<1>1. CASE Ingest
  BY Zenon, <1>1 DEF Ingest, GetOrLoad, Reserve, WalAppend, WalAppendFail, Admit,
     CancelIngest
<1>2. CASE Flush
  BY ZenonT(40), <1>2 DEF Flush, ResumePrepared, Drain, SetPrepared, WriteFail,
     PersistPrepared, PersistRefused, PersistFail, BootstrapFail, Dispatch,
     ProvedCommitted, Rejected, SnapshotMoved, LoseReply, ConnectFail,
     StatusAbsent, StatusUnknown, WalMark, Unlink, UnlinkFail, Gc, Retire,
     RetireFail, Recheck, CancelFlush, RunDetached
<1>3. CASE Catalog
  BY Zenon, <1>3 DEF Catalog
<1>4. CASE Recovery
  BY ZenonT(40), <1>4 DEF Recovery, Crash, StartupFails, Restart, Open, ReplayRecord,
     ReplayFull, ResolveRemaining, ReplayDone
<1> QED
  BY Zenon, <1>1, <1>2, <1>3, <1>4 DEF Next

\* One step keeps every variable in its type.
LEMMA TypeStep == TypeOK /\ [Next]_vars => TypeOK'
<1> SUFFICES ASSUME TypeOK, [Next]_vars PROVE TypeOK'
  BY Zenon
<1>1. CASE Next
  <2>1. flush' \in FlushType
    <3>1. CASE SetPrepared
      <4>1. task'.intent \in IntentType /\ flush' = Holding(task'.intent)
        BY ZenonT(40), <3>1, PreparedType
      <4> QED
        BY Zenon, <4>1 DEF Holding, FlushType
    <3>2. Blocked(task.intent) \in FlushType /\ Holding(rside) \in FlushType
      BY Zenon DEF TypeOK, RecordTypes, TaskType, Holding, Blocked, FlushType
    <3>3. flush \in FlushType
      BY Zenon DEF TypeOK, RecordTypes
    <3> QED
      BY Zenon, <1>1, <3>1, <3>2, <3>3, FlushFrame, EmptyTypes
  <2>2. cat' \in CatalogType
    <3>1. ASSUME NEW i \in net, CatalogApply(i) PROVE cat' \in CatalogType
      <4>1. i \in IntentType /\ i.epoch \in Nat /\ i.hi \in 0 .. (MaxGen - 1)
        BY Zenon, IntentFields DEF TypeOK, RecordTypes
      <4> QED
        BY ZenonT(40), <3>1, <4>1 DEF TypeOK, RecordTypes, CatalogApply, CatalogType
    <3>2. CASE PeerCommit
      BY <3>2 DEF TypeOK, RecordTypes, PeerCommit, CatalogType
    <3> QED
      BY Zenon, <1>1, <3>1, <3>2, CatalogFrame DEF TypeOK, RecordTypes
  <2>3. RecordTypes'
    BY Zenon, <1>1, <2>1, <2>2, TaskStep, CarrierStep DEF RecordTypes
  <2> QED
    BY Zenon, <1>1, <2>3, ModeStep, NumberStep, SetStep DEF TypeOK
<1>2. CASE UNCHANGED vars
  BY Zenon, <1>2 DEF vars, TypeOK, ModeTypes, NumberTypes, SetTypes, RecordTypes
<1> QED
  BY Zenon, <1>1, <1>2

\* In every reachable state every variable of the write path has its type: no
\* generation beyond the last assignable one is reserved, logged or committed.
THEOREM TypeCorrect == Spec => []TypeOK
  BY TypeInit, TypeStep, PTL DEF Spec


-----------------------------------------------------------------------------
(* Who changes what. *)

\* Only the admission of a durable batch acknowledges it.
LEMMA AckedFrame ==
  ASSUME Next PROVE acked' = acked \/ \E g \in live : Admit(g)
<1>1. CASE Ingest
  BY Zenon, <1>1 DEF Ingest, GetOrLoad, Reserve, WalAppend, WalAppendFail, CancelIngest
<1>2. CASE Flush
  BY ZenonT(40), <1>2 DEF Flush, ResumePrepared, Drain, SetPrepared, WriteFail,
     PersistPrepared, PersistRefused, PersistFail, BootstrapFail, Dispatch,
     ProvedCommitted, Rejected, SnapshotMoved, LoseReply, ConnectFail,
     StatusAbsent, StatusUnknown, WalMark, Unlink, UnlinkFail, Gc, Retire,
     RetireFail, Recheck, CancelFlush, RunDetached
<1>3. CASE Catalog
  BY ZenonT(40), <1>3 DEF Catalog, CatalogApply, PeerCommit
<1>4. CASE Recovery
  BY ZenonT(40), <1>4 DEF Recovery, Crash, StartupFails, Restart, Open, ReplayRecord,
     ReplayFull, ResolveRemaining, ReplayDone
<1> QED
  BY Zenon, <1>1, <1>2, <1>3, <1>4 DEF Next

\* Only WAL GC deletes records, none above the committed cutoff.
LEMMA WalFrame ==
  ASSUME Next PROVE \A g \in wal : g \in wal' \/ g <= walCut
<1>1. CASE Ingest
  BY Zenon, <1>1 DEF Ingest, GetOrLoad, Reserve, WalAppend, WalAppendFail, Admit,
     CancelIngest
<1>2. CASE Flush
  BY ZenonT(40), <1>2 DEF Flush, ResumePrepared, Drain, SetPrepared, WriteFail,
     PersistPrepared, PersistRefused, PersistFail, BootstrapFail, Dispatch,
     ProvedCommitted, Rejected, SnapshotMoved, LoseReply, ConnectFail,
     StatusAbsent, StatusUnknown, WalMark, Unlink, UnlinkFail, Gc, Retire,
     RetireFail, Recheck, CancelFlush, RunDetached, Collect
<1>3. CASE Catalog
  BY ZenonT(40), <1>3 DEF Catalog, CatalogApply, PeerCommit
<1>4. CASE Recovery
  BY ZenonT(40), <1>4 DEF Recovery, Crash, StartupFails, Restart, Open, ReplayRecord,
     ReplayFull, ResolveRemaining, ReplayDone, Collect
<1> QED
  BY SMTT(30), <1>1, <1>2, <1>3, <1>4 DEF Next

\* The two cutoffs move to the catalog's checkpoint or to the end of a proved
\* intent; the buffer's is reset when the process stops.
LEMMA CutoffFrame ==
  ASSUME Next
  PROVE  /\ walCut' = walCut \/ walCut' = cat.gen \/ WalMark
         /\ \/ highWater' = highWater \/ highWater' = 0 \/ highWater' = cat.gen
            \/ ProvedCommitted
<1>1. CASE Ingest
  BY Zenon, <1>1 DEF Ingest, GetOrLoad, Reserve, WalAppend, WalAppendFail, Admit,
     CancelIngest
<1>2. CASE Flush
  BY ZenonT(40), <1>2 DEF Flush, ResumePrepared, Drain, SetPrepared, WriteFail,
     PersistPrepared, PersistRefused, PersistFail, BootstrapFail, Dispatch,
     ProvedCommitted, WalMark, Rejected, SnapshotMoved, LoseReply, ConnectFail,
     StatusAbsent, StatusUnknown, Unlink, UnlinkFail, Gc, Retire,
     RetireFail, Recheck, CancelFlush, RunDetached
<1>3. CASE Catalog
  BY ZenonT(40), <1>3 DEF Catalog, CatalogApply, PeerCommit
<1>4. CASE Recovery
  BY ZenonT(40), <1>4 DEF Recovery, Crash, StartupFails, Restart, Open, ReplayRecord,
     ReplayFull, ResolveRemaining, ReplayDone, Stop
<1> QED
  BY SMTT(30), <1>1, <1>2, <1>3, <1>4 DEF Next

\* Only Dispatch puts an update on the network.
LEMMA NetFrame ==
  ASSUME Next PROVE net' \subseteq net \/ Dispatch
<1>1. CASE Ingest
  BY Zenon, <1>1 DEF Ingest, GetOrLoad, Reserve, WalAppend, WalAppendFail, Admit,
     CancelIngest
<1>2. CASE Flush
  BY ZenonT(40), <1>2 DEF Flush, ResumePrepared, Drain, SetPrepared, WriteFail,
     PersistPrepared, PersistRefused, PersistFail, BootstrapFail,
     ProvedCommitted, WalMark, Rejected, SnapshotMoved, LoseReply, ConnectFail,
     StatusAbsent, StatusUnknown, Unlink, UnlinkFail, Gc, Retire,
     RetireFail, Recheck, CancelFlush, RunDetached, Unattended
<1>3. CASE Catalog
  BY ZenonT(40), <1>3 DEF Catalog, CatalogApply, PeerCommit
<1>4. CASE Recovery
  BY ZenonT(40), <1>4 DEF Recovery, Crash, StartupFails, Restart, Open, ReplayRecord,
     ReplayFull, ResolveRemaining, ReplayDone, Unattended
<1> QED
  BY SMTT(30), <1>1, <1>2, <1>3, <1>4 DEF Next

\* Only Reserve assigns a generation.
LEMMA ReservedFrame ==
  ASSUME Next PROVE reserved' \subseteq reserved \/ Reserve
<1>1. CASE Ingest
  BY ZenonT(40), <1>1 DEF Ingest, GetOrLoad, WalAppend, WalAppendFail, Admit, CancelIngest
<1>2. CASE Flush
  BY ZenonT(40), <1>2 DEF Flush, ResumePrepared, Drain, SetPrepared, WriteFail,
     PersistPrepared, PersistRefused, PersistFail, BootstrapFail, Dispatch,
     ProvedCommitted, WalMark, Rejected, SnapshotMoved, LoseReply, ConnectFail,
     StatusAbsent, StatusUnknown, Unlink, UnlinkFail, Gc, Retire,
     RetireFail, Recheck, CancelFlush, RunDetached
<1>3. CASE Catalog
  BY ZenonT(40), <1>3 DEF Catalog, CatalogApply, PeerCommit
<1>4. CASE Recovery
  BY ZenonT(40), <1>4 DEF Recovery, Crash, StartupFails, Restart, Open, ReplayRecord,
     ReplayFull, ResolveRemaining, ReplayDone, Stop
<1> QED
  BY Zenon, <1>1, <1>2, <1>3, <1>4 DEF Next

\* Where the generations a run knows of are kept: the replay plan is made by
\* Open, consumed by ReplayRecord, and the buffer's next generation grows.
LEMMA PlaceFrame ==
  ASSUME TypeOK, Next
  PROVE  \/ ~Running'
         \/ Open
         \/ GetOrLoad
         \/ \E g \in todo : ReplayRecord(g)
         \/ /\ Running /\ todo' = todo /\ loaded' = loaded /\ nextGen' >= nextGen
            /\ mode' = mode \/ ReplayDone
<1> USE DEF Running
<1>1. CASE Ingest
  BY <1>1 DEF Ingest, Reserve, WalAppend, WalAppendFail, Admit, CancelIngest,
     Larger, TypeOK, NumberTypes, SetTypes, Generations
<1>2. CASE Flush \/ Catalog
  <2>1. mode' = mode /\ todo' = todo /\ loaded' = loaded /\ nextGen' = nextGen
    BY ZenonT(40), <1>2 DEF Flush, ResumePrepared, Drain, SetPrepared, WriteFail,
       PersistPrepared, PersistRefused, PersistFail, BootstrapFail, Dispatch,
       ProvedCommitted, WalMark, Rejected, SnapshotMoved, LoseReply,
       ConnectFail, StatusAbsent, StatusUnknown, Unlink, UnlinkFail, Gc,
       Retire, RetireFail, Recheck, CancelFlush, RunDetached,
       Catalog, CatalogApply, PeerCommit
  <2>2. nextGen' >= nextGen
    BY <2>1 DEF TypeOK, NumberTypes
  <2> QED
    BY Zenon, <2>1, <2>2
<1>4. CASE Recovery
  BY <1>4 DEF Recovery, Crash, StartupFails, Restart, ReplayFull,
     ResolveRemaining, ReplayDone, Stop, TypeOK, NumberTypes
<1> QED
  BY SMTT(30), <1>1, <1>2, <1>4 DEF Next


\* An intent moves between the places that can hold one; only SetPrepared makes
\* a new one.
LEMMA IntentFrame ==
  ASSUME TypeOK, Next, ~SetPrepared
  PROVE  Intents' \subseteq Intents \cup {NoIntent}
<1>1. sidecar' \in {sidecar, task.intent, NoIntent} \cup {d.intent : d \in detached}
  <2>1. CASE Ingest \/ Catalog
    BY ZenonT(40), <2>1 DEF Ingest, GetOrLoad, Reserve, WalAppend, WalAppendFail, Admit,
       CancelIngest, Catalog, CatalogApply, PeerCommit
  <2>2. CASE Flush
    BY ZenonT(40), <2>2 DEF Flush, ResumePrepared, Drain, SetPrepared, WriteFail,
       PersistPrepared, PersistRefused, PersistFail, BootstrapFail, Dispatch,
       ProvedCommitted, WalMark, Rejected, SnapshotMoved, LoseReply,
       ConnectFail, StatusAbsent, StatusUnknown, Unlink, UnlinkFail, Gc,
       Retire, RetireFail, Recheck, CancelFlush, RunDetached
  <2>3. CASE Recovery
    BY ZenonT(40), <2>3 DEF Recovery, Crash, StartupFails, Restart, Open, ReplayRecord,
       ReplayFull, ResolveRemaining, ReplayDone
  <2> QED
    BY Zenon, <2>1, <2>2, <2>3 DEF Next
<1>2. rside' \in {rside, sidecar, NoIntent}
  <2>1. CASE Ingest \/ Catalog
    BY ZenonT(40), <2>1 DEF Ingest, GetOrLoad, Reserve, WalAppend, WalAppendFail, Admit,
       CancelIngest, Catalog, CatalogApply, PeerCommit
  <2>2. CASE Flush
    BY ZenonT(40), <2>2 DEF Flush, ResumePrepared, Drain, SetPrepared, WriteFail,
       PersistPrepared, PersistRefused, PersistFail, BootstrapFail, Dispatch,
       ProvedCommitted, WalMark, Rejected, SnapshotMoved, LoseReply,
       ConnectFail, StatusAbsent, StatusUnknown, Unlink, UnlinkFail, Gc,
       Retire, RetireFail, Recheck, CancelFlush, RunDetached, Definite,
       Contain, Ambiguous, AfterUnlink
  <2>3. CASE Recovery
    BY ZenonT(40), <2>3 DEF Recovery, Crash, StartupFails, Restart, Open, ReplayRecord,
       ReplayFull, ResolveRemaining, ReplayDone, Stop
  <2> QED
    BY Zenon, <2>1, <2>2, <2>3 DEF Next
<1>3. flush'.intent \in {flush.intent, task.intent, rside, NoIntent}
  BY FlushFrame DEF Idle, Blocked, Holding
<1>4. task'.intent \in {task.intent, flush.intent, rside, NoIntent}
  <2>0. NoTask.intent = NoIntent /\ StartedFlush.intent = NoIntent
    BY Zenon DEF NoTask, StartedFlush
  <2>1. CASE Ingest \/ Catalog
    BY ZenonT(40), <2>1 DEF Ingest, GetOrLoad, Reserve, WalAppend, WalAppendFail, Admit,
       CancelIngest, Catalog, CatalogApply, PeerCommit
  <2>2. CASE Flush
    <3> DEFINE Keeps == task'.intent \in {task.intent, NoIntent}
    <3>1. ASSUME ReturnError PROVE Keeps
      BY Zenon, <2>0, <3>1 DEF ReturnError, TypeOK, RecordTypes, TaskType
    <3>2. ASSUME NEW p \in PCs, At(p) PROVE Keeps
      BY Zenon, <3>2 DEF At, TypeOK, RecordTypes, TaskType
    <3>3. ASSUME NEW n \in Nat, NEW a \in Nat, CheckAgain(n, a) PROVE Keeps
      BY ZenonT(40), <3>1, <3>3 DEF CheckAgain, Block, TypeOK, RecordTypes, TaskType
    <3>4. ASSUME Contain PROVE Keeps
      BY Zenon, <2>0, <3>4 DEF Contain
    <3>5. ASSUME Definite PROVE Keeps
      BY Zenon, <3>2, <3>4, <3>5 DEF Definite, PCs
    <3>6. ASSUME Ambiguous PROVE Keeps
      <4>1. CASE task' = [task EXCEPT !.pc = "status", !.ctx = "resolve"]
        BY Zenon, <4>1 DEF TypeOK, RecordTypes, TaskType
      <4>2. CASE CheckAgain(task.checks, 0)
        BY Zenon, <3>3, <4>2, Fields DEF TypeOK
      <4> QED
        BY Zenon, <2>0, <3>4, <3>6, <4>1, <4>2 DEF Ambiguous
    <3>7. CASE ResumePrepared \/ Recheck
      BY ZenonT(40), <3>7 DEF ResumePrepared, Recheck, NoTask
    <3>8. CASE \/ PersistPrepared \/ Dispatch \/ WalMark \/ WriteFail
               \/ PersistRefused \/ PersistFail \/ Retire \/ RetireFail
               \/ BootstrapFail \/ SnapshotMoved \/ ConnectFail \/ LoseReply
      BY ZenonT(40), <3>1, <3>2, <3>4, <3>5, <3>6, <3>8 DEF PersistPrepared, Dispatch,
         WalMark, WriteFail, PersistRefused, PersistFail, Retire, RetireFail,
         BootstrapFail, SnapshotMoved, ConnectFail, LoseReply, PCs
    <3>9. CASE ProvedCommitted \/ Rejected \/ Unlink \/ UnlinkFail
      BY ZenonT(40), <2>0, <3>1, <3>2, <3>4, <3>9 DEF ProvedCommitted, Complete, Rejected,
         Block, Unlink, UnlinkFail, AfterUnlink, PCs
    <3>10. CASE StatusAbsent
      <4>1. CASE CheckAgain(task.checks + 1, task.absent + 1)
        <5>1. task.checks + 1 \in Nat /\ task.absent + 1 \in Nat
          BY Fields DEF TypeOK
        <5> QED
          BY Zenon, <3>3, <4>1, <5>1
      <4>2. CASE task' = [task EXCEPT !.pc = "commit", !.checks = task.checks + 1,
                                      !.absent = task.absent + 1]
        BY Zenon, <4>2 DEF TypeOK, RecordTypes, TaskType
      <4> QED
        BY Zenon, <3>10, <4>1, <4>2 DEF StatusAbsent
    <3>11. CASE StatusUnknown
      <4>1. task.checks + 1 \in Nat
        BY SMTT(30), Fields DEF TypeOK
      <4> QED
        BY Zenon, <2>0, <3>3, <3>4, <3>11, <4>1 DEF StatusUnknown
    <3>12. CASE Drain \/ Gc \/ CancelFlush \/ \E d \in detached : RunDetached(d)
      BY Zenon, <2>0, <3>12 DEF Drain, DrainInto, Gc, CancelFlush, RunDetached
    <3> QED
      BY Zenon, <2>2, <3>7, <3>8, <3>9, <3>10, <3>11, <3>12 DEF Flush
  <2>3. CASE Recovery
    <3>1. /\ [NoTask EXCEPT !.pc = "exit"].intent = NoIntent
          /\ [NoTask EXCEPT !.pc = "status", !.ctx = "recover",
                            !.intent = rside].intent = rside
      BY Zenon DEF NoTask
    <3> QED
      BY ZenonT(40), <2>0, <2>3, <3>1 DEF Recovery, Crash, StartupFails, Restart, Open,
         ReplayRecord, ReplayFull, ResolveRemaining, ReplayDone, Stop, Restore,
         DrainInto
  <2> QED
    BY Zenon, <2>1, <2>2, <2>3 DEF Next
<1>5. net' \subseteq net \cup {task.intent}
  BY Zenon, NetFrame DEF Dispatch
<1>6. {d.intent : d \in detached'} \subseteq {d.intent : d \in detached} \cup {task.intent}
  <2>1. CASE Ingest \/ Catalog
    BY ZenonT(40), <2>1 DEF Ingest, GetOrLoad, Reserve, WalAppend, WalAppendFail, Admit,
       CancelIngest, Catalog, CatalogApply, PeerCommit
  <2>2. CASE Flush
    <3>1. detached' \subseteq detached \cup Outliving
      BY ZenonT(40), <2>2 DEF Flush, ResumePrepared, Drain, SetPrepared, WriteFail,
         PersistPrepared, PersistRefused, PersistFail, BootstrapFail, Dispatch,
         ProvedCommitted, WalMark, Rejected, SnapshotMoved, LoseReply,
         ConnectFail, StatusAbsent, StatusUnknown, Unlink, UnlinkFail, Gc,
         Retire, RetireFail, Recheck, CancelFlush, RunDetached
    <3>2. \A d \in Outliving : d.intent = task.intent
      BY DEF Outliving
    <3> QED
      BY Zenon, <3>1, <3>2
  <2>3. CASE Recovery
    BY ZenonT(40), <2>3 DEF Recovery, Crash, StartupFails, Restart, Open, ReplayRecord,
       ReplayFull, ResolveRemaining, ReplayDone, Stop
  <2> QED
    BY Zenon, <2>1, <2>2, <2>3 DEF Next
<1> QED
  BY Zenon, <1>1, <1>2, <1>3, <1>4, <1>5, <1>6 DEF Intents


\* How the buffer's two sets change.
LEMMA BufferFrame ==
  ASSUME Next
  PROVE  \/ pending' = pending /\ inFlight' = inFlight
         \/ ~Running' /\ pending' = {} /\ inFlight' = {}
         \/ \E g \in live : Admit(g)
         \/ inFlight = {} /\ inFlight' = Drainable /\ pending' = pending \ Drainable
         \/ MergeBack
         \/ ProvedCommitted
         \/ \E g \in todo : ReplayRecord(g)
         \/ ResolveRemaining
<1>1. CASE Ingest \/ Catalog
  BY ZenonT(40), <1>1 DEF Ingest, GetOrLoad, Reserve, WalAppend, WalAppendFail,
     CancelIngest, Catalog, CatalogApply, PeerCommit
<1>2. CASE Flush
  BY ZenonT(40), <1>2 DEF Flush, ResumePrepared, Drain, SetPrepared, WriteFail,
     PersistPrepared, PersistRefused, PersistFail, BootstrapFail, Dispatch,
     WalMark, Rejected, SnapshotMoved, LoseReply, ConnectFail, StatusAbsent,
     StatusUnknown, Unlink, UnlinkFail, Gc, Retire, RetireFail, Recheck,
     CancelFlush, RunDetached, DrainInto
<1>3. CASE Recovery
  BY Zenon, <1>3 DEF Recovery, Crash, StartupFails, Restart, Open, ReplayFull,
     ReplayDone, Stop, DrainInto, Running
<1> QED
  BY Zenon, <1>1, <1>2, <1>3 DEF Next

\* A process loses its state only when it stops, and changes its mode only
\* through recovery.
LEMMA ModeFrame ==
  ASSUME Next
  PROVE  \/ Stop("down")
         \/ Stop("exited")
         \/ /\ loaded' = loaded \/ GetOrLoad
            /\ mode' = mode \/ Restart \/ Open \/ ReplayDone
<1>1. CASE Ingest \/ Catalog
  BY ZenonT(40), <1>1 DEF Ingest, GetOrLoad, Reserve, WalAppend, WalAppendFail, Admit,
     CancelIngest, Catalog, CatalogApply, PeerCommit
<1>2. CASE Flush
  BY ZenonT(40), <1>2 DEF Flush, ResumePrepared, Drain, SetPrepared, WriteFail,
     PersistPrepared, PersistRefused, PersistFail, BootstrapFail, Dispatch,
     ProvedCommitted, WalMark, Rejected, SnapshotMoved, LoseReply, ConnectFail,
     StatusAbsent, StatusUnknown, Unlink, UnlinkFail, Gc, Retire, RetireFail,
     Recheck, CancelFlush, RunDetached
<1>3. CASE Recovery
  BY ZenonT(40), <1>3 DEF Recovery, Crash, StartupFails, Restart, Open, ReplayRecord,
     ReplayFull, ResolveRemaining, ReplayDone
<1> QED
  BY Zenon, <1>1, <1>2, <1>3 DEF Next

\* A request that still waits holds its reservation.
LEMMA LiveFrame ==
  ASSUME Next, live \subseteq reserved PROVE live' \subseteq reserved'
<1>1. CASE Ingest \/ Catalog
  BY ZenonT(40), <1>1 DEF Ingest, GetOrLoad, Reserve, WalAppend, WalAppendFail, Admit,
     CancelIngest, Catalog, CatalogApply, PeerCommit
<1>2. CASE Flush
  BY ZenonT(40), <1>2 DEF Flush, ResumePrepared, Drain, SetPrepared, WriteFail,
     PersistPrepared, PersistRefused, PersistFail, BootstrapFail, Dispatch,
     ProvedCommitted, WalMark, Rejected, SnapshotMoved, LoseReply, ConnectFail,
     StatusAbsent, StatusUnknown, Unlink, UnlinkFail, Gc, Retire, RetireFail,
     Recheck, CancelFlush, RunDetached
<1>3. CASE Recovery
  BY ZenonT(40), <1>3 DEF Recovery, Crash, StartupFails, Restart, Open, ReplayRecord,
     ReplayFull, ResolveRemaining, ReplayDone, Stop
<1> QED
  BY Zenon, <1>1, <1>2, <1>3 DEF Next

\* The task of a process that is not running does not move.
LEMMA DownFrame ==
  ASSUME Next, task = NoTask, ~Running, live = {} PROVE task' = NoTask
<1>0. task.pc = "idle" /\ mode # "up" /\ mode # "replaying"
  BY Zenon DEF NoTask, Running
<1>1. CASE Ingest \/ Catalog
  BY ZenonT(40), <1>1 DEF Ingest, GetOrLoad, Reserve, WalAppend, WalAppendFail, Admit,
     CancelIngest, Catalog, CatalogApply, PeerCommit
<1>2. CASE Flush
  BY ZenonT(40), <1>0, <1>2 DEF Flush, ResumePrepared, Drain, SetPrepared, WriteFail,
     PersistPrepared, PersistRefused, PersistFail, BootstrapFail, Dispatch,
     ProvedCommitted, WalMark, Rejected, SnapshotMoved, LoseReply, ConnectFail,
     StatusAbsent, StatusUnknown, Unlink, UnlinkFail, Gc, Retire, RetireFail,
     Recheck, CancelFlush, RunDetached
<1>3. CASE Recovery
  BY ZenonT(40), <1>0, <1>3 DEF Recovery, Crash, StartupFails, Restart, Open, ReplayRecord,
     ReplayFull, NextRecord, ResolveRemaining, ReplayDone, Stop
<1> QED
  BY Zenon, <1>1, <1>2, <1>3 DEF Next



\* A task that holds an intent keeps it until it ends; it takes one from
\* set_prepared, from the flush state or from recovery, and completes it only
\* when the catalog has proved it.
LEMMA TaskFrame ==
  ASSUME TypeOK, Next
  PROVE  \/ task'.pc \in {"idle", "writing", "exit"}
         \/ task' = task
         \/ SetPrepared
         \/ /\ task.pc \notin {"idle", "writing", "exit"}
            /\ task'.intent = task.intent
            /\ task'.pc = "walmark" => ProvedCommitted
         \/ /\ flush.state # "Idle" /\ task'.intent = flush.intent
            /\ task'.pc # "walmark"
         \/ /\ rside # NoIntent /\ task'.intent = rside
            /\ task'.pc # "walmark"
<1> DEFINE Ends  == task'.pc \in {"idle", "writing", "exit"}
           Keeps == task'.intent = task.intent /\ task'.pc # "walmark"
<1>0. NoTask.pc = "idle" /\ StartedFlush.pc = "writing"
  BY Zenon DEF NoTask, StartedFlush
<1>1. CASE Ingest \/ Catalog
  BY ZenonT(40), <1>1 DEF Ingest, GetOrLoad, Reserve, WalAppend, WalAppendFail, Admit,
     CancelIngest, Catalog, CatalogApply, PeerCommit
<1>2. CASE Flush
  <2>1. ASSUME ReturnError PROVE Ends
    BY Zenon, <1>0, <2>1 DEF ReturnError, TypeOK, RecordTypes, TaskType
  <2>2. ASSUME NEW p \in PCs \ {"walmark"}, At(p) PROVE Keeps
    BY Zenon, <2>2 DEF At, TypeOK, RecordTypes, TaskType
  <2>3. ASSUME NEW n \in Nat, NEW a \in Nat, CheckAgain(n, a) PROVE Keeps \/ Ends
    BY ZenonT(40), <2>1, <2>3 DEF CheckAgain, Block, TypeOK, RecordTypes, TaskType
  <2>4. ASSUME Contain PROVE Ends
    BY Zenon, <1>0, <2>4 DEF Contain
  <2>5. ASSUME Definite PROVE Keeps \/ Ends
    BY Zenon, <2>2, <2>4, <2>5 DEF Definite, PCs
  <2>6. ASSUME Ambiguous PROVE Keeps \/ Ends
    <3>1. CASE task' = [task EXCEPT !.pc = "status", !.ctx = "resolve"]
      BY Zenon, <3>1 DEF TypeOK, RecordTypes, TaskType
    <3>2. CASE CheckAgain(task.checks, 0)
      BY Zenon, <2>3, <3>2, Fields DEF TypeOK
    <3> QED
      BY Zenon, <1>0, <2>4, <2>6, <3>1, <3>2 DEF Ambiguous
  <2>7. CASE ResumePrepared \/ Recheck
    BY ZenonT(40), <2>7 DEF ResumePrepared, Recheck, NoTask
  <2>8. CASE PersistPrepared \/ Dispatch \/ WalMark \/ BootstrapFail
             \/ SnapshotMoved \/ LoseReply
    <3>1. Keeps \/ Ends
      BY SMTT(30), <2>2, <2>5, <2>6, <2>8 DEF PersistPrepared, Dispatch, WalMark,
         BootstrapFail, SnapshotMoved, LoseReply, PCs
    <3>2. task.pc \notin {"idle", "writing", "exit"}
      BY SMTT(30), <2>8 DEF PersistPrepared, Dispatch, WalMark, BootstrapFail,
         SnapshotMoved, LoseReply
    <3> QED
      BY SMTT(30), <3>1, <3>2
  <2>9. CASE \/ WriteFail \/ PersistRefused \/ PersistFail \/ Retire
             \/ RetireFail \/ ConnectFail
    BY SMTT(30), <2>1, <2>4, <2>9 DEF WriteFail, PersistRefused, PersistFail, Retire,
       RetireFail, ConnectFail
  <2>10. CASE ProvedCommitted
    <3>1. CASE At("walmark")
      <4>1. task'.intent = task.intent
        BY Zenon, <3>1 DEF At, TypeOK, RecordTypes, TaskType
      <4>2. task.pc \notin {"idle", "writing", "exit"}
        BY Zenon, <2>10 DEF ProvedCommitted
      <4> QED
        BY Zenon, <2>10, <4>1, <4>2
    <3> QED
      BY Zenon, <2>1, <2>10, <3>1 DEF ProvedCommitted, Complete
  <2>11. CASE Rejected \/ Unlink \/ UnlinkFail
    <3>1. Keeps \/ Ends
      BY ZenonT(40), <1>0, <2>1, <2>2, <2>4, <2>11 DEF Rejected, Block, Unlink, UnlinkFail,
         AfterUnlink, PCs
    <3>2. task.pc \notin {"idle", "writing", "exit"}
      BY Zenon, <2>11 DEF Rejected, Unlink, UnlinkFail
    <3> QED
      BY Zenon, <3>1, <3>2
  <2>12. CASE StatusAbsent
    <3>1. CASE CheckAgain(task.checks + 1, task.absent + 1)
      <4>1. task.checks + 1 \in Nat /\ task.absent + 1 \in Nat
        BY Fields DEF TypeOK
      <4>2. Keeps \/ Ends
        BY Zenon, <2>3, <3>1, <4>1
      <4> QED
        BY Zenon, <2>12, <4>2 DEF StatusAbsent
    <3>2. CASE task' = [task EXCEPT !.pc = "commit", !.checks = task.checks + 1,
                                    !.absent = task.absent + 1]
      <4>1. Keeps
        BY Zenon, <3>2 DEF TypeOK, RecordTypes, TaskType
      <4> QED
        BY Zenon, <2>12, <4>1 DEF StatusAbsent
    <3> QED
      BY Zenon, <2>12, <3>1, <3>2 DEF StatusAbsent
  <2>13. CASE StatusUnknown
    <3>1. task.checks + 1 \in Nat
      BY Fields DEF TypeOK
    <3>2. Keeps \/ Ends
      BY ZenonT(40), <1>0, <2>3, <2>4, <2>13, <3>1 DEF StatusUnknown
    <3> QED
      BY ZenonT(40), <2>13, <3>2 DEF StatusUnknown
  <2>14. CASE Drain \/ Gc \/ CancelFlush \/ \E d \in detached : RunDetached(d)
    BY Zenon, <1>0, <2>14 DEF Drain, DrainInto, Gc, CancelFlush, RunDetached
  <2> QED
    BY Zenon, <1>2, <2>7, <2>8, <2>9, <2>10, <2>11, <2>12, <2>13, <2>14 DEF Flush
<1>3. CASE Recovery
  <2>1. /\ [NoTask EXCEPT !.pc = "exit"].pc = "exit"
        /\ [NoTask EXCEPT !.pc = "status", !.ctx = "recover",
                          !.intent = rside].intent = rside
        /\ [NoTask EXCEPT !.pc = "status", !.ctx = "recover",
                          !.intent = rside].pc = "status"
    BY Zenon DEF NoTask
  <2> QED
    BY ZenonT(40), <1>0, <1>3, <2>1 DEF Recovery, Crash, StartupFails, Restart, Open,
       ReplayRecord, ReplayFull, ResolveRemaining, ReplayDone, Stop, Restore,
       DrainInto
<1> QED
  BY Zenon, <1>1, <1>2, <1>3 DEF Next


\* Only Open makes a replay plan.
LEMMA TodoFrame ==
  ASSUME Next PROVE todo' \subseteq todo \/ Open
<1>1. CASE Ingest \/ Catalog
  BY ZenonT(40), <1>1 DEF Ingest, GetOrLoad, Reserve, WalAppend, WalAppendFail, Admit,
     CancelIngest, Catalog, CatalogApply, PeerCommit
<1>2. CASE Flush
  BY ZenonT(40), <1>2 DEF Flush, ResumePrepared, Drain, SetPrepared, WriteFail,
     PersistPrepared, PersistRefused, PersistFail, BootstrapFail, Dispatch,
     ProvedCommitted, WalMark, Rejected, SnapshotMoved, LoseReply, ConnectFail,
     StatusAbsent, StatusUnknown, Unlink, UnlinkFail, Gc, Retire, RetireFail,
     Recheck, CancelFlush, RunDetached
<1>3. CASE Recovery
  BY ZenonT(40), <1>3 DEF Recovery, Crash, StartupFails, Restart, ReplayRecord,
     ReplayFull, ResolveRemaining, ReplayDone, Stop
<1> QED
  BY Zenon, <1>1, <1>2, <1>3 DEF Next

-----------------------------------------------------------------------------
(* The initial state. *)

\* An empty table and an empty WAL directory satisfy the invariant.
LEMMA InductiveInit == Init => Inductive
<1> SUFFICES ASSUME Init PROVE Inductive
  BY Zenon
<1>1. TypeOK
  BY SMTT(30), TypeInit
<1>2. /\ cat.gen = 0 /\ cat.epoch = 0 /\ cat.history = {} /\ net = {}
      /\ Published = {}
  BY SMTT(30) DEF Init, Published
<1>3. /\ Intents = {NoIntent} /\ NoIntent.hi = 0
  BY ZenonT(40) DEF Init, Intents, Idle, NoTask, NoIntent
<1>4. CatalogSound /\ NoAckedLoss /\ PublishedOnce /\ FrontierComplete
  BY SMTT(30), <1>2 DEF Init, CatalogSound, NoAckedLoss, PublishedOnce, FrontierComplete
<1>5. IntentsSound
  BY SMTT(30), <1>2, <1>3 DEF Init, IntentsSound, Covers, Accounted
<1>6. ControlSound
  BY SMTT(30) DEF Init, ControlSound, NoTask, Idle, Running
<1>7. BufferSound
  BY Zenon, <1>2 DEF Init, BufferSound, Running
<1>8. ReservedAbove /\ CutoffsProved
  BY SMTT(30), <1>2 DEF Init, ReservedAbove, CutoffsProved
<1>9. Completable
  BY Zenon DEF Init, Completable, Idle, NoTask, Holds
<1> QED
  BY SMTT(30), <1>1, <1>4, <1>5, <1>6, <1>7, <1>8, <1>9 DEF Inductive

\* They are also an initial state of the abstract specification.
LEMMA AbstractInit == Init => Abstract!Init
  BY DEF Init, Abstract!Init, Published

-----------------------------------------------------------------------------
(* What mark_committed finds when an intent is completed. *)

\* The in-flight set and the high water stay: the task keeps its intent, takes the
\* one of the flush state, or ends.
LEMMA CompletableKeeps ==
  ASSUME Completable, UNCHANGED <<loaded, inFlight, highWater>>,
         flush' = flush \/ (task.pc \in Holds /\ flush' = Blocked(task.intent)),
         task'.pc \in Holds =>
           \/ task.pc \in Holds /\ task'.intent = task.intent
           \/ flush.state # "Idle" /\ task'.intent = flush.intent,
         task'.pc = "writing" => task.pc = "writing" /\ flush' = flush
  PROVE  Completable'
<1>1. flush'.state # "Idle" => CanMark(flush.intent)'
  <2>1. CASE flush' = flush
    BY Zenon, <2>1 DEF Completable, CanMark
  <2>2. CASE task.pc \in Holds /\ flush' = Blocked(task.intent)
    BY Zenon, <2>2 DEF Completable, CanMark, Blocked
  <2> QED BY Zenon, <2>1, <2>2
<1>2. task'.pc \in Holds => CanMark(task.intent)'
  BY Zenon DEF Completable, CanMark
<1>3. task'.pc = "writing" => flush'.state = "Idle"
  BY Zenon DEF Completable
<1>4. ~loaded' => flush'.state = "Idle" /\ task'.pc \notin Holds \cup {"writing"}
  BY Zenon DEF Completable
<1> QED BY Zenon, <1>1, <1>2, <1>3, <1>4 DEF Completable

LEMMA CompletableRestore ==
  ASSUME TypeOK, Completable, loaded, loaded' = loaded, highWater' = highWater,
         NEW i \in IntentType, NEW rows \in SUBSET Generations, Restore(i, rows)
  PROVE  Completable'
<1> DEFINE range == {g \in rows : i.lo <= g /\ g <= i.hi}
<1>1. CASE inFlight = {} /\ (i.hi <= highWater \/ {i.lo, i.hi} \subseteq range)
  <2>1. /\ inFlight' = IF i.hi <= highWater THEN {} ELSE range
        /\ flush' = Holding(i)
        /\ task' = [NoTask EXCEPT !.pc = "status", !.ctx = "recover", !.intent = i]
    BY Zenon, <1>1 DEF Restore
  <2>2. flush'.intent = i /\ task'.intent = i /\ task'.pc = "status"
    BY Zenon, <2>1 DEF Holding, NoTask
  <2>3. CASE i.hi <= highWater
    BY Zenon, <2>1, <2>2, <2>3 DEF Completable, CanMark, Holds
  <2>4. CASE ~(i.hi <= highWater)
    <3>1. inFlight' = range /\ i.hi \in range /\ \A g \in range : g <= i.hi
      BY Zenon, <1>1, <2>1, <2>4
    <3> HIDE DEF range
    <3> QED BY Zenon, <2>2, <3>1 DEF Completable, CanMark, Holds
  <2> QED BY Zenon, <2>3, <2>4
<1>2. CASE ~(inFlight = {} /\ (i.hi <= highWater \/ {i.lo, i.hi} \subseteq range))
  <2>1. UNCHANGED <<inFlight, flush>> /\ task'.pc = "exit"
    BY Zenon, <1>2 DEF Restore, NoTask
  <2> QED BY Zenon, <2>1, CompletableKeeps DEF Holds
<1> QED BY Zenon, <1>1, <1>2

LEMMA CompletableStep ==
  ASSUME TypeOK, ControlSound, Completable, Next
  PROVE  Completable'
<1>1. ASSUME UNCHANGED <<loaded, inFlight, highWater, flush, task>> PROVE Completable'
  BY Zenon, <1>1, CompletableKeeps
<1>2. ASSUME flush' = Idle, loaded' = loaded \/ task' = NoTask,
             task'.pc \notin Holds \cup {"writing"}
      PROVE  Completable'
  BY Zenon, <1>2 DEF Completable, Idle
<1>3. ASSUME ReturnError PROVE task'.pc \in {"idle", "exit"}
  BY Zenon, <1>3 DEF ReturnError, NoTask, TypeOK, RecordTypes, TaskType
<1>4. ASSUME NEW p, At(p) PROVE task'.pc = p /\ task'.intent = task.intent
  BY Zenon, <1>4 DEF At, TypeOK, RecordTypes, TaskType
<1>5. NoTask.pc = "idle"
  BY Zenon DEF NoTask
<1>6. ASSUME UNCHANGED <<loaded, inFlight, highWater>>, task.pc \in Holds,
             flush' = flush \/ flush' = Blocked(task.intent),
             task'.pc \in {"idle", "exit", "walmark"} \/ (task'.pc \in Holds /\ task'.intent = task.intent)
      PROVE  Completable'
  BY Zenon, <1>6, CompletableKeeps DEF Holds
<1>7. CASE Ingest
  <2>1. CASE GetOrLoad
    BY Zenon, <2>1 DEF GetOrLoad, Completable
  <2>2. CASE ~GetOrLoad
    BY Zenon, <1>1, <1>7, <2>2 DEF Ingest, Reserve, WalAppend, WalAppendFail, Admit, CancelIngest,
       bufferVars
  <2> QED BY Zenon, <2>1, <2>2
<1>8. CASE Catalog
  BY Zenon, <1>1, <1>8 DEF Catalog, CatalogApply, PeerCommit, bufferVars
<1>9. CASE Flush
  <2>1. CASE ResumePrepared \/ Recheck
    <3>1. UNCHANGED <<loaded, inFlight, highWater, flush>> /\ flush.state # "Idle"
          /\ task'.intent = flush.intent /\ task'.pc # "writing"
      BY Zenon, <2>1 DEF ResumePrepared, Recheck, bufferVars, NoTask
    <3> QED BY Zenon, <3>1, CompletableKeeps
  <2>2. CASE Drain
    <3>1. flush' = flush /\ flush.state = "Idle" /\ task'.pc = "writing" /\ loaded' = loaded
      BY Zenon, <2>2 DEF Drain, DrainInto, StartedFlush, NoTask
    <3>2. loaded
      BY Zenon, <2>2 DEF Drain, DrainInto, Drainable, ControlSound
    <3> QED BY Zenon, <3>1, <3>2 DEF Completable, Holds
  <2>3. CASE SetPrepared
    <3>1. PICK lo \in inFlight, hi \in inFlight :
            /\ \A g \in inFlight : lo <= g /\ g <= hi
            /\ LET i == [id |-> nextId, epoch |-> epoch, lo |-> lo, hi |-> hi,
                         rows |-> inFlight]
               IN  /\ flush' = Holding(i)
                   /\ task' = [task EXCEPT !.pc = "persist", !.intent = i]
      BY Zenon, <2>3 DEF SetPrepared
    <3>2. /\ inFlight' = inFlight /\ loaded' = loaded /\ loaded
          /\ task'.pc = "persist" /\ task'.intent.hi = hi /\ flush'.intent.hi = hi
      BY Zenon, <2>3, <3>1 DEF SetPrepared, Completable, Holding, TypeOK, RecordTypes, TaskType
    <3>3. inFlight' # {}
      BY Zenon, <3>2
    <3> QED BY <3>1, <3>2, <3>3 DEF Completable, CanMark, Holds
  <2>4. CASE WriteFail
    <3>1. flush' = flush /\ flush.state = "Idle" /\ loaded' = loaded
      BY Zenon, <2>4 DEF WriteFail, Completable
    <3>2. task'.pc \in {"idle", "exit"}
      BY Zenon, <1>3, <2>4 DEF WriteFail
    <3> QED BY Zenon, <3>1, <3>2 DEF Completable, Holds
  <2>5. CASE PersistPrepared \/ Dispatch
    BY Zenon, <1>4, <1>6, <2>5 DEF PersistPrepared, Dispatch, bufferVars, Holds
  <2>6. CASE PersistRefused \/ PersistFail \/ RetireFail
    BY Zenon, <1>3, <1>6, <2>6 DEF PersistRefused, PersistFail, RetireFail, bufferVars, Holds
  <2>7. CASE BootstrapFail \/ SnapshotMoved \/ ConnectFail \/ Rejected
    BY Zenon, <1>3, <1>4, <1>5, <1>6, <2>7 DEF BootstrapFail, SnapshotMoved, ConnectFail, Rejected,
       Definite, Contain, Block, Holds
  <2>8. ASSUME NEW n, NEW a, CheckAgain(n, a), task.pc \in Holds,
               UNCHANGED <<loaded, inFlight, highWater>>
        PROVE  Completable'
    <3>1. CASE Block
      BY Zenon, <1>3, <1>6, <2>8, <3>1 DEF Block
    <3>2. CASE /\ task' = [task EXCEPT !.pc = "status", !.checks = n, !.absent = a]
               /\ UNCHANGED flush
      <4>1. task'.pc = "status" /\ task'.intent = task.intent
        BY Zenon, <3>2 DEF TypeOK, RecordTypes, TaskType
      <4> QED BY Zenon, <1>6, <2>8, <3>2, <4>1 DEF Holds
    <3> QED BY Zenon, <2>8, <3>1, <3>2 DEF CheckAgain
  <2>9. CASE LoseReply
    <3>1. task.pc \in Holds /\ UNCHANGED <<loaded, inFlight, highWater>> /\ Ambiguous
      BY Zenon, <2>9 DEF LoseReply, Holds
    <3>2. CASE /\ task' = [task EXCEPT !.pc = "status", !.ctx = "resolve"]
               /\ UNCHANGED <<flush, rside>>
      <4>1. task'.pc = "status" /\ task'.intent = task.intent
        BY Zenon, <3>2 DEF TypeOK, RecordTypes, TaskType
      <4> QED BY Zenon, <1>6, <3>1, <3>2, <4>1 DEF Holds
    <3>3. CASE CheckAgain(task.checks, 0)
      BY Zenon, <2>8, <3>1, <3>3
    <3>4. CASE task' = NoTask /\ flush' = flush
      BY Zenon, <1>5, <1>6, <3>1, <3>4
    <3>5. CASE Contain
      BY Zenon, <1>5, <1>6, <3>1, <3>5 DEF Contain
    <3> QED BY Zenon, <3>1, <3>2, <3>3, <3>4, <3>5 DEF Ambiguous
  <2>10. CASE StatusAbsent
    <3>1. task.pc \in Holds /\ UNCHANGED <<loaded, inFlight, highWater>>
      BY Zenon, <2>10 DEF StatusAbsent, Holds
    <3>2. CASE CheckAgain(task.checks + 1, task.absent + 1)
      BY Zenon, <2>8, <3>1, <3>2
    <3>3. CASE /\ task' = [task EXCEPT !.pc = "commit", !.checks = task.checks + 1,
                                       !.absent = task.absent + 1]
               /\ UNCHANGED flush
      <4>1. task'.pc = "commit" /\ task'.intent = task.intent
        BY Zenon, <3>3 DEF TypeOK, RecordTypes, TaskType
      <4> QED BY Zenon, <1>6, <3>1, <3>3, <4>1 DEF Holds
    <3> QED BY Zenon, <2>10, <3>2, <3>3 DEF StatusAbsent
  <2>11. CASE StatusUnknown
    <3>1. task.pc \in Holds /\ UNCHANGED <<loaded, inFlight, highWater>>
      BY Zenon, <2>11 DEF StatusUnknown, Holds
    <3>2. CASE CheckAgain(task.checks + 1, 0)
      BY Zenon, <2>8, <3>1, <3>2
    <3>3. CASE task' = NoTask /\ flush' = flush
      BY Zenon, <1>5, <1>6, <3>1, <3>3
    <3>4. CASE Contain
      BY Zenon, <1>5, <1>6, <3>1, <3>4 DEF Contain
    <3> QED BY Zenon, <2>11, <3>2, <3>3, <3>4 DEF StatusUnknown
  <2>12. CASE ProvedCommitted
    <3>1. task.pc \in Holds /\ loaded' = loaded /\ Complete
      BY Zenon, <2>12 DEF ProvedCommitted, Holds
    <3>2. CanMark(task.intent)
      BY Zenon, <3>1 DEF Completable
    <3>3. flush' = Idle /\ task'.pc = "walmark"
      BY Zenon, <1>4, <3>1, <3>2 DEF Complete
    <3> QED BY Zenon, <1>2, <3>1, <3>3 DEF Holds
  <2>13. CASE Retire
    BY Zenon, <1>2, <1>3, <2>13 DEF Retire, Holds
  <2>14. CASE WalMark \/ Unlink \/ UnlinkFail \/ Gc \/ CancelFlush
    <3>1. UNCHANGED <<loaded, inFlight, highWater, flush>>
      BY Zenon, <2>14 DEF WalMark, Unlink, UnlinkFail, Gc, CancelFlush, bufferVars
    <3>2. task'.pc \in {"idle", "exit", "unlink", "gc"}
      BY Zenon, <1>3, <1>4, <1>5, <2>14 DEF WalMark, Unlink, UnlinkFail, AfterUnlink, Gc, CancelFlush
    <3> QED BY Zenon, <3>1, <3>2, CompletableKeeps DEF Holds
  <2>15. CASE \E d \in detached : RunDetached(d)
    BY Zenon, <1>1, <2>15 DEF RunDetached, bufferVars
  <2> QED BY Zenon, <1>9, <2>1, <2>2, <2>3, <2>4, <2>5, <2>6, <2>7, <2>9, <2>10, <2>11, <2>12, <2>13,
             <2>14, <2>15 DEF Flush
<1>10. CASE Recovery
  <2>1. CASE Crash \/ StartupFails
    BY Zenon, <1>2, <1>5, <2>1 DEF Crash, StartupFails, Stop, Holds
  <2>2. CASE Restart \/ Open \/ ReplayDone
    BY Zenon, <1>1, <2>2 DEF Restart, Open, ReplayDone, bufferVars
  <2>3. ASSUME NEW g \in todo, ReplayRecord(g) PROVE Completable'
    <3>1. loaded /\ loaded' = loaded /\ highWater' = highWater
      BY Zenon, <2>3 DEF ReplayRecord, NextRecord
    <3>2. rside \in IntentType /\ pending \cup {g} \in SUBSET Generations
      BY Zenon DEF TypeOK, RecordTypes, SetTypes
    <3>3. CASE Restore(rside, pending \cup {g})
      BY Zenon, <3>1, <3>2, <3>3, CompletableRestore
    <3>4. CASE UNCHANGED <<inFlight, flush, task>>
      BY Zenon, <1>1, <3>1, <3>4
    <3> QED BY Zenon, <2>3, <3>3, <3>4 DEF ReplayRecord
  <2>4. ASSUME NEW g \in todo, ReplayFull(g) PROVE Completable'
    <3>1. loaded /\ UNCHANGED <<loaded, highWater, flush>>
      BY Zenon, <2>4 DEF ReplayFull, NextRecord
    <3>2. CASE task' = [NoTask EXCEPT !.pc = "exit"] /\ inFlight' = inFlight
      <4>1. task'.pc = "exit"
        BY Zenon, <3>2 DEF NoTask
      <4> QED BY Zenon, <3>1, <3>2, <4>1, CompletableKeeps DEF Holds
    <3>3. CASE DrainInto(StartedFlush)
      <4>1. flush.state = "Idle" /\ task'.pc = "writing"
        BY Zenon, <3>3 DEF DrainInto, StartedFlush, NoTask
      <4> QED BY Zenon, <3>1, <4>1 DEF Completable, Holds
    <3> QED BY Zenon, <2>4, <3>2, <3>3 DEF ReplayFull
  <2>5. CASE ResolveRemaining
    <3>1. loaded /\ loaded' = loaded /\ highWater' = highWater /\ Restore(rside, pending)
      BY Zenon, <2>5 DEF ResolveRemaining
    <3>2. rside \in IntentType /\ pending \in SUBSET Generations
      BY Zenon DEF TypeOK, RecordTypes, SetTypes
    <3> QED BY Zenon, <3>1, <3>2, CompletableRestore
  <2> QED BY Zenon, <1>10, <2>1, <2>2, <2>3, <2>4, <2>5 DEF Recovery
<1> QED BY Zenon, <1>7, <1>8, <1>9, <1>10 DEF Next

-----------------------------------------------------------------------------
(* The catalog. *)

\* A dispatched intent is well formed and lies above the checkpoint.
LEMMA NetIntents ==
  ASSUME TypeOK, CatalogSound, IntentsSound, NEW i \in net
  PROVE  /\ WellFormed(i) /\ Covers(i) /\ Accounted(i.hi)
         /\ i.hi > cat.gen /\ i.hi \in Generations
         /\ \A g \in i.rows : g > cat.gen /\ g <= i.hi
<1>1. i \in IntentType /\ i \in Intents
  BY Zenon DEF TypeOK, RecordTypes, Intents
<1>2. i.lo > cat.gen /\ cat.gen \in Nat /\ i.lo \in Nat /\ i.hi \in Nat
  BY <1>1, Fields, IntentFields DEF TypeOK, CatalogSound
<1>3. i # NoIntent
  BY <1>2 DEF NoIntent
<1>4. WellFormed(i) /\ Covers(i) /\ Accounted(i.hi)
  BY Zenon, <1>1, <1>3 DEF IntentsSound
<1>5. i.rows \subseteq Generations
  BY Zenon, <1>1, IntentFields
<1> QED
  BY <1>2, <1>4, <1>5, ConstantsAssumption DEF WellFormed, Generations

\* What the guard and the status check prove: the intent is at or below the
\* checkpoint.
LEMMA ProvedBelow ==
  ASSUME CatalogSound, NEW i, IsPublished(cat.history, i)
  PROVE  i.hi <= cat.gen
  BY Zenon DEF CatalogSound, IsPublished, SameIdentity

\* A commit moves the checkpoint forward and keeps what is published.
LEMMA CatalogGrows ==
  ASSUME TypeOK, CatalogSound, IntentsSound, [Next]_vars
  PROVE  /\ cat'.gen >= cat.gen /\ cat'.epoch >= cat.epoch
         /\ cat.history \subseteq cat'.history /\ Published \subseteq Published'
<1>0. cat \in CatalogType /\ cat.gen \in Nat /\ cat.epoch \in Nat
  BY Fields, ConstantsAssumption DEF TypeOK, RecordTypes
<1>1. CASE cat' = cat
  BY <1>0, <1>1 DEF Published
<1>2. ASSUME NEW i \in net, CatalogApply(i)
      PROVE  /\ cat'.gen >= cat.gen /\ cat'.epoch >= cat.epoch
             /\ cat.history \subseteq cat'.history
  <2>1. i.hi > cat.gen /\ i.epoch >= cat.epoch /\ i.hi \in Nat
    BY NetIntents DEF CatalogSound, Generations
  <2>2. cat'.gen = i.hi /\ cat'.epoch = i.epoch /\ cat'.history = cat.history \cup {i}
    BY Zenon, <1>0, <1>2 DEF CatalogApply, CatalogType
  <2> QED
    BY <1>0, <2>1, <2>2
<1>3. CASE PeerCommit
  <2>1. cat'.gen = cat.gen /\ cat'.epoch = cat.epoch /\ cat'.history = cat.history
    BY Zenon, <1>0, <1>3 DEF PeerCommit, CatalogType
  <2> QED
    BY <1>0, <2>1 DEF Published
<1>4. cat' = cat \/ (\E i \in net : CatalogApply(i)) \/ PeerCommit
  <2>1. CASE Next
    BY Zenon, <2>1, CatalogFrame
  <2>2. CASE UNCHANGED vars
    BY Zenon, <2>2 DEF vars
  <2> QED
    BY Zenon, <2>1, <2>2
<1>5. cat.history \subseteq cat'.history => Published \subseteq Published'
  BY Zenon DEF Published
<1> QED
  BY Zenon, <1>1, <1>2, <1>3, <1>4, <1>5

\* The checkpoint, the history and the dispatched updates stay consistent: an
\* accepted verdict holds until the catalog changes, and then the update's
\* snapshot requirement fails.
LEMMA CatalogStep ==
  ASSUME TypeOK, CatalogSound, IntentsSound, ControlSound, Next
  PROVE  CatalogSound'
<1>0. cat \in CatalogType /\ cat.gen \in Nat /\ cat.epoch \in Nat
  BY Fields, ConstantsAssumption DEF TypeOK, RecordTypes
<1>1. CASE cat' = cat
  <2>1. \A i \in net' : i.lo > cat.gen /\ i.epoch >= cat.epoch
    <3>1. CASE net' \subseteq net
      BY Zenon, <3>1 DEF CatalogSound
    <3>2. CASE Dispatch
      <4>1. task.intent \in IntentType /\ task.intent # NoIntent
        BY Zenon, <3>2, Fields DEF TypeOK, Dispatch, ControlSound
      <4>2. WellFormed(task.intent)
        BY Zenon, <4>1 DEF IntentsSound, Intents
      <4>3. \/ cat.gen = 0
            \/ task.intent.epoch >= cat.epoch /\ task.intent.lo > cat.gen
        <5>1. Verdict(task.intent) = "Accepted"
          BY Zenon, <3>2 DEF Dispatch
        <5>2. ~(cat.gen # 0 /\ task.intent.epoch < cat.epoch)
          BY Zenon, <5>1 DEF Verdict, Validate
        <5>3. ~(cat.gen # 0 /\ task.intent.lo <= cat.gen)
          BY Zenon, <5>1 DEF Verdict, Validate
        <5> QED
          BY SMTT(30), <1>0, <4>1, <5>2, <5>3, IntentFields
      <4>4. task.intent.lo > cat.gen /\ task.intent.epoch >= cat.epoch
        BY <1>0, <4>1, <4>2, <4>3, IntentFields DEF WellFormed, CatalogSound
      <4> QED
        BY Zenon, <3>2, <4>4 DEF Dispatch, CatalogSound
    <3> QED
      BY Zenon, <3>1, <3>2, NetFrame
  <2> QED
    BY Zenon, <1>1, <2>1 DEF CatalogSound
<1>2. ASSUME NEW i \in net, CatalogApply(i) PROVE CatalogSound'
  <2>1. /\ cat'.gen = i.hi /\ cat'.epoch = i.epoch
        /\ cat'.history = cat.history \cup {i} /\ net' = {}
    BY Zenon, <1>0, <1>2 DEF CatalogApply, CatalogType
  <2>2. i.hi > cat.gen /\ i.hi \in Nat /\ i.hi # 0 /\ \A g \in i.rows : g <= i.hi
    BY <1>0, NetIntents DEF Generations
  <2>3. \A p \in cat.history : p \in IntentType
    BY Zenon, <1>0 DEF CatalogType
  <2>4. \A p \in cat.history : p.hi <= i.hi /\ \A g \in p.rows : g <= i.hi
    BY <1>0, <2>2, <2>3, IntentFields DEF CatalogSound, Generations
  <2> QED
    BY <2>1, <2>2, <2>4 DEF CatalogSound
<1>3. CASE PeerCommit
  BY Zenon, <1>0, <1>3 DEF PeerCommit, CatalogType, CatalogSound
<1> QED
  BY Zenon, <1>1, <1>2, <1>3, CatalogFrame

-----------------------------------------------------------------------------
(* The safety properties. *)

\* What a drop of the record from the WAL, or an advance of a cutoff, rests on.
LEMMA CutoffsStep ==
  ASSUME TypeOK, CatalogSound, IntentsSound, ControlSound, CutoffsProved, Next
  PROVE  CutoffsProved'
<1>0. /\ cat.gen \in Nat /\ cat'.gen \in Nat /\ cat'.gen >= cat.gen
      /\ walCut \in Nat /\ highWater \in Nat
      /\ task.intent.hi \in Nat
  <2>1. RecordTypes /\ RecordTypes'
    BY Zenon, TypeStep DEF TypeOK
  <2>2. cat.gen \in Nat /\ task.intent.hi \in Nat
    BY <2>1, Fields, IntentFields, ConstantsAssumption
  <2>3. cat'.gen \in Nat
    BY <2>1, ConstantsAssumption DEF RecordTypes, CatalogType
  <2> QED
    BY <2>2, <2>3, CatalogGrows, ConstantsAssumption DEF TypeOK, NumberTypes
<1>1. walCut' <= cat.gen
  <2>1. CASE WalMark
    BY Zenon, <1>0, <2>1 DEF WalMark, Larger, ControlSound, CutoffsProved
  <2> QED
    BY <1>0, <2>1, CutoffFrame DEF CutoffsProved
<1>2. highWater' <= cat.gen
  <2>1. CASE ProvedCommitted
    <3>1. IsPublished(cat.history, task.intent)
      BY Zenon, <2>1 DEF ProvedCommitted, Verdict, Validate
    <3>2. task.intent.hi <= cat.gen
      BY Zenon, <3>1, ProvedBelow
    <3>3. highWater' \in {highWater, Larger(highWater, task.intent.hi)}
      BY Zenon, <2>1 DEF ProvedCommitted, Complete
    <3> QED
      BY Zenon, <1>0, <3>2, <3>3 DEF Larger, CutoffsProved
  <2> QED
    BY <1>0, <2>1, CutoffFrame DEF CutoffsProved
<1>3. walCut' \in Nat /\ highWater' \in Nat
  BY TypeStep, ConstantsAssumption DEF TypeOK, NumberTypes
<1> QED
  BY <1>0, <1>1, <1>2, <1>3 DEF CutoffsProved

\* The admitted batch of a step is above the checkpoint.
LEMMA FrontierStep ==
  ASSUME TypeOK, CatalogSound, IntentsSound, ControlSound, ReservedAbove,
         FrontierComplete, Next
  PROVE  FrontierComplete'
<1>0. cat \in CatalogType /\ cat.gen \in Nat /\ acked \subseteq Nat
  BY Fields, ConstantsAssumption DEF TypeOK, RecordTypes, SetTypes, Generations
<1>1. ASSUME NEW i \in net, CatalogApply(i) PROVE FrontierComplete'
  <2>1. cat'.gen = i.hi /\ cat'.history = cat.history \cup {i} /\ acked' = acked
    BY Zenon, <1>0, <1>1 DEF CatalogApply, CatalogType
  <2>2. Published' = Published \cup i.rows
    BY Zenon, <2>1 DEF Published
  <2>3. Covers(i)
    BY Zenon, NetIntents
  <2> QED
    BY Zenon, <2>1, <2>2, <2>3 DEF Covers, FrontierComplete
<1>2. CASE PeerCommit
  <2>1. cat'.gen = cat.gen /\ cat'.history = cat.history /\ acked' = acked
    BY Zenon, <1>0, <1>2 DEF PeerCommit, CatalogType
  <2> QED
    BY Zenon, <2>1 DEF FrontierComplete, Published
<1>3. CASE cat' = cat
  <2>1. CASE acked' = acked
    BY Zenon, <1>3, <2>1 DEF FrontierComplete, Published
  <2>2. ASSUME NEW g \in live, Admit(g) PROVE FrontierComplete'
    <3>1. g > cat.gen /\ g \in Nat
      BY <2>2 DEF ControlSound, ReservedAbove, TypeOK, SetTypes, Generations
    <3>2. acked' = acked \cup {g}
      BY Zenon, <2>2 DEF Admit
    <3> QED
      BY <1>0, <1>3, <3>1, <3>2 DEF FrontierComplete, Published
  <2> QED
    BY Zenon, <2>1, <2>2, AckedFrame
<1> QED
  BY Zenon, <1>1, <1>2, <1>3, CatalogFrame

\* WAL GC deletes nothing that is acknowledged and unpublished.
LEMMA NoLossStep ==
  ASSUME TypeOK, CatalogSound, IntentsSound, NoAckedLoss, CutoffsProved,
         FrontierComplete, Next
  PROVE  NoAckedLoss'
<1>0. /\ cat.gen \in Nat /\ walCut \in Nat /\ acked \subseteq Nat
      /\ Published \subseteq Published'
  BY Fields, CatalogGrows, ConstantsAssumption
  DEF TypeOK, NumberTypes, SetTypes, Generations
<1>1. \A g \in acked : g \in wal' \/ g \in Published
  BY <1>0, WalFrame DEF NoAckedLoss, CutoffsProved, FrontierComplete
<1>2. ASSUME NEW g \in live, Admit(g) PROVE acked' = acked \cup {g} /\ g \in wal'
  BY Zenon, <1>2 DEF Admit
<1> QED
  BY ZenonT(40), <1>0, <1>1, <1>2, AckedFrame DEF NoAckedLoss

\* A new commit publishes only rows above all published ones.
LEMMA PublishedOnceStep ==
  ASSUME TypeOK, CatalogSound, IntentsSound, PublishedOnce, Next
  PROVE  PublishedOnce'
<1>0. cat \in CatalogType /\ cat.gen \in Nat
  BY Fields, ConstantsAssumption DEF TypeOK, RecordTypes
<1>1. ASSUME NEW i \in net, CatalogApply(i) PROVE PublishedOnce'
  <2>1. cat'.history = cat.history \cup {i}
    BY Zenon, <1>0, <1>1 DEF CatalogApply, CatalogType
  <2>2. ASSUME NEW p \in cat.history PROVE p.rows \cap i.rows = {}
    <3>1. p.rows \subseteq Generations
      BY Zenon, <1>0, IntentFields DEF CatalogType
    <3>2. \A g \in p.rows : g <= cat.gen /\ g \in Nat
      BY <3>1 DEF CatalogSound, Generations
    <3>3. \A g \in i.rows : g > cat.gen
      BY Zenon, NetIntents
    <3> QED
      BY <1>0, <3>2, <3>3
  <2> QED
    BY Zenon, <2>1, <2>2 DEF PublishedOnce
<1>2. CASE PeerCommit
  BY Zenon, <1>0, <1>2 DEF PeerCommit, CatalogType, PublishedOnce
<1> QED
  BY Zenon, <1>1, <1>2, CatalogFrame DEF PublishedOnce

-----------------------------------------------------------------------------
(* The intents. *)

\* Whatever height a run knows of, it keeps knowing of: below the checkpoint,
\* in the replay plan or below the next generation.
LEMMA AccountedStep ==
  ASSUME TypeOK, CatalogSound, IntentsSound, CutoffsProved, Next,
         NEW h \in Nat, Accounted(h)
  PROVE  Accounted(h)'
<1>0. /\ cat.gen \in Nat /\ cat'.gen \in Nat /\ cat'.gen >= cat.gen
      /\ walCut \in Nat /\ walCut <= cat.gen
  <2>1. RecordTypes /\ RecordTypes'
    BY Zenon, TypeStep DEF TypeOK
  <2>2. cat'.gen \in Nat
    BY <2>1, ConstantsAssumption DEF RecordTypes, CatalogType
  <2> QED
    BY <2>1, <2>2, Fields, CatalogGrows, ConstantsAssumption
    DEF TypeOK, NumberTypes, CutoffsProved
<1>1. h <= cat'.gen \/ h \in wal'
  BY <1>0, WalFrame DEF Accounted
<1>2. ASSUME Running', ~(h <= cat'.gen)
      PROVE  h \in todo' \/ (loaded' /\ h < nextGen')
  <2>0. ~(h <= cat.gen) /\ nextGen \in Nat /\ nextGen' \in Nat
    BY <1>0, <1>2, TypeStep, ConstantsAssumption DEF TypeOK, NumberTypes
  <2>1. CASE Open
    BY <2>0, <2>1, <1>0 DEF Open, Accounted
  <2>2. CASE GetOrLoad
    BY Zenon, <2>0, <2>2 DEF GetOrLoad, Accounted, Running
  <2>3. ASSUME NEW g \in todo, ReplayRecord(g)
        PROVE  h \in todo' \/ (loaded' /\ h < nextGen')
    <3>1. /\ loaded' = loaded /\ loaded /\ todo' = todo \ {g}
          /\ nextGen' = Larger(nextGen, g + 1) /\ Running
      BY Zenon, <2>3 DEF ReplayRecord, NextRecord, Running
    <3>2. h \in todo \/ h < nextGen
      BY Zenon, <2>0, <3>1 DEF Accounted
    <3>3. g \in Nat
      BY DEF TypeOK, SetTypes, Generations
    <3>4. h < nextGen => h < nextGen'
      BY <2>0, <3>1, <3>3 DEF Larger
    <3>5. h = g => h < nextGen'
      BY <2>0, <3>1, <3>3 DEF Larger
    <3> QED
      BY Zenon, <3>1, <3>2, <3>4, <3>5
  <2>4. CASE Running /\ todo' = todo /\ loaded' = loaded /\ nextGen' >= nextGen
    <3>1. h \in todo \/ (loaded /\ h < nextGen)
      BY Zenon, <2>0, <2>4 DEF Accounted
    <3>2. h < nextGen => h < nextGen'
      BY <2>0, <2>4
    <3> QED
      BY Zenon, <2>4, <3>1, <3>2
  <2> QED
    BY Zenon, <1>2, <2>1, <2>2, <2>3, <2>4, PlaceFrame
<1> QED
  BY Zenon, <1>1, <1>2 DEF Accounted

\* The intent SetPrepared makes is sound: its range ends at the last batch in
\* flight, and every other unpublished acknowledged batch is above that.
LEMMA PreparedSound ==
  ASSUME TypeOK, ControlSound, BufferSound, SetPrepared
  PROVE  /\ WellFormed(task'.intent) /\ Covers(task'.intent)
         /\ Accounted(task'.intent.hi) /\ task'.intent.hi \in inFlight
         /\ task'.intent \in IntentType
<1>1. PICK lo \in inFlight, hi \in inFlight :
        /\ \A g \in inFlight : lo <= g /\ g <= hi
        /\ task'.intent = [id |-> nextId, epoch |-> epoch, lo |-> lo,
                           hi |-> hi, rows |-> inFlight]
        /\ task'.intent \in IntentType
  BY Zenon, PreparedType
<1>2. /\ task'.intent.lo = lo /\ task'.intent.hi = hi
      /\ task'.intent.rows = inFlight
  BY <1>1
<1>3. inFlight \subseteq Nat \ {0} /\ acked \subseteq Nat /\ todo \subseteq Nat
  BY DEF TypeOK, SetTypes, Generations
<1>4. Running /\ loaded
  <2>1. task.pc = "writing"
    BY Zenon DEF SetPrepared
  <2>2. Running
    BY Zenon, <2>1 DEF ControlSound, NoTask
  <2> QED
    BY Zenon, <1>1, <2>2 DEF ControlSound
<1>5. WellFormed(task'.intent)
  BY <1>1, <1>2, <1>3 DEF WellFormed
<1>6. Covers(task'.intent)
  <2>1. SUFFICES ASSUME NEW g \in acked, g <= hi, g \notin inFlight,
                        g \notin Published
                 PROVE  FALSE
    BY Zenon, <1>2 DEF Covers
  <2>2. g \in pending \/ g \in todo
    BY Zenon, <1>4, <2>1 DEF BufferSound
  <2>3. CASE g \in pending
    <3>1. hi < g
      BY SMTT(30), <1>1, <2>1, <2>3 DEF BufferSound
    <3> QED
      BY <1>3, <2>1, <3>1
  <2>4. CASE g \in todo
    <3>1. hi < g
      BY Zenon, <1>1, <2>4 DEF BufferSound
    <3> QED
      BY <1>3, <2>1, <3>1
  <2> QED
    BY Zenon, <2>2, <2>3, <2>4
<1>7. Accounted(hi)
  BY Zenon, <1>1, <1>4 DEF Accounted, BufferSound
<1> QED
  BY Zenon, <1>1, <1>2, <1>5, <1>6, <1>7

\* It is the only new intent.
LEMMA PreparedIntents ==
  ASSUME TypeOK, SetPrepared PROVE Intents' \subseteq Intents \cup {task'.intent}
<1>1. flush' = Holding(task'.intent)
  BY ZenonT(40), PreparedType
<1>2. flush'.intent = task'.intent
  BY Zenon, <1>1 DEF Holding
<1> QED
  BY Zenon, <1>2 DEF SetPrepared, Intents

\* Every intent stays sound, wherever it moves: no batch is acknowledged below
\* the end of a range that may still be committed.
LEMMA IntentsStep ==
  ASSUME TypeOK, CatalogSound, IntentsSound, ControlSound, BufferSound,
         ReservedAbove, CutoffsProved, Next
  PROVE  IntentsSound'
<1>0. /\ Published \subseteq Published' /\ cat.gen \in Nat
      /\ acked \subseteq Nat \ {0} /\ live \subseteq Nat \ {0}
      /\ cat'.gen \in Nat
  <2>1. RecordTypes /\ RecordTypes'
    BY Zenon, TypeStep DEF TypeOK
  <2>2. cat'.gen \in Nat
    BY <2>1, ConstantsAssumption DEF RecordTypes, CatalogType
  <2> QED
    BY <2>1, <2>2, Fields, CatalogGrows, ConstantsAssumption
    DEF TypeOK, SetTypes, Generations
<1>1. ASSUME NEW i \in Intents
      PROVE  (i = NoIntent \/ WellFormed(i)) /\ Covers(i)' /\ Accounted(i.hi)'
  <2>1. i \in IntentType /\ i.hi \in Nat
    BY Fields, IntentFields DEF TypeOK, RecordTypes, Intents
  <2>2. (i = NoIntent \/ WellFormed(i)) /\ Covers(i) /\ Accounted(i.hi)
    BY Zenon DEF IntentsSound
  <2>3. Accounted(i.hi)'
    BY Zenon, <2>1, <2>2, AccountedStep
  <2>4. Covers(i)'
    <3>1. CASE acked' = acked
      BY Zenon, <1>0, <2>2, <3>1 DEF Covers
    <3>2. ASSUME NEW g \in live, Admit(g) PROVE Covers(i)'
      <4>1. acked' = acked \cup {g}
        BY Zenon, <3>2 DEF Admit
      <4>2. i.hi < g
        BY Zenon DEF ControlSound, ReservedAbove
      <4>3. ~(g <= i.hi)
        BY <1>0, <2>1, <4>2
      <4> QED
        BY Zenon, <1>0, <2>2, <4>1, <4>3 DEF Covers
    <3> QED
      BY Zenon, <3>1, <3>2, AckedFrame
  <2> QED
    BY Zenon, <2>2, <2>3, <2>4
<1>2. Covers(NoIntent)' /\ Accounted(NoIntent.hi)'
  <2>1. NoIntent.hi = 0
    BY Zenon DEF NoIntent
  <2>2. acked' \subseteq Nat \ {0}
    BY TypeStep DEF TypeOK, SetTypes, Generations
  <2> QED
    BY <1>0, <2>1, <2>2 DEF Covers, Accounted
<1>3. CASE ~SetPrepared
  BY Zenon, <1>1, <1>2, <1>3, IntentFrame DEF IntentsSound, WellFormed
<1>4. CASE SetPrepared
  <2>0. PICK new : new = task'.intent
    BY Zenon
  <2>1. WellFormed(new) /\ Covers(new) /\ Accounted(new.hi)
    BY Zenon, <1>4, <2>0, PreparedSound
  <2>2. Accounted(new.hi)'
    BY Zenon, <1>4, <2>1 DEF SetPrepared, Accounted, Running
  <2>3. Covers(new)'
    BY Zenon, <1>4, <2>1 DEF SetPrepared, Covers, Published
  <2>4. Intents' \subseteq Intents \cup {new}
    BY Zenon, <1>4, <2>0, PreparedIntents
  <2> QED
    BY Zenon, <1>1, <2>1, <2>2, <2>3, <2>4 DEF IntentsSound, WellFormed
<1> QED
  BY Zenon, <1>3, <1>4

-----------------------------------------------------------------------------
(* The buffer. *)

\* What mark_committed drops from the in-flight set is at or below the
\* checkpoint.
LEMMA CompletedBelow ==
  ASSUME TypeOK, CatalogSound, ProvedCommitted
  PROVE  /\ pending' = pending
         /\ \/ inFlight' = inFlight
            \/ inFlight' = {} /\ \A g \in inFlight : g <= cat.gen
<1>1. IsPublished(cat.history, task.intent)
  BY Zenon DEF ProvedCommitted, Verdict, Validate
<1>2. /\ task.intent.hi <= cat.gen /\ task.intent.hi \in Nat /\ cat.gen \in Nat
      /\ inFlight \subseteq Nat
  BY SMTT(30), <1>1, ProvedBelow, Fields, IntentFields, ConstantsAssumption
  DEF TypeOK, SetTypes, Generations
<1>3. CASE CanMark(task.intent)
  <2>1. \A g \in inFlight : g <= task.intent.hi
    BY Zenon, <1>3 DEF CanMark
  <2>2. pending' = pending /\ (inFlight' = inFlight \/ inFlight' = {})
    BY Zenon, <1>3 DEF ProvedCommitted, Complete
  <2>3. \A g \in inFlight : g <= cat.gen
    BY SMTT(30), <1>2, <2>1
  <2> QED
    BY Zenon, <2>2, <2>3
<1>4. CASE ~CanMark(task.intent)
  BY Zenon, <1>4 DEF ProvedCommitted, Complete
<1> QED
  BY Zenon, <1>3, <1>4

\* restore_prepared splits the replayed rows at the sidecar's range.
LEMMA RestoreSplits ==
  ASSUME NEW i, NEW rows, Restore(i, rows)
  PROVE  /\ pending' \cup inFlight' = rows \cup inFlight
         /\ \/ inFlight' = inFlight /\ pending' = rows
            \/ inFlight' = {}
            \/ /\ inFlight' = {g \in rows : i.lo <= g /\ g <= i.hi}
               /\ pending' = rows \ inFlight'
  BY Zenon DEF Restore

\* A replayed record joins the buffer.
LEMMA ReplayAdmits ==
  ASSUME NEW g \in todo, ReplayRecord(g)
  PROVE  /\ pending' \cup inFlight' = pending \cup inFlight \cup {g}
         /\ acked' = acked /\ todo' = todo \ {g} /\ wal' = wal /\ cat' = cat
         /\ nextGen' = Larger(nextGen, g + 1) /\ loaded' = loaded
<1>1. CASE Restore(rside, pending \cup {g})
  BY <1>1, RestoreSplits DEF ReplayRecord
<1> QED
  BY Zenon, <1>1 DEF ReplayRecord

\* A batch enters the buffer when it is admitted or replayed, and leaves it when
\* its intent is proved or the process stops.
LEMMA Members ==
  ASSUME TypeOK, CatalogSound, Next
  PROVE  \/ pending' \cup inFlight' = pending \cup inFlight
         \/ /\ pending' = pending /\ inFlight' = {}
            /\ \A g \in inFlight : g <= cat.gen
         \/ ~Running' /\ pending' = {} /\ inFlight' = {}
         \/ \E g \in live : Admit(g)
         \/ \E g \in todo : ReplayRecord(g)
<1>1. CASE ProvedCommitted
  BY Zenon, <1>1, CompletedBelow
<1>2. CASE MergeBack
  BY Zenon, <1>2 DEF MergeBack
<1>3. CASE inFlight = {} /\ inFlight' = Drainable /\ pending' = pending \ Drainable
  BY Zenon, <1>3 DEF Drainable
<1>4. CASE ResolveRemaining
  BY Zenon, <1>4, RestoreSplits DEF ResolveRemaining
<1> QED
  BY Zenon, <1>1, <1>2, <1>3, <1>4, BufferFrame

\* No acknowledged batch loses its owner.
LEMMA OwnedStep ==
  ASSUME TypeOK, CatalogSound, IntentsSound, BufferSound, NoAckedLoss,
         FrontierComplete, Next, Running'
  PROVE  acked' \subseteq Published' \cup pending' \cup inFlight' \cup todo'
<1>0. /\ Published \subseteq Published' /\ cat.gen \in Nat
      /\ acked \subseteq Nat /\ inFlight \subseteq Nat
  BY Fields, CatalogGrows, ConstantsAssumption DEF TypeOK, SetTypes, Generations
<1>1. CASE Open
  <2>1. acked' = acked /\ todo' = {g \in wal : g > cat.gen}
    BY Zenon, <1>1 DEF Open
  <2>2. \A g \in acked : g \in Published \/ g > cat.gen
    BY <1>0 DEF FrontierComplete
  <2> QED
    BY Zenon, <1>0, <2>1, <2>2 DEF NoAckedLoss
<1>2. CASE ~Open
  <2>0. Running
    BY ZenonT(40), <1>2, PlaceFrame DEF GetOrLoad, ReplayRecord, NextRecord, Running
  <2>1. acked \subseteq Published \cup pending \cup inFlight \cup todo
    BY Zenon, <2>0 DEF BufferSound
  <2>2. \A g \in inFlight \cap acked : g <= cat.gen => g \in Published
    BY Zenon DEF FrontierComplete
  <2>3. CASE \E g \in live : Admit(g)
    BY ZenonT(40), <1>0, <2>1, <2>3 DEF Admit
  <2>4. CASE \E g \in todo : ReplayRecord(g)
    BY ZenonT(40), <1>0, <2>1, <2>4, ReplayAdmits
  <2>5. CASE /\ ~\E g \in live : Admit(g)
             /\ ~\E g \in todo : ReplayRecord(g)
    <3>1. acked' = acked /\ todo' = todo
      BY ZenonT(40), <1>2, <2>5, AckedFrame, PlaceFrame DEF GetOrLoad
    <3> QED
      BY Zenon, <1>0, <2>1, <2>2, <2>5, <3>1, Members
  <2> QED
    BY Zenon, <2>3, <2>4, <2>5
<1> QED
  BY Zenon, <1>1, <1>2

-----------------------------------------------------------------------------
(* Control. *)

\* The part of ControlSound that is about intents: a task past set_prepared and
\* a flush state that is not Idle hold one, and the WAL cutoff is only moved to
\* a proved one.
LEMMA OwnersStep ==
  ASSUME TypeOK, CatalogSound, IntentsSound, ControlSound, BufferSound, Next
  PROVE  /\ task'.pc \notin {"idle", "writing", "exit"} => task'.intent # NoIntent
         /\ flush'.state # "Idle" => flush'.intent # NoIntent
         /\ task'.pc = "walmark" => task'.intent.hi <= cat'.gen
<1>0. /\ cat.gen \in Nat /\ cat'.gen \in Nat /\ cat'.gen >= cat.gen
      /\ task.intent.hi \in Nat
  <2>1. RecordTypes /\ RecordTypes'
    BY Zenon, TypeStep DEF TypeOK
  <2>2. cat'.gen \in Nat
    BY <2>1, ConstantsAssumption DEF RecordTypes, CatalogType
  <2> QED
    BY <2>1, <2>2, Fields, IntentFields, CatalogGrows, ConstantsAssumption
<1>1. SetPrepared => /\ task'.intent # NoIntent /\ flush' = Holding(task'.intent)
                     /\ task'.pc = "persist"
  <2> SUFFICES ASSUME SetPrepared
               PROVE  /\ task'.intent # NoIntent /\ flush' = Holding(task'.intent)
                      /\ task'.pc = "persist"
    BY Zenon
  <2>1. NoIntent.lo = 0
    BY Zenon DEF NoIntent
  <2>2. WellFormed(task'.intent) /\ task'.intent \in IntentType
    BY Zenon, PreparedSound
  <2>3. task'.intent.lo # 0
    BY <2>2, IntentFields DEF WellFormed
  <2>4. task'.pc = "persist"
    BY Zenon DEF SetPrepared, TypeOK, RecordTypes, TaskType
  <2> QED
    BY ZenonT(40), <2>1, <2>3, <2>4, PreparedType
<1>2. task'.pc \notin {"idle", "writing", "exit"} => task'.intent # NoIntent
  BY Zenon, <1>1, TaskFrame DEF ControlSound
<1>3. flush'.state # "Idle" => flush'.intent # NoIntent
  <2>1. CASE task.pc \in {"commit", "rebase", "sent", "status"}
             /\ flush' = Blocked(task.intent)
    BY Zenon, <2>1 DEF ControlSound, Blocked
  <2>2. CASE flush' = Idle
    BY Zenon, <2>2 DEF Idle
  <2>3. CASE SetPrepared
    BY <1>1, <2>3 DEF Holding
  <2>4. CASE rside # NoIntent /\ flush' = Holding(rside)
    BY Zenon, <2>4 DEF Holding
  <2> QED
    BY Zenon, <2>1, <2>2, <2>3, <2>4, FlushFrame DEF ControlSound
<1>4. task'.pc = "walmark" => task'.intent.hi <= cat'.gen
  <2>1. ProvedCommitted => task.intent.hi <= cat.gen
    <3>1. ASSUME ProvedCommitted PROVE IsPublished(cat.history, task.intent)
      BY Zenon, <3>1 DEF ProvedCommitted, Verdict, Validate
    <3> QED
      BY SMTT(30), <3>1, ProvedBelow
  <2>2. task.pc = "walmark" => task.intent.hi <= cat.gen
    BY Zenon DEF ControlSound
  <2>3. task'.pc = "walmark" => task'.intent = task.intent /\ task.intent.hi <= cat.gen
    BY Zenon, <1>1, <2>1, <2>2, TaskFrame
  <2> QED
    BY <1>0, <2>3
<1> QED
  BY Zenon, <1>2, <1>3, <1>4

\* The part of ControlSound that is about the process's mode: only a running
\* process holds a task, a buffer or a reservation.
LEMMA ModesStep ==
  ASSUME TypeOK, CatalogSound, ControlSound, Next
  PROVE  /\ ~Running' => task' = NoTask /\ ~loaded'
         /\ mode' # "replaying" => todo' = {}
         /\ mode' # "up" => reserved' = {}
         /\ ~loaded' => pending' = {} /\ inFlight' = {} /\ reserved' = {}
         /\ live' \subseteq reserved'
<1>1. CASE Stop("down") \/ Stop("exited")
  BY Zenon, <1>1 DEF Stop, Running
<1>2. CASE /\ loaded' = loaded \/ GetOrLoad
           /\ mode' = mode \/ Restart \/ Open \/ ReplayDone
  <2>1. live' \subseteq reserved'
    BY Zenon, LiveFrame DEF ControlSound
  <2>2. ~Running' => task' = NoTask /\ ~loaded'
    <3> SUFFICES ASSUME ~Running' PROVE task' = NoTask /\ ~loaded'
      BY Zenon
    <3>1. ~Running
      BY Zenon, <1>2 DEF Restart, Open, ReplayDone, Running
    <3>2. task = NoTask /\ ~loaded /\ live = {}
      BY Zenon, <3>1 DEF ControlSound
    <3>3. ~GetOrLoad
      BY Zenon, <3>1 DEF GetOrLoad, Running
    <3> QED
      BY <1>2, <3>1, <3>2, <3>3, DownFrame
  <2>3. mode' # "replaying" => todo' = {}
    <3> SUFFICES ASSUME mode' # "replaying" PROVE todo' = {}
      BY Zenon
    <3>1. CASE Running'
      <4>1. mode' = "up"
        BY Zenon, <3>1 DEF Running
      <4>2. todo = {}
        BY ZenonT(40), <1>2, <4>1 DEF Restart, Open, ReplayDone, ControlSound
      <4> QED
        BY ZenonT(40), <3>1, <4>1, <4>2, PlaceFrame DEF Open, GetOrLoad
    <3>2. CASE ~Running'
      <4>1. ~Running /\ mode # "replaying"
        BY Zenon, <1>2, <3>2 DEF Restart, Open, ReplayDone, Running
      <4>2. todo = {}
        BY Zenon, <4>1 DEF ControlSound
      <4>3. ~Open
        BY SMTT(30), <3>2 DEF Open, Running
      <4> QED
        BY SMTT(30), <4>2, <4>3, TodoFrame
    <3> QED
      BY Zenon, <3>1, <3>2
  <2>4. mode' # "up" => reserved' = {}
    BY Zenon, <1>2, ReservedFrame DEF ControlSound, Restart, Open, ReplayDone, Reserve
  <2>5. ~loaded' => pending' = {} /\ inFlight' = {} /\ reserved' = {}
    <3> SUFFICES ASSUME ~loaded'
                 PROVE  pending' = {} /\ inFlight' = {} /\ reserved' = {}
      BY Zenon
    <3>1. ~loaded
      BY Zenon, <1>2 DEF GetOrLoad
    <3>2. pending = {} /\ inFlight = {} /\ reserved = {} /\ live = {}
      BY Zenon, <3>1 DEF ControlSound
    <3>3. ~Reserve /\ ~\E g \in todo : ReplayRecord(g)
      BY ZenonT(40), <3>1 DEF Reserve, ReplayRecord, NextRecord
    <3> QED
      BY Zenon, <3>2, <3>3, ReservedFrame, Members
  <2> QED
    BY Zenon, <2>1, <2>2, <2>3, <2>4, <2>5
<1> QED
  BY Zenon, <1>1, <1>2, ModeFrame

LEMMA ControlStep ==
  ASSUME TypeOK, CatalogSound, IntentsSound, ControlSound, BufferSound, Next
  PROVE  ControlSound'
  BY ZenonT(40), OwnersStep, ModesStep DEF ControlSound


-----------------------------------------------------------------------------
(* The order of the buffer's sets. *)

\* A batch in the buffer is below the next generation and below every record
\* still to be replayed, and has a WAL record or is below the checkpoint.
LEMMA PlacedStep ==
  ASSUME TypeOK, CatalogSound, IntentsSound, ControlSound, BufferSound,
         CutoffsProved, Next,
         NEW g \in pending' \cup inFlight'
  PROVE  /\ g < nextGen' /\ (g \in wal' \/ g <= cat'.gen)
         /\ \A t \in todo' : g < t
<1>0. /\ cat.gen \in Nat /\ cat'.gen \in Nat /\ cat'.gen >= cat.gen
      /\ walCut \in Nat /\ walCut <= cat.gen
      /\ nextGen \in Nat /\ nextGen' \in Nat /\ g \in Nat /\ todo \subseteq Nat
  <2>1. RecordTypes /\ RecordTypes' /\ NumberTypes' /\ SetTypes'
    BY Zenon, TypeStep DEF TypeOK
  <2>2. cat'.gen \in Nat
    BY <2>1, ConstantsAssumption DEF RecordTypes, CatalogType
  <2> QED
    BY <2>1, <2>2, Fields, CatalogGrows, ConstantsAssumption
    DEF TypeOK, NumberTypes, SetTypes, Generations, CutoffsProved
<1>1. CASE g \in pending \cup inFlight
  <2>1. g < nextGen /\ (g \in wal \/ g <= cat.gen) /\ \A t \in todo : g < t
    BY Zenon, <1>1 DEF BufferSound
  <2>2. g \in wal' \/ g <= cat'.gen
    BY SMTT(30), <1>0, <2>1, WalFrame
  <2>3. loaded' /\ Running' /\ loaded
    BY SMTT(30), <1>1, ControlStep DEF ControlSound
  <2>4. ~Open /\ ~GetOrLoad
    BY Zenon, <2>3 DEF Open, GetOrLoad, ControlSound, Running
  <2>5. nextGen' >= nextGen
    BY <1>0, <2>3, <2>4, PlaceFrame, ReplayAdmits DEF Larger
  <2> QED
    <3>1. g < nextGen'
      BY <1>0, <2>1, <2>5
    <3>2. \A t \in todo' : g < t
      BY Zenon, <2>1, <2>4, TodoFrame
    <3> QED
      BY Zenon, <2>2, <3>1, <3>2
<1>2. CASE g \notin pending \cup inFlight
  <2>1. CASE Admit(g) /\ g \in live
    <3>1. mode = "up" /\ todo = {}
      BY Zenon, <2>1 DEF ControlSound
    <3>2. g \in wal' /\ todo' = todo /\ nextGen' = Larger(nextGen, g + 1)
      BY Zenon, <2>1 DEF Admit
    <3> QED
      BY <1>0, <3>1, <3>2 DEF Larger
  <2>2. CASE ReplayRecord(g) /\ g \in todo
    <3>1. /\ todo' = todo \ {g} /\ wal' = wal /\ cat' = cat
          /\ nextGen' = Larger(nextGen, g + 1)
      BY Zenon, <2>2, ReplayAdmits
    <3>2. \A t \in todo : g <= t
      BY Zenon, <2>2 DEF ReplayRecord, NextRecord
    <3>3. g \in wal \/ g <= cat.gen
      BY <1>0, <2>2 DEF BufferSound
    <3> QED
      BY <1>0, <3>1, <3>2, <3>3 DEF Larger
  <2>3. ASSUME NEW h \in live, Admit(h) PROVE h = g
    BY Zenon, <1>2, <2>3 DEF Admit
  <2>4. ASSUME NEW h \in todo, ReplayRecord(h) PROVE h = g
    BY Zenon, <1>2, <2>4, ReplayAdmits
  <2> QED
    BY Zenon, <1>2, <2>1, <2>2, <2>3, <2>4, Members
<1> QED
  BY Zenon, <1>1, <1>2

\* restore_prepared keeps the acknowledged rows above the range it puts in
\* flight: what the range leaves out is published.
LEMMA RestoreOrders ==
  ASSUME TypeOK, IntentsSound, rside # NoIntent,
         NEW rows \in SUBSET Generations, Restore(rside, rows),
         \A g \in rows \cap acked : g \in Published \/ \A h \in inFlight : h < g,
         NEW g \in pending' \cap acked
  PROVE  g \in Published \/ \A h \in inFlight' : h < g
<1>0. /\ rows \subseteq Nat /\ rside \in IntentType
      /\ rside.hi \in Nat /\ rside.lo \in Nat /\ acked \subseteq Nat
  BY SMTT(30), IntentFields, ConstantsAssumption
  DEF TypeOK, RecordTypes, SetTypes, Generations
<1>1. WellFormed(rside) /\ Covers(rside)
  BY Zenon DEF IntentsSound, Intents
<1>2. CASE inFlight' = inFlight /\ pending' = rows
  BY Zenon, <1>2
<1>3. CASE inFlight' = {}
  BY Zenon, <1>3
<1>4. CASE /\ inFlight' = {h \in rows : rside.lo <= h /\ h <= rside.hi}
           /\ pending' = rows \ inFlight'
  <2>1. SUFFICES ASSUME g \notin Published
                 PROVE  rside.hi < g
    BY <1>0, <1>4
  <2>2. CASE g <= rside.hi
    <3>1. g \in rside.rows
      BY Zenon, <2>1, <2>2, <1>1 DEF Covers
    <3>2. rside.lo <= g
      BY Zenon, <3>1, <1>1 DEF WellFormed
    <3> QED
      BY Zenon, <1>4, <2>2, <3>2
  <2>3. g \in Nat
    BY ZenonT(40), <1>0
  <2> QED
    BY <1>0, <2>2, <2>3
<1> QED
  BY SMTT(30), <1>2, <1>3, <1>4, RestoreSplits

\* A drain, an admission and a replay keep acknowledged pending rows above the
\* rows in flight.
LEMMA OrderedStep ==
  ASSUME TypeOK, CatalogSound, IntentsSound, ControlSound, BufferSound,
         ReservedAbove, Next,
         NEW g \in pending' \cap acked'
  PROVE  g \in Published' \/ \A h \in inFlight' : h < g
<1>0. /\ Published \subseteq Published' /\ pending \subseteq Nat
      /\ reserved \subseteq Nat /\ inFlight \subseteq Nat /\ todo \subseteq Nat
  BY CatalogGrows DEF TypeOK, SetTypes, Generations
<1>1. \A k \in pending \cap acked : k \in Published \/ \A h \in inFlight : h < k
  BY Zenon DEF BufferSound
<1>2. ASSUME NEW k \in live, Admit(k)
      PROVE  g \in Published' \/ \A h \in inFlight' : h < g
  <2>1. /\ pending' = pending \cup {k} /\ acked' = acked \cup {k}
        /\ inFlight' = inFlight /\ k \in reserved
    BY Zenon, <1>2 DEF Admit, ControlSound
  <2>2. k \notin acked /\ \A h \in inFlight : h < k
    BY Zenon, <2>1 DEF ReservedAbove
  <2>3. CASE g = k
    BY Zenon, <2>1, <2>2, <2>3
  <2>4. CASE g # k
    BY Zenon, <1>0, <1>1, <2>1, <2>4
  <2> QED
    BY Zenon, <2>3, <2>4
<1>3. ASSUME ~\E k \in live : Admit(k)
      PROVE  g \in Published' \/ \A h \in inFlight' : h < g
  <2>0. acked' = acked
    BY Zenon, <1>3, AckedFrame
  <2>1. CASE pending' = pending /\ inFlight' = inFlight
    BY Zenon, <1>0, <1>1, <2>0, <2>1
  <2>2. CASE inFlight' = {}
    BY Zenon, <2>2
  <2>3. CASE inFlight = {} /\ inFlight' = Drainable /\ pending' = pending \ Drainable
    <3>1. PICK r \in reserved : ~(g < r)
      BY Zenon, <2>3 DEF Drainable
    <3>2. \A h \in Drainable : h < r /\ h \in pending
      BY Zenon DEF Drainable
    <3>3. g \in Nat /\ r \in Nat /\ \A h \in Drainable : h \in Nat
      BY ZenonT(40), <1>0, <2>3, <3>2
    <3>4. \A h \in Drainable : h < g
      BY <3>1, <3>2, <3>3
    <3> QED
      BY Zenon, <2>3, <3>4
  <2>4. CASE ProvedCommitted
    BY Zenon, <2>1, <2>2, <2>4, CompletedBelow
  <2>5. ASSUME NEW k \in todo, ReplayRecord(k)
        PROVE  g \in Published' \/ \A h \in inFlight' : h < g
    <3>1. \A h \in inFlight : h < k
      BY Zenon DEF BufferSound
    <3>2. \A m \in (pending \cup {k}) \cap acked :
             m \in Published \/ \A h \in inFlight : h < m
      BY Zenon, <1>1, <3>1
    <3>3. CASE rside # NoIntent /\ Restore(rside, pending \cup {k})
      <4>1. pending \cup {k} \in SUBSET Generations
        BY Zenon DEF TypeOK, SetTypes
      <4> QED
        BY ZenonT(40), <1>0, <2>0, <3>2, <3>3, <4>1, RestoreOrders
    <3>4. CASE pending' = pending \cup {k} /\ inFlight' = inFlight
      BY Zenon, <1>0, <2>0, <3>2, <3>4
    <3> QED
      BY Zenon, <2>5, <3>3, <3>4 DEF ReplayRecord
  <2>6. CASE ResolveRemaining
    <3>1. rside # NoIntent /\ Restore(rside, pending)
      BY Zenon, <2>6 DEF ResolveRemaining
    <3>2. pending \in SUBSET Generations
      BY SMTT(30) DEF TypeOK, SetTypes
    <3> QED
      BY Zenon, <1>0, <1>1, <2>0, <3>1, <3>2, RestoreOrders
  <2> QED
    BY Zenon, <1>3, <2>1, <2>2, <2>3, <2>4, <2>5, <2>6, BufferFrame DEF MergeBack
<1> QED
  BY Zenon, <1>2, <1>3


LEMMA BufferStep ==
  ASSUME TypeOK, CatalogSound, IntentsSound, ControlSound, BufferSound,
         ReservedAbove, NoAckedLoss, CutoffsProved, FrontierComplete, Next
  PROVE  BufferSound'
<1>0. /\ cat.gen \in Nat /\ cat'.gen \in Nat /\ cat'.gen >= cat.gen
      /\ walCut \in Nat /\ walCut <= cat.gen /\ todo \subseteq Nat
      /\ nextGen \in Nat /\ nextGen' \in Nat /\ wal \subseteq Nat
  <2>1. RecordTypes /\ RecordTypes' /\ NumberTypes'
    BY Zenon, TypeStep DEF TypeOK
  <2>2. cat'.gen \in Nat
    BY <2>1, ConstantsAssumption DEF RecordTypes, CatalogType
  <2> QED
    BY <2>1, <2>2, Fields, CatalogGrows, ConstantsAssumption
    DEF TypeOK, NumberTypes, SetTypes, Generations, CutoffsProved
<1>1. Running' => acked' \subseteq Published' \cup pending' \cup inFlight' \cup todo'
  BY Zenon, OwnedStep
<1>2. \A g \in pending' \cup inFlight' :
        /\ g < nextGen' /\ (g \in wal' \/ g <= cat'.gen)
        /\ \A t \in todo' : g < t
  BY Zenon, PlacedStep
<1>3. \A g \in pending' \cap acked' : g \in Published' \/ \A h \in inFlight' : h < g
  BY Zenon, OrderedStep
<1>4. todo' \subseteq wal' \cup 0 .. cat'.gen
  <2>1. CASE Open
    BY Zenon, <2>1 DEF Open
  <2>2. CASE todo' \subseteq todo
    <3>1. \A g \in todo : g \in wal \/ g <= cat.gen
      BY <1>0 DEF BufferSound
    <3>2. \A g \in todo : g \in wal' \/ g <= cat'.gen
      BY <1>0, <3>1, WalFrame
    <3> QED
      BY <1>0, <2>2, <3>2
  <2> QED
    BY SMTT(30), <2>1, <2>2, TodoFrame
<1>5. loaded' => cat'.gen < nextGen' \/ cat'.gen \in todo'
  <2> SUFFICES ASSUME loaded' PROVE cat'.gen < nextGen' \/ cat'.gen \in todo'
    BY Zenon
  <2>1. Running'
    BY Zenon, ControlStep DEF ControlSound
  <2>2. ~Open
    BY ZenonT(40) DEF Open, ControlSound, Running
  <2>3. CASE GetOrLoad
    BY <1>0, <2>3 DEF GetOrLoad
  <2>4. ASSUME NEW g \in todo, ReplayRecord(g)
        PROVE  cat'.gen < nextGen' \/ cat'.gen \in todo'
    <3>1. /\ todo' = todo \ {g} /\ cat' = cat
          /\ nextGen' = Larger(nextGen, g + 1) /\ loaded
      BY ZenonT(40), <2>4, ReplayAdmits
    <3>2. cat.gen < nextGen \/ cat.gen \in todo
      BY Zenon, <3>1 DEF BufferSound
    <3> QED
      BY <1>0, <3>1, <3>2 DEF Larger
  <2>5. CASE Running /\ todo' = todo /\ loaded' = loaded /\ nextGen' >= nextGen
    <3>1. cat.gen < nextGen \/ cat.gen \in todo
      BY Zenon, <2>5 DEF BufferSound
    <3>2. ASSUME NEW i \in net, CatalogApply(i)
          PROVE  cat'.gen < nextGen \/ cat'.gen \in todo
      <4>1. cat'.gen = i.hi
        BY SMTT(30), <3>2 DEF CatalogApply, TypeOK, RecordTypes, CatalogType
      <4>2. i.hi > cat.gen /\ Accounted(i.hi)
        BY Zenon, NetIntents
      <4>3. ~(i.hi <= cat.gen)
        BY <1>0, <4>1, <4>2
      <4> QED
        BY Zenon, <2>5, <4>1, <4>2, <4>3 DEF Accounted
    <3>3. CASE cat' = cat \/ PeerCommit
      <4>1. cat'.gen = cat.gen
        BY ZenonT(40), <3>3 DEF PeerCommit, TypeOK, RecordTypes, CatalogType
      <4> QED
        BY <1>0, <2>5, <3>1, <4>1
    <3>4. CASE \E i \in net : CatalogApply(i)
      <4>1. cat'.gen < nextGen \/ cat'.gen \in todo
        BY Zenon, <3>2, <3>4
      <4> QED
        BY <1>0, <2>5, <4>1
    <3> QED
      BY Zenon, <3>3, <3>4, CatalogFrame
  <2> QED
    BY ZenonT(40), <2>1, <2>2, <2>3, <2>4, <2>5, PlaceFrame
<1> QED
  BY SMTT(30), <1>1, <1>2, <1>3, <1>4, <1>5 DEF BufferSound

-----------------------------------------------------------------------------
(* Appends in progress. *)

\* A new reservation is above everything: the checkpoint, the acknowledged
\* batches, the buffer and every intent.
LEMMA NewReservation ==
  ASSUME TypeOK, CatalogSound, IntentsSound, ControlSound, BufferSound, Reserve
  PROVE  /\ nextGen > cat.gen /\ nextGen \notin acked
         /\ \A g \in inFlight : g < nextGen
         /\ \A i \in Intents : i.hi < nextGen
<1>0. /\ cat.gen \in Nat /\ nextGen \in Nat
      /\ \A i \in Intents : i \in IntentType /\ i.hi \in Nat
  <2>1. \A i \in Intents : i \in IntentType
    BY SMTT(30), Fields DEF TypeOK, RecordTypes, Intents
  <2> QED
    BY <2>1, Fields, IntentFields, ConstantsAssumption DEF TypeOK, NumberTypes
<1>1. Running /\ loaded /\ todo = {}
  BY Zenon DEF Reserve, Running, ControlSound
<1>2. cat.gen < nextGen
  BY Zenon, <1>1 DEF BufferSound
<1>3. \A g \in pending \cup inFlight : g < nextGen
  BY Zenon DEF BufferSound
<1>4. \A g \in Published : g <= cat.gen
  BY Zenon DEF CatalogSound, Published
<1>5. acked \subseteq Published \cup pending \cup inFlight
  BY Zenon, <1>1 DEF BufferSound
<1>6. nextGen \notin acked
  BY <1>0, <1>2, <1>3, <1>4, <1>5
<1>7. \A i \in Intents : i.hi <= cat.gen \/ i.hi < nextGen
  BY Zenon, <1>1 DEF IntentsSound, Accounted
<1> QED
  BY <1>0, <1>2, <1>3, <1>6, <1>7

LEMMA ReservedStep ==
  ASSUME TypeOK, CatalogSound, IntentsSound, ControlSound, BufferSound,
         ReservedAbove, Next
  PROVE  ReservedAbove'
<1>1. CASE Reserve
  <2>1. /\ reserved' = reserved \cup {nextGen} /\ cat' = cat /\ acked' = acked
        /\ inFlight' = inFlight /\ Intents' = Intents
    BY Zenon, <1>1 DEF Reserve, Intents
  <2> QED
    BY SMTT(30), <1>1, <2>1, NewReservation DEF ReservedAbove
<1>2. ASSUME reserved' \subseteq reserved, NEW r \in reserved'
      PROVE  /\ r > cat'.gen /\ r \notin acked'
             /\ \A g \in inFlight' : g < r
             /\ \A i \in Intents' : i.hi < r
  <2>0. /\ r \in Nat \ {0} /\ r > cat.gen /\ r \notin acked /\ mode = "up"
        /\ \A g \in inFlight : g < r
        /\ \A i \in Intents : i.hi < r
    BY <1>2 DEF TypeOK, SetTypes, Generations, ReservedAbove, ControlSound
  <2>1. r > cat'.gen
    <3>1. ASSUME NEW i \in net, CatalogApply(i) PROVE cat'.gen = i.hi /\ i \in Intents
      BY Zenon, <3>1 DEF CatalogApply, TypeOK, RecordTypes, CatalogType, Intents
    <3>2. ASSUME PeerCommit PROVE cat'.gen = cat.gen
      BY Zenon, <3>2 DEF PeerCommit, TypeOK, RecordTypes, CatalogType
    <3>3. ASSUME NEW i \in net, CatalogApply(i) PROVE r > cat'.gen
      <4>1. i \in IntentType /\ i.hi \in Nat /\ i.hi < r /\ cat'.gen = i.hi
        BY <2>0, <3>1, <3>3, IntentFields DEF TypeOK, RecordTypes
      <4> QED
        BY SMTT(30), <2>0, <4>1
    <3> QED
      BY Zenon, <2>0, <3>2, <3>3, CatalogFrame
  <2>2. r \notin acked'
    <3>1. ASSUME NEW g \in live, Admit(g)
          PROVE  acked' = acked \cup {g} /\ reserved' = reserved \ {g}
      BY Zenon, <3>1 DEF Admit
    <3> QED
      BY SMTT(30), <1>2, <2>0, <3>1, AckedFrame
  <2>3. \A g \in inFlight' : g < r
    <3>1. ~ResolveRemaining /\ ~\E g \in todo : ReplayRecord(g)
      BY Zenon, <2>0 DEF ResolveRemaining, ReplayRecord, NextRecord
    <3>2. \A g \in Drainable : g < r
      BY Zenon, <1>2 DEF Drainable
    <3>3. ASSUME NEW g \in live, Admit(g) PROVE inFlight' = inFlight
      BY Zenon, <3>3 DEF Admit
    <3>4. MergeBack => inFlight' = {}
      BY Zenon DEF MergeBack
    <3> QED
      BY SMTT(30), <2>0, <3>1, <3>2, <3>3, <3>4, BufferFrame, CompletedBelow
  <2>4. \A i \in Intents' : i.hi < r
    <3>1. CASE SetPrepared
      <4>1. PICK new : new = task'.intent
        BY Zenon
      <4>2. new.hi < r
        BY Zenon, <2>0, <3>1, <4>1, PreparedSound
      <4> QED
        BY Zenon, <2>0, <3>1, <4>1, <4>2, PreparedIntents
    <3>2. CASE ~SetPrepared
      <4>1. NoIntent.hi < r
        BY <2>0 DEF NoIntent
      <4> QED
        BY SMTT(30), <2>0, <3>2, <4>1, IntentFrame
    <3> QED
      BY Zenon, <3>1, <3>2
  <2> QED
    BY SMTT(30), <2>1, <2>2, <2>3, <2>4
<1> QED
  BY Zenon, <1>1, <1>2, ReservedFrame DEF ReservedAbove


-----------------------------------------------------------------------------
(* The theorems. *)

\* Every step of ingest, flush, catalog and recovery, faults included, keeps it.
LEMMA InductiveStep == Inductive /\ [Next]_vars => Inductive'
<1> SUFFICES ASSUME Inductive, [Next]_vars PROVE Inductive'
  BY Zenon
<1>1. CASE Next
  <2>1. TypeOK'
    BY Zenon, <1>1, TypeStep DEF Inductive
  <2>2. CatalogSound' /\ IntentsSound' /\ ControlSound'
    BY Zenon, <1>1, CatalogStep, IntentsStep, ControlStep DEF Inductive
  <2>3. BufferSound' /\ ReservedAbove'
    BY Zenon, <1>1, BufferStep, ReservedStep DEF Inductive
  <2>4. NoAckedLoss' /\ PublishedOnce' /\ CutoffsProved' /\ FrontierComplete'
    BY SMTT(30), <1>1, NoLossStep, PublishedOnceStep, CutoffsStep, FrontierStep DEF Inductive
  <2>5. Completable'
    BY Zenon, <1>1, CompletableStep DEF Inductive
  <2> QED
    BY Zenon, <2>1, <2>2, <2>3, <2>4, <2>5 DEF Inductive
<1>2. CASE UNCHANGED vars
  <2>1. /\ UNCHANGED <<mode, loaded, nextGen, highWater, pending, inFlight>>
        /\ UNCHANGED <<reserved, flush, live, queued, wal, walCut, sidecar>>
        /\ UNCHANGED <<epoch, detached, task, todo, rside, cat, net, acked>>
    BY ZenonT(40), <1>2 DEF vars
  <2>2. TypeOK'
    BY Zenon, <1>2, TypeStep DEF Inductive
  <2>3. Running' = Running /\ Published' = Published /\ Intents' = Intents
    BY Zenon, <2>1 DEF Running, Published, Intents
  <2>4. CatalogSound' /\ ControlSound'
    BY ZenonT(40), <2>1, <2>3 DEF Inductive, CatalogSound, ControlSound
  <2>7. BufferSound' /\ ReservedAbove'
    BY ZenonT(40), <2>1, <2>3 DEF Inductive, BufferSound, ReservedAbove
  <2>5. IntentsSound'
    BY ZenonT(40), <2>1, <2>3 DEF Inductive, IntentsSound, Covers, Accounted
  <2>6. NoAckedLoss' /\ PublishedOnce' /\ CutoffsProved' /\ FrontierComplete'
    BY ZenonT(40), <2>1, <2>3
    DEF Inductive, NoAckedLoss, PublishedOnce, CutoffsProved, FrontierComplete
  <2>8. Completable'
    BY ZenonT(40), <2>1 DEF Inductive, Completable, CanMark
  <2> QED
    BY Zenon, <2>2, <2>4, <2>5, <2>6, <2>7, <2>8 DEF Inductive
<1> QED
  BY Zenon, <1>1, <1>2

\* The invariant holds for every generation space, buffer capacity, retry
\* budget and fault budget.
THEOREM InductiveInvariant == Spec => []Inductive
<1> QED
  BY InductiveInit, InductiveStep, PTL DEF Spec

\* The write path never loses an acknowledged batch, through any sequence of
\* crashes, cancelled calls and WAL collections.
THEOREM NoLoss == Spec => []NoAckedLoss
<1>1. Inductive => NoAckedLoss
  BY Zenon DEF Inductive
<1> QED
  BY <1>1, InductiveInvariant, PTL

\* No batch is published by two commits.
THEOREM Once == Spec => []PublishedOnce
<1>1. Inductive => PublishedOnce
  BY Zenon DEF Inductive
<1> QED
  BY <1>1, InductiveInvariant, PTL

\* WAL GC and the buffer never act on a cutoff the catalog has not committed.
THEOREM Proved == Spec => []CutoffsProved
<1>1. Inductive => CutoffsProved
  BY Zenon DEF Inductive
<1> QED
  BY <1>1, InductiveInvariant, PTL

\* Recovery may skip every record at or below the checkpoint.
THEOREM Frontier == Spec => []FrontierComplete
<1>1. Inductive => FrontierComplete
  BY Zenon DEF Inductive
<1> QED
  BY <1>1, InductiveInvariant, PTL

\* A serving node has every acknowledged, unpublished batch in its buffer.
THEOREM Buffered == Spec => []AckedBuffered
<1>1. Inductive => AckedBuffered
  BY Zenon DEF Inductive, BufferSound, ControlSound, AckedBuffered, Running
<1> QED
  BY <1>1, InductiveInvariant, PTL

\* A task that finds its intent committed can always complete it: mark_committed
\* does not refuse the in-flight set it finds, after a resumed, rechecked or
\* recovered flush either.
THEOREM Completed == Spec => []CompletionAccepted
<1>1. Inductive => CompletionAccepted
  BY ZenonT(40) DEF Inductive, Completable, CompletionAccepted, Holds
<1> QED
  BY <1>1, InductiveInvariant, PTL

\* The checkpoint never moves back, whatever late or resumed request is applied.
THEOREM CheckpointMonotone == Spec => CheckpointAdvances
<1>1. Inductive /\ [Next]_vars
        => [cat'.gen >= cat.gen /\ cat'.epoch >= cat.epoch]_vars
  BY SMTT(30), CatalogGrows DEF Inductive
<1> QED
  BY <1>1, InductiveInvariant, PTL DEF Spec, CheckpointAdvances

\* A step of the write path is an acceptance, a publication or a stutter of the
\* abstract specification.
LEMMA Simulation ==
  ASSUME Inductive, Next PROVE [Abstract!Next]_(Abstract!vars)
<1>0. /\ TypeOK /\ CatalogSound /\ IntentsSound /\ ControlSound /\ ReservedAbove
      /\ cat \in CatalogType /\ cat.gen \in Nat /\ acked \subseteq Nat
  <2>1. /\ TypeOK /\ CatalogSound /\ IntentsSound /\ ControlSound /\ ReservedAbove
    BY ZenonT(40) DEF Inductive
  <2>2. RecordTypes /\ cat \in CatalogType /\ acked \subseteq Generations
    BY ZenonT(40), <2>1 DEF TypeOK, RecordTypes, SetTypes
  <2>3. cat.gen \in Nat
    BY <2>2, Fields, ConstantsAssumption
  <2> QED
    BY <2>1, <2>2, <2>3 DEF Generations
<1>1. ASSUME NEW g \in live, Admit(g) PROVE Abstract!Accept(g) /\ g \in Generations
  <2>1. g \in reserved /\ g \in Generations
    BY ZenonT(40), <1>0 DEF ControlSound, TypeOK, SetTypes
  <2>2. g > cat.gen /\ g \notin acked
    BY SMTT(30), <1>0, <2>1 DEF ReservedAbove
  <2> QED
    BY ZenonT(40), <1>1, <2>1, <2>2 DEF Admit, Abstract!Accept, Published
<1>2. ASSUME NEW i \in net, CatalogApply(i)
      PROVE  /\ Abstract!Publish(i.rows, i.hi)
             /\ i.rows \in SUBSET Generations /\ i.hi \in Generations
  <2>1. cat'.gen = i.hi /\ cat'.history = cat.history \cup {i} /\ acked' = acked
    BY Zenon, <1>0, <1>2 DEF CatalogApply, CatalogType
  <2>2. Published' = Published \cup i.rows
    BY SMTT(30), <2>1 DEF Published
  <2>3. /\ WellFormed(i) /\ Covers(i) /\ i.hi \in Generations
        /\ \A g \in i.rows : g > cat.gen /\ g <= i.hi
    BY SMTT(30), <1>0, NetIntents
  <2>4. i \in IntentType /\ i.rows \in SUBSET Generations
    BY Zenon, <1>0, IntentFields DEF TypeOK, RecordTypes
  <2>5. \A g \in Published : ~(cat.gen < g)
    <3>1. \A g \in Published : g <= cat.gen /\ g \in Nat
      BY SMTT(30), <1>0, IntentFields DEF CatalogSound, Published, CatalogType, Generations
    <3> QED
      BY SMTT(30), <1>0, <3>1
  <2>6. \A g \in acked : cat.gen < g /\ g <= i.hi => g \in i.rows
    BY SMTT(30), <2>3, <2>5 DEF Covers
  <2>7. i.hi \in i.rows /\ \A g \in i.rows : cat.gen < g /\ g <= i.hi
    <3>1. i.rows \subseteq Nat
      BY <2>4 DEF Generations
    <3> QED
      BY Zenon, <1>0, <2>3, <3>1 DEF WellFormed
  <2> QED
    BY ZenonT(40), <2>1, <2>2, <2>3, <2>4, <2>6, <2>7 DEF Abstract!Publish
<1>3. CASE /\ ~\E g \in live : Admit(g)
           /\ ~\E i \in net : CatalogApply(i)
  <2>1. acked' = acked
    BY Zenon, <1>3, AckedFrame
  <2>2. cat'.gen = cat.gen /\ cat'.history = cat.history
    BY Zenon, <1>0, <1>3, CatalogFrame DEF PeerCommit, CatalogType
  <2> QED
    BY Zenon, <2>1, <2>2 DEF Abstract!vars, Published
<1>4. CASE \E g \in live : Admit(g)
  <2>1. \E g \in Generations : Abstract!Accept(g)
    BY ZenonT(40), <1>1, <1>4
  <2> QED
    BY ZenonT(40), <2>1 DEF Abstract!Next
<1>5. CASE \E i \in net : CatalogApply(i)
  <2>1. \E group \in SUBSET Generations, top \in Generations :
          Abstract!Publish(group, top)
    BY ZenonT(40), <1>2, <1>5
  <2> QED
    BY ZenonT(40), <2>1 DEF Abstract!Next
<1> QED
  BY ZenonT(40), <1>3, <1>4, <1>5

\* The write path implements exactly-once publication in generation order.
THEOREM Refinement == Spec => ExactlyOncePublication
<1>1. Init => Abstract!Init
  BY Zenon, AbstractInit
<1>2. Inductive /\ [Next]_vars => [Abstract!Next]_(Abstract!vars)
  <2>1. CASE UNCHANGED vars
    BY ZenonT(40), <2>1 DEF vars, Abstract!vars, Published
  <2> QED
    BY SMTT(30), <2>1, Simulation
<1> QED
  BY <1>1, <1>2, InductiveInvariant, PTL DEF Spec, ExactlyOncePublication, Abstract!Spec
==============================================================================
