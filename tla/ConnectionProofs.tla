-------------------------- MODULE ConnectionProofs --------------------------
(***************************************************************************)
(* Proofs about the two parts of a connection.                             *)
(*                                                                         *)
(* Its engines until they are ready, for any number of sessions of one     *)
(* profile, any keys and any timeouts: no pinned key is ever replaced,     *)
(* every engine that remembers or recognises a key has the pinned one, an  *)
(* engine that is closed holds nothing, and each engine goes through its   *)
(* phases as EngineContract has them.                                      *)
(*                                                                         *)
(* The session at work after that, for any directories, page size, clicks  *)
(* and keys: when nothing is on its way, the file pane shows its directory. *)
(*                                                                         *)
(* Its capture of commands, for any texts typed and printed and any limits: *)
(* what is recorded was shown, and what still waits was not.               *)
(***************************************************************************)
EXTENDS Ssh2Engine, LiveSession, FiniteSetTheorems, SequenceTheorems, WellFoundedInduction, TLAPS

-----------------------------------------------------------------------------
(* Host-key verification and the phases of an engine.                       *)

\* What holds of one engine on its way to trusting a key.
PinProgress(e) ==
  /\ verify[e] # "none" => key[e] \in Keys
  /\ trust[e] # "none" => verify[e] # "none"
  /\ verify[e] = "touching" /\ profile => pin = key[e]

EngineInv ==
  /\ TypeOK
  /\ TrustIsPinned
  /\ \A e \in Engines : PinProgress(e)
  /\ ~profile => pin = NoKey

LEMMA EngineInvInit == Init => EngineInv
BY DEF Init, EngineInv, TypeOK, TrustIsPinned, PinProgress, Off, AtDatabase

-----------------------------------------------------------------------------
(* Type correctness.                                                       *)

LEMMA CloseTypes ==
  ASSUME TypeOK, NEW e \in Engines, Close(e)
  PROVE  TypeOK'
BY DEF TypeOK, Close, Shut, Interrupted, Off, AtDatabase

LEMMA RefuseTypes ==
  ASSUME TypeOK, NEW e \in Engines, Refuse(e),
         UNCHANGED <<key, pin, profile>>,
         askLeft' \in [Engines -> {Off} \cup 0..ConfirmTimeout]
  PROVE  TypeOK'
BY DEF TypeOK, Refuse, Shut, Interrupted, Off, AtDatabase

LEMMA TrustTypes ==
  ASSUME TypeOK, NEW e \in Engines,
         NEW reason \in {"matched", "once", "remembered"}, Trust(e, reason),
         UNCHANGED <<key, pin, profile>>,
         askLeft' \in [Engines -> {Off} \cup 0..ConfirmTimeout]
  PROVE  TypeOK'
BY DEF TypeOK, Trust, Off, AtDatabase

LEMMA GoToTypes ==
  ASSUME TypeOK, NEW e \in Engines,
         NEW next \in AtDatabase \cup {"asking"}, GoTo(e, next),
         UNCHANGED <<key, profile>>, pin' \in Keys \cup {NoKey},
         askLeft' \in [Engines -> {Off} \cup 0..ConfirmTimeout]
  PROVE  TypeOK'
BY DEF TypeOK, GoTo, Off, AtDatabase

\* D1's answers and failures.
LEMMA DatabaseTypes ==
  ASSUME TypeOK, NEW e \in Engines, Database(e)
  PROVE  TypeOK'
<1> USE DEF TypeOK
<1>1. CASE LookUp(e)
  <2>1. askLeft' \in [Engines -> {Off} \cup 0..ConfirmTimeout]
    BY <1>1, TimeoutAssumption DEF LookUp
  <2>2. UNCHANGED <<key, pin, profile>>
    BY <1>1 DEF LookUp
  <2>3. Trust(e, "matched") \/ Refuse(e) \/ GoTo(e, "asking")
    BY <1>1 DEF LookUp
  <2> QED BY <2>1, <2>2, <2>3, TrustTypes, RefuseTypes, GoToTypes
<1>2. CASE PinInsert(e)
  <2>1. pin' \in Keys \cup {NoKey}
    BY <1>2 DEF PinInsert, PinInserted
  <2> QED BY <2>1, <1>2, GoToTypes DEF PinInsert, AtDatabase
<1>3. CASE PinRead(e)
  BY <1>3, GoToTypes, RefuseTypes DEF PinRead, AtDatabase
<1>4. CASE PinTouch(e)
  BY <1>4, TrustTypes DEF PinTouch
<1>5. CASE DatabaseFails(e)
  BY <1>5, RefuseTypes DEF DatabaseFails
<1> QED BY <1>1, <1>2, <1>3, <1>4, <1>5 DEF Database

LEMMA EngineTypes ==
  ASSUME TypeOK, NEW e \in Engines, EngineStep(e)
  PROVE  TypeOK'
<1>1. CASE Connect(e)
  BY <1>1 DEF TypeOK, Connect, Off, AtDatabase
<1>2. CASE TransportOpens(e)
  BY <1>2, TimeoutAssumption DEF TypeOK, TransportOpens, Off, AtDatabase
<1>3. CASE TransportFails(e)
  BY <1>3 DEF TypeOK, TransportFails, Shut, Off, AtDatabase
<1>4. CASE HostKeyArrives(e)
  BY <1>4 DEF TypeOK, HostKeyArrives, AtDatabase
<1>5. CASE ClientReady(e)
  BY <1>5 DEF TypeOK, ClientReady, Off, AtDatabase
<1>6. CASE ClientFails(e) \/ ReadyTimeoutFires(e) \/ SessionCloses(e)
  BY <1>6, CloseTypes DEF ClientFails, ReadyTimeoutFires, SessionCloses
<1>7. CASE ShellOpens(e) \/ ShellContinues(e)
  BY <1>7 DEF TypeOK, ShellOpens, ShellContinues, AtDatabase
<1>8. CASE AskTimeoutFires(e)
  <2>1. askLeft' \in [Engines -> {Off} \cup 0..ConfirmTimeout]
    BY <1>8 DEF TypeOK, AskTimeoutFires
  <2> QED BY <1>8, <2>1, RefuseTypes DEF AskTimeoutFires
<1>9. CASE Database(e)
  BY <1>9, DatabaseTypes
<1>10. CASE Decide(e)
  <2>1. askLeft' \in [Engines -> {Off} \cup 0..ConfirmTimeout]
    BY <1>10 DEF TypeOK, Decide
  <2>2. UNCHANGED <<key, pin, profile>> /\ pin' \in Keys \cup {NoKey}
    BY <1>10 DEF TypeOK, Decide
  <2>3. Refuse(e) \/ Trust(e, "once") \/ GoTo(e, "inserting")
    BY <1>10 DEF Decide
  <2> QED BY <2>1, <2>2, <2>3, TrustTypes, RefuseTypes, GoToTypes DEF AtDatabase
<1>11. CASE CloseFinishes(e)
  BY <1>11 DEF TypeOK, CloseFinishes, AtDatabase
<1> QED BY <1>1, <1>2, <1>3, <1>4, <1>5, <1>6, <1>7, <1>8, <1>9, <1>10, <1>11
        DEF EngineStep, Dials

\* Time only runs while no timer is due, so no timer is overrun.
LEMMA TickTypes ==
  ASSUME TypeOK, Tick
  PROVE  TypeOK'
<1>1. \A e \in Engines : Elapse(readyLeft)[e] \in {Off} \cup 0..ReadyTimeout
  BY TimeoutAssumption DEF TypeOK, Tick, Due, Elapse, Off
<1>2. \A e \in Engines : Elapse(askLeft)[e] \in {Off} \cup 0..ConfirmTimeout
  BY TimeoutAssumption DEF TypeOK, Tick, Due, Elapse, Off
<1> QED BY <1>1, <1>2 DEF TypeOK, Tick, Elapse

LEMMA DeleteTypes ==
  ASSUME TypeOK, DeleteProfile
  PROVE  TypeOK'
BY DEF TypeOK, DeleteProfile, engineVars

LEMMA TypesKept ==
  ASSUME TypeOK, [Next]_vars
  PROVE  TypeOK'
<1>1. CASE UNCHANGED vars
  BY <1>1 DEF TypeOK, vars
<1> QED BY <1>1, EngineTypes, TickTypes, DeleteTypes DEF Next

-----------------------------------------------------------------------------
(* Trust and the pin.                                                      *)

\* A step that presents, decides and pins nothing keeps all that is said of pins.
LEMMA TrustUntouched ==
  ASSUME EngineInv, UNCHANGED <<key, trust, pin, profile>>,
         \A d \in Engines : verify'[d] = verify[d] \/ (verify'[d] = "refused" /\ verify[d] # "none"),
         TypeOK'
  PROVE  EngineInv'
BY DEF EngineInv, TrustIsPinned, PinProgress

LEMMA CloseKeepsTrust ==
  ASSUME EngineInv, TypeOK', NEW e \in Engines, Close(e)
  PROVE  EngineInv'
<1>1. \A d \in Engines : verify'[d] = verify[d] \/ (verify'[d] = "refused" /\ verify[d] # "none")
  BY DEF EngineInv, TypeOK, Close
<1> QED BY <1>1, TrustUntouched DEF Close

LEMMA RefuseKeepsTrust ==
  ASSUME EngineInv, TypeOK', NEW e \in Engines, Refuse(e), verify[e] # "none",
         UNCHANGED <<key, pin, profile>>
  PROVE  EngineInv'
<1>1. \A d \in Engines : verify'[d] = verify[d] \/ (verify'[d] = "refused" /\ verify[d] # "none")
  BY DEF EngineInv, TypeOK, Refuse
<1> QED BY <1>1, TrustUntouched DEF Refuse

\* An engine that trusts "matched" or "remembered" must see its key pinned.
LEMMA TrustKeepsTrust ==
  ASSUME EngineInv, TypeOK', NEW e \in Engines, NEW reason \in {"matched", "once", "remembered"},
         Trust(e, reason), verify[e] # "none",
         reason # "once" /\ profile => pin = key[e],
         UNCHANGED <<key, pin, profile>>
  PROVE  EngineInv'
BY DEF EngineInv, TypeOK, TrustIsPinned, PinProgress, Trust

\* The insertion pins a key only where nothing is pinned.
LEMMA InsertKeepsTrust ==
  ASSUME EngineInv, TypeOK', NEW e \in Engines, PinInsert(e)
  PROVE  EngineInv'
<1>1. pin \in Keys => pin' = pin
  BY KeyAssumption DEF PinInsert, PinInserted
<1>2. \A d \in Engines : verify[d] # "none" => key[d] # NoKey
  BY KeyAssumption DEF EngineInv, PinProgress
<1>3. \A d \in Engines : verify'[d] # "none" => verify[d] # "none"
  BY DEF EngineInv, TypeOK, PinInsert, GoTo
<1>4. \A d \in Engines : verify'[d] = "touching" => verify[d] = "touching"
  BY DEF EngineInv, TypeOK, PinInsert, GoTo
<1>5. UNCHANGED <<key, trust, profile>>
  BY DEF PinInsert, GoTo
<1>6. ~profile => pin' = NoKey
  BY DEF EngineInv, PinInsert, PinInserted
<1>7. TrustIsPinned'
  BY <1>1, <1>2, <1>5 DEF EngineInv, TypeOK, TrustIsPinned, PinProgress
<1>8. \A d \in Engines : PinProgress(d)'
  BY <1>1, <1>2, <1>3, <1>4, <1>5 DEF EngineInv, PinProgress, PinInsert, GoTo, TypeOK
<1> QED BY <1>5, <1>6, <1>7, <1>8 DEF EngineInv

LEMMA DatabaseKeepsTrust ==
  ASSUME EngineInv, TypeOK', NEW e \in Engines, Database(e)
  PROVE  EngineInv'
<1>1. CASE LookUp(e)
  <2>1. UNCHANGED <<key, pin, profile>> /\ verify[e] # "none"
    BY <1>1 DEF LookUp
  <2>2. CASE pin = key[e] /\ Trust(e, "matched")
    BY <2>1, <2>2, TrustKeepsTrust
  <2>3. CASE Refuse(e)
    BY <2>1, <2>3, RefuseKeepsTrust
  <2>4. CASE GoTo(e, "asking")
    BY <2>1, <2>4 DEF EngineInv, TypeOK, TrustIsPinned, PinProgress, GoTo
  <2> QED BY <1>1, <2>2, <2>3, <2>4 DEF LookUp
<1>2. CASE PinInsert(e)
  BY <1>2, InsertKeepsTrust
<1>3. CASE PinRead(e)
  <2>1. UNCHANGED <<key, pin, profile>> /\ verify[e] # "none"
    BY <1>3 DEF PinRead
  <2>2. CASE pin = key[e] /\ GoTo(e, "touching")
    BY <2>1, <2>2 DEF EngineInv, TypeOK, TrustIsPinned, PinProgress, GoTo
  <2>3. CASE Refuse(e)
    BY <2>1, <2>3, RefuseKeepsTrust
  <2> QED BY <1>3, <2>2, <2>3 DEF PinRead
<1>4. CASE PinTouch(e)
  <2>1. UNCHANGED <<key, pin, profile>> /\ verify[e] # "none" /\ (profile => pin = key[e])
    BY <1>4 DEF PinTouch, EngineInv, PinProgress
  <2> QED BY <1>4, <2>1, TrustKeepsTrust DEF PinTouch
<1>5. CASE DatabaseFails(e)
  BY <1>5, RefuseKeepsTrust DEF DatabaseFails, AtDatabase
<1> QED BY <1>1, <1>2, <1>3, <1>4, <1>5 DEF Database

LEMMA EngineKeepsTrust ==
  ASSUME EngineInv, TypeOK', NEW e \in Engines, EngineStep(e)
  PROVE  EngineInv'
<1>1. CASE Connect(e) \/ Dials(e) \/ ClientReady(e) \/ ShellOpens(e) \/ ShellContinues(e)
           \/ CloseFinishes(e)
  <2>1. UNCHANGED <<key, trust, pin, profile, verify>>
    BY <1>1 DEF Connect, Dials, TransportOpens, TransportFails, ClientReady, ShellOpens,
                ShellContinues, CloseFinishes
  <2>2. \A d \in Engines : verify'[d] = verify[d]
    BY <2>1
  <2> QED BY <2>1, <2>2, TrustUntouched
<1>2. CASE ClientFails(e) \/ ReadyTimeoutFires(e) \/ SessionCloses(e)
  BY <1>2, CloseKeepsTrust DEF ClientFails, ReadyTimeoutFires, SessionCloses
<1>3. CASE HostKeyArrives(e)
  <2>1. verify[e] = "none" /\ trust[e] = "none" /\ UNCHANGED <<trust, pin, profile>>
    BY <1>3 DEF HostKeyArrives, EngineInv, PinProgress, TypeOK
  <2>2. \A d \in Engines \ {e} : key'[d] = key[d] /\ verify'[d] = verify[d]
    BY <1>3 DEF HostKeyArrives, EngineInv, TypeOK
  <2>3. key'[e] \in Keys /\ verify'[e] = "lookup"
    BY <1>3 DEF HostKeyArrives, EngineInv, TypeOK
  <2> QED BY <2>1, <2>2, <2>3 DEF EngineInv, TrustIsPinned, PinProgress
<1>4. CASE AskTimeoutFires(e)
  BY <1>4, RefuseKeepsTrust DEF AskTimeoutFires, Asking
<1>5. CASE Decide(e)
  <2>1. UNCHANGED <<key, pin, profile>> /\ verify[e] # "none"
    BY <1>5 DEF Decide, Asking
  <2>2. CASE Refuse(e)
    BY <2>1, <2>2, RefuseKeepsTrust
  <2>3. CASE Trust(e, "once")
    BY <2>1, <2>3, TrustKeepsTrust
  <2>4. CASE GoTo(e, "inserting")
    BY <2>1, <2>4 DEF EngineInv, TypeOK, TrustIsPinned, PinProgress, GoTo
  <2> QED BY <1>5, <2>2, <2>3, <2>4 DEF Decide
<1> QED BY <1>1, <1>2, <1>3, <1>4, <1>5, DatabaseKeepsTrust DEF EngineStep

LEMMA EngineInvKept ==
  ASSUME EngineInv, [Next]_vars
  PROVE  EngineInv'
<1>1. TypeOK'
  BY TypesKept DEF EngineInv
<1>2. CASE UNCHANGED vars \/ Tick
  <2>1. UNCHANGED <<key, trust, pin, profile, verify>>
    BY <1>2 DEF vars, Tick
  <2>2. \A d \in Engines : verify'[d] = verify[d]
    BY <2>1
  <2> QED BY <1>1, <2>1, <2>2, TrustUntouched
<1>3. CASE DeleteProfile
  BY <1>1, <1>3 DEF EngineInv, TrustIsPinned, PinProgress, DeleteProfile, engineVars
<1> QED BY <1>1, <1>2, <1>3, EngineKeepsTrust DEF Next

\* Every reachable state of the engines satisfies the invariant.
THEOREM EngineInvHolds == Spec => []EngineInv
BY EngineInvInit, EngineInvKept, PTL DEF Spec

\* The engines' variables keep their types; timers never run past their time.
THEOREM TypesHold == Spec => []TypeOK
<1>1. EngineInv => TypeOK
  BY DEF EngineInv
<1> QED BY <1>1, EngineInvHolds, PTL

\* Whoever recognised or remembered its key has the key that is pinned.
THEOREM TrustHolds == Spec => []TrustIsPinned
<1>1. EngineInv => TrustIsPinned
  BY DEF EngineInv
<1> QED BY <1>1, EngineInvHolds, PTL

\* A pinned key stays until its profile is deleted.
THEOREM PinHolds == Spec => PinIsForever
<1>1. ASSUME EngineInv, [Next]_vars, pin # NoKey, pin' # pin
      PROVE  DeleteProfile
  <2>1. ASSUME NEW e \in Engines PROVE ~EngineStep(e)
    BY <1>1, <2>1 DEF EngineStep, Connect, Dials, TransportOpens, TransportFails,
       HostKeyArrives, ClientReady, ClientFails, ShellOpens, ShellContinues,
       ReadyTimeoutFires, AskTimeoutFires, Database, LookUp, PinInsert, PinInserted,
       PinRead, PinTouch, DatabaseFails, Decide, SessionCloses, CloseFinishes, Close
  <2> QED BY <1>1, <2>1 DEF Next, Tick, vars
<1>2. EngineInv /\ [Next]_vars => [pin # NoKey /\ pin' # pin => DeleteProfile]_vars
  BY <1>1
<1> QED BY <1>2, EngineInvHolds, PTL DEF Spec, PinIsForever

-----------------------------------------------------------------------------
(***************************************************************************)
(* The order of things: where connect() and verifyHostKey() of one engine  *)
(* can be, before and after close().  close() leaves alone what it does    *)
(* not know yet, so what it finds has to be said for each await.           *)
(***************************************************************************)
InOrder(e) ==
  /\ step[e] \in {"idle", "refused", "dialing"} => verify[e] = "none"
  /\ step[e] \in {"idle", "handshake", "shell"} => closing[e] = "no"
  /\ step[e] = "failed" => closing[e] # "no"
  /\ step[e] = "dialing" /\ closing[e] # "no" => Closed(e)
  /\ Closed(e) => closing[e] # "no"
  /\ verify[e] \notin {"none", "trusted"} /\ closing[e] = "no" => step[e] = "handshake"
  /\ transport[e] = "held" => closing[e] = "no"
  /\ readyLeft[e] # Off => step[e] = "handshake"

EngineOrder == TypeOK /\ \A e \in Engines : InOrder(e)

LEMMA EngineOrderInit == Init => EngineOrder
BY EngineInvInit DEF EngineInv, EngineOrder, InOrder, Closed, Init

\* A step of one engine leaves the others where they are.
LEMMA OthersUntouched ==
  ASSUME TypeOK, NEW e \in Engines, EngineStep(e), NEW d \in Engines, d # e
  PROVE  /\ state'[d] = state[d] /\ step'[d] = step[d] /\ transport'[d] = transport[d]
         /\ verify'[d] = verify[d] /\ closing'[d] = closing[d]
         /\ readyLeft'[d] = readyLeft[d]
<1>1. CASE Connect(e) \/ Dials(e) \/ HostKeyArrives(e) \/ ClientReady(e) \/ ShellOpens(e)
           \/ ShellContinues(e) \/ CloseFinishes(e)
  BY <1>1 DEF TypeOK, Connect, Dials, TransportOpens, TransportFails, Shut, HostKeyArrives,
              ClientReady, ShellOpens, ShellContinues, CloseFinishes
<1>2. CASE ClientFails(e) \/ ReadyTimeoutFires(e) \/ SessionCloses(e)
  BY <1>2 DEF TypeOK, ClientFails, ReadyTimeoutFires, SessionCloses, Close, Shut,
              Interrupted
<1>3. ASSUME Refuse(e) \/ GoTo(e, "asking") \/ GoTo(e, "inserting") \/ GoTo(e, "reading")
             \/ GoTo(e, "touching") \/ \E reason : Trust(e, reason)
      PROVE  /\ state'[d] = state[d] /\ step'[d] = step[d] /\ transport'[d] = transport[d]
             /\ verify'[d] = verify[d] /\ closing'[d] = closing[d]
             /\ readyLeft'[d] = readyLeft[d]
  BY <1>3 DEF TypeOK, Refuse, Shut, Interrupted, GoTo, Trust
<1>4. CASE AskTimeoutFires(e) \/ Database(e) \/ Decide(e)
  BY <1>3, <1>4 DEF AskTimeoutFires, Database, LookUp, PinInsert, PinRead, PinTouch,
                    DatabaseFails, Decide
<1> QED BY <1>1, <1>2, <1>4 DEF EngineStep

\* close(), by whomever: the engine is in order, and its phase is "closed".
LEMMA ShutInOrder ==
  ASSUME TypeOK, NEW e \in Engines, InOrder(e), step[e] # "idle", Shut(e),
         step' = Interrupted(e),
         \/ verify'[e] = verify[e]
         \/ verify[e] # "none" /\ verify'[e] = "refused"
  PROVE  InOrder(e)' /\ closing'[e] # "no"
BY DEF TypeOK, InOrder, Closed, Shut, Interrupted, Off

LEMMA StepInOrder ==
  ASSUME TypeOK, TypeOK', NEW e \in Engines, InOrder(e), EngineStep(e)
  PROVE  InOrder(e)'
<1>1. CASE Connect(e)
  BY <1>1 DEF TypeOK, InOrder, Closed, Connect, Off
<1>2. CASE TransportOpens(e)
  BY <1>2 DEF TypeOK, InOrder, Closed, TransportOpens, Off
<1>3. CASE TransportFails(e)
  BY <1>3 DEF TypeOK, InOrder, Closed, TransportFails, Shut, Off
<1>4. CASE HostKeyArrives(e) \/ ClientReady(e) \/ ShellOpens(e) \/ ShellContinues(e)
           \/ CloseFinishes(e)
  BY <1>4 DEF TypeOK, InOrder, Closed, HostKeyArrives, ClientReady, ShellOpens,
              ShellContinues, CloseFinishes, Off
<1>5. CASE ClientFails(e) \/ ReadyTimeoutFires(e) \/ SessionCloses(e)
  <2>1. Close(e) /\ step[e] # "idle"
    BY <1>5 DEF ClientFails, InClient, ReadyTimeoutFires, SessionCloses, InOrder, Off
  <2>2. verify'[e] = verify[e] \/ (verify[e] # "none" /\ verify'[e] = "refused")
    BY <2>1 DEF TypeOK, Close
  <2> QED BY <2>1, <2>2, ShutInOrder DEF Close
<1>6. ASSUME Refuse(e), verify[e] # "none"
      PROVE  InOrder(e)'
  <2>1. step[e] # "idle" /\ verify'[e] = "refused"
    BY <1>6 DEF TypeOK, Refuse, InOrder
  <2> QED BY <1>6, <2>1, ShutInOrder DEF Refuse
<1>7. ASSUME NEW next \in AtDatabase \cup {"asking"}, GoTo(e, next),
             verify[e] \notin {"none", "trusted"}
      PROVE  InOrder(e)'
  BY <1>7 DEF TypeOK, InOrder, Closed, GoTo, AtDatabase
<1>8. ASSUME NEW reason, Trust(e, reason), verify[e] # "none"
      PROVE  InOrder(e)'
  BY <1>8 DEF TypeOK, InOrder, Closed, Trust
<1>9. CASE AskTimeoutFires(e)
  BY <1>6, <1>9 DEF AskTimeoutFires, Asking
<1>10. CASE Decide(e)
  BY <1>6, <1>7, <1>8, <1>10 DEF Decide, Asking, AtDatabase
<1>11. CASE Database(e)
  BY <1>6, <1>7, <1>8, <1>11
  DEF Database, LookUp, PinInsert, PinRead, PinTouch, DatabaseFails, AtDatabase
<1> QED BY <1>1, <1>2, <1>3, <1>4, <1>5, <1>9, <1>10, <1>11 DEF EngineStep, Dials

LEMMA EngineOrderKept ==
  ASSUME EngineOrder, [Next]_vars
  PROVE  EngineOrder'
<1>1. TypeOK'
  BY TypesKept DEF EngineOrder
<1>2. CASE UNCHANGED vars \/ DeleteProfile
  BY <1>1, <1>2 DEF EngineOrder, InOrder, Closed, vars, DeleteProfile, engineVars
<1>3. CASE Tick
  <2>1. \A e \in Engines : readyLeft'[e] # Off => readyLeft[e] # Off
    BY <1>3 DEF EngineOrder, TypeOK, Tick, Elapse, Off
  <2> QED BY <1>1, <1>3, <2>1 DEF EngineOrder, InOrder, Closed, Tick
<1>4. CASE \E e \in Engines : EngineStep(e)
  <2>1. PICK e \in Engines : EngineStep(e)
    BY <1>4
  <2>2. InOrder(e)'
    BY <1>1, <2>1, StepInOrder DEF EngineOrder
  <2>3. ASSUME NEW d \in Engines, d # e
        PROVE  InOrder(d)'
    BY <2>1, <2>3, OthersUntouched DEF EngineOrder, InOrder, Closed
  <2> QED BY <1>1, <2>2, <2>3 DEF EngineOrder
<1> QED BY <1>2, <1>3, <1>4 DEF Next

LEMMA EngineOrderHolds == Spec => []EngineOrder
BY EngineOrderInit, EngineOrderKept, PTL DEF Spec

(***************************************************************************)
(* close() has given back the transport and the handshake timer it knew    *)
(* of, and neither comes back, whatever connect() was waiting for.         *)
(***************************************************************************)
THEOREM ClosedEngineHoldsNothing == Spec => []ClosedHoldsNothing
<1>1. EngineOrder => ClosedHoldsNothing
  BY DEF EngineOrder, InOrder, ClosedHoldsNothing
<1> QED BY <1>1, EngineOrderHolds, PTL

-----------------------------------------------------------------------------
(***************************************************************************)
(* The engines implement EngineContract under the mapping Phases: every    *)
(* step of an engine is a step of the contract for it, or changes no       *)
(* phase.                                                                  *)
(***************************************************************************)

\* Which phase an engine that is in order has.
LEMMA PhaseOf ==
  ASSUME NEW e \in Engines
  PROVE  /\ closing[e] # "no" => Phase(e) = "closed"
         /\ closing[e] = "no" =>
              /\ step[e] \in {"idle", "refused", "dialing"} => Phase(e) = step[e]
              /\ step[e] \in {"shell", "opened"} => Phase(e) = "opening"
              /\ step[e] = "done" => Phase(e) = "ready"
              /\ step[e] = "handshake" =>
                   /\ verify[e] \in {"none", "lookup"} => Phase(e) = "dialing"
                   /\ verify[e] = "asking" => Phase(e) = "confirming"
                   /\ verify[e] \notin {"none", "lookup", "asking"}
                        => Phase(e) = "authenticating"
<1>1. CASE closing[e] # "no"
  BY <1>1 DEF Phase
<1>2. CASE closing[e] = "no" /\ step[e] \in {"idle", "refused", "dialing"}
  BY <1>2 DEF Phase
<1>3. CASE closing[e] = "no" /\ step[e] \in {"shell", "opened", "done"}
  BY <1>3 DEF Phase
<1>4. CASE closing[e] = "no" /\ step[e] = "handshake"
  <2>1. CASE verify[e] \in {"none", "lookup"}
    BY <1>4, <2>1 DEF Phase, Asking
  <2>2. CASE verify[e] = "asking"
    BY <1>4, <2>2 DEF Phase, Asking
  <2>3. CASE verify[e] \notin {"none", "lookup", "asking"}
    BY <1>4, <2>3 DEF Phase, Asking
  <2> QED BY <1>4, <2>1, <2>2, <2>3
<1> QED BY <1>1, <1>2, <1>3, <1>4

LEMMA PhaseOfNext ==
  ASSUME NEW e \in Engines
  PROVE  /\ closing'[e] # "no" => Phase(e)' = "closed"
         /\ closing'[e] = "no" =>
              /\ step'[e] \in {"idle", "refused", "dialing"} => Phase(e)' = step'[e]
              /\ step'[e] \in {"shell", "opened"} => Phase(e)' = "opening"
              /\ step'[e] = "done" => Phase(e)' = "ready"
              /\ step'[e] = "handshake" =>
                   /\ verify'[e] \in {"none", "lookup"} => Phase(e)' = "dialing"
                   /\ verify'[e] = "asking" => Phase(e)' = "confirming"
                   /\ verify'[e] \notin {"none", "lookup", "asking"}
                        => Phase(e)' = "authenticating"
<1>1. CASE closing'[e] # "no"
  BY <1>1 DEF Phase
<1>2. CASE closing'[e] = "no" /\ step'[e] \in {"idle", "refused", "dialing"}
  BY <1>2 DEF Phase
<1>3. CASE closing'[e] = "no" /\ step'[e] \in {"shell", "opened", "done"}
  BY <1>3 DEF Phase
<1>4. CASE closing'[e] = "no" /\ step'[e] = "handshake"
  <2>1. CASE verify'[e] \in {"none", "lookup"}
    BY <1>4, <2>1 DEF Phase, Asking
  <2>2. CASE verify'[e] = "asking"
    BY <1>4, <2>2 DEF Phase, Asking
  <2>3. CASE verify'[e] \notin {"none", "lookup", "asking"}
    BY <1>4, <2>3 DEF Phase, Asking
  <2> QED BY <1>4, <2>1, <2>2, <2>3
<1> QED BY <1>1, <1>2, <1>3, <1>4

LEMMA ContractOrder ==
  /\ Contract!Before("dialing") = {"idle"} /\ Contract!Before("refused") = {"idle"}
  /\ Contract!Before("confirming") = {"dialing"}
  /\ Contract!Before("authenticating") = {"dialing", "confirming"}
  /\ Contract!Before("opening") = {"authenticating"}
  /\ Contract!Before("ready") = {"opening"}
  /\ Contract!Before("closed") = {"dialing", "confirming", "authenticating", "opening",
                                  "ready", "refused"}
BY DEF Contract!Before, Contract!Running

\* What the contract allows an engine to do in one step.
Advances(e) ==
  \/ Phase(e)' = Phase(e)
  \/ /\ Phase(e) \in Contract!Before(Phase(e)')
     /\ Phase(e)' \in Contract!Running \cup {"refused", "closed"}

\* close() is allowed whenever there is something to close.
LEMMA ClosingAdvances ==
  ASSUME TypeOK, NEW e \in Engines, InOrder(e), step[e] # "idle", closing'[e] # "no"
  PROVE  Advances(e)
<1>1. Phase(e)' = "closed"
  BY PhaseOfNext
<1>2. CASE closing[e] # "no"
  BY <1>1, <1>2, PhaseOf DEF Advances
<1>3. CASE closing[e] = "no"
  <2>1. Phase(e) \in {"dialing", "confirming", "authenticating", "opening", "ready",
                      "refused"}
    BY <1>3, PhaseOf DEF TypeOK, InOrder
  <2> QED BY <1>1, <2>1, ContractOrder DEF Advances
<1> QED BY <1>2, <1>3

LEMMA StepAdvances ==
  ASSUME TypeOK, TypeOK', NEW e \in Engines, InOrder(e), InOrder(e)', EngineStep(e)
  PROVE  Advances(e)
<1> USE DEF Contract!Running
<1>1. CASE closing'[e] # "no"
  <2>1. step[e] # "idle" \/ step'[e] # "idle"
    BY <1>1 DEF InOrder
  <2>2. step[e] # "idle"
    BY <1>1, <2>1 DEF EngineStep, InOrder, Connect, Dials, TransportOpens, TransportFails,
       HostKeyArrives, ClientReady, ClientFails, InClient, ShellOpens, ShellContinues,
       ReadyTimeoutFires, AskTimeoutFires, Asking, Database, LookUp, PinInsert, PinRead,
       PinTouch, DatabaseFails, AtDatabase, Decide, SessionCloses, CloseFinishes, Off
  <2> QED BY <1>1, <2>2, ClosingAdvances
<1>2. CASE closing'[e] = "no"
  <2>1. closing[e] = "no"
    BY <1>2 DEF TypeOK, EngineStep, Connect, Dials, TransportOpens, TransportFails, Shut,
       HostKeyArrives, ClientReady, ClientFails, Close, ShellOpens, ShellContinues,
       ReadyTimeoutFires, AskTimeoutFires, Refuse, Trust, GoTo, Database, LookUp, PinInsert,
       PinRead, PinTouch, DatabaseFails, Decide, SessionCloses, CloseFinishes
  <2>2. ~Shut(e)
    BY <1>2, <2>1 DEF TypeOK, Shut
  <2>3. CASE Connect(e)
    <3>1. Phase(e) = "idle" /\ Phase(e)' \in {"dialing", "refused"}
      BY <1>2, <2>1, <2>3, PhaseOf, PhaseOfNext DEF TypeOK, Connect
    <3> QED BY <3>1, ContractOrder DEF Advances
  <2>4. CASE TransportOpens(e)
    <3>1. Phase(e) = "dialing" /\ verify'[e] = "none" /\ step'[e] \in {"handshake", "failed"}
      BY <2>1, <2>4, PhaseOf DEF TypeOK, InOrder, TransportOpens
    <3>2. step'[e] = "handshake"
      BY <1>2, <3>1 DEF InOrder
    <3> QED BY <1>2, <3>1, <3>2, PhaseOfNext DEF Advances
  <2>5. CASE HostKeyArrives(e)
    <3>1. Phase(e) = "dialing" /\ Phase(e)' = "dialing"
      BY <1>2, <2>1, <2>5, PhaseOf, PhaseOfNext DEF TypeOK, HostKeyArrives
    <3> QED BY <3>1 DEF Advances
  <2>6. CASE ClientReady(e)
    <3>1. Phase(e) = "authenticating" /\ Phase(e)' = "opening"
      BY <1>2, <2>1, <2>6, PhaseOf, PhaseOfNext DEF TypeOK, ClientReady
    <3> QED BY <3>1, ContractOrder DEF Advances
  <2>7. CASE ShellOpens(e)
    <3>1. Phase(e) = "opening" /\ Phase(e)' = "opening"
      BY <1>2, <2>1, <2>7, PhaseOf, PhaseOfNext DEF TypeOK, ShellOpens
    <3> QED BY <3>1 DEF Advances
  <2>8. CASE ShellContinues(e)
    <3>1. Phase(e) = "opening" /\ Phase(e)' = "ready"
      BY <1>2, <2>1, <2>8, PhaseOf, PhaseOfNext DEF TypeOK, ShellContinues
    <3> QED BY <3>1, ContractOrder DEF Advances
  <2>9. CASE CloseFinishes(e)
    BY <1>2, <2>9 DEF TypeOK, CloseFinishes
  <2>10. ASSUME UNCHANGED step, verify[e] \notin {"none", "trusted"},
                verify'[e] \notin {"none", "lookup"}, verify'[e] = "asking" => verify[e] = "lookup"
         PROVE  Advances(e)
    <3>1. step[e] = "handshake" /\ step'[e] = "handshake"
      BY <2>1, <2>10 DEF InOrder
    <3>2. Phase(e) \in {"dialing", "confirming", "authenticating"}
      BY <2>1, <3>1, PhaseOf
    <3>3. CASE verify'[e] = "asking"
      <4>1. Phase(e) = "dialing" /\ Phase(e)' = "confirming"
        BY <1>2, <2>1, <2>10, <3>1, <3>3, PhaseOf, PhaseOfNext
      <4> QED BY <4>1, ContractOrder DEF Advances
    <3>4. CASE verify'[e] # "asking"
      <4>1. Phase(e)' = "authenticating"
        BY <1>2, <2>10, <3>1, <3>4, PhaseOfNext
      <4> QED BY <3>2, <4>1, ContractOrder DEF Advances
    <3> QED BY <3>3, <3>4
  <2>11. CASE Database(e)
    <3>1. UNCHANGED step /\ verify[e] \notin {"none", "trusted"}
      BY <2>2, <2>11 DEF Database, LookUp, PinInsert, PinRead, PinTouch, DatabaseFails,
                         Trust, GoTo, Refuse, AtDatabase
    <3>2. /\ verify'[e] \notin {"none", "lookup"}
          /\ verify'[e] = "asking" => verify[e] = "lookup"
      BY <2>2, <2>11 DEF TypeOK, Database, LookUp, PinInsert, PinRead, PinTouch,
                         DatabaseFails, Trust, GoTo, Refuse, AtDatabase
    <3> QED BY <2>10, <3>1, <3>2
  <2>12. CASE Decide(e)
    <3>1. UNCHANGED step /\ verify[e] \notin {"none", "trusted"}
      BY <2>2, <2>12 DEF Decide, Asking, Trust, GoTo, Refuse
    <3>2. verify'[e] \in {"trusted", "inserting"}
      BY <2>2, <2>12 DEF TypeOK, Decide, Trust, GoTo, Refuse
    <3> QED BY <2>10, <3>1, <3>2
  <2> QED BY <2>2, <2>3, <2>4, <2>5, <2>6, <2>7, <2>8, <2>9, <2>11, <2>12
          DEF EngineStep, Dials, TransportFails, ClientFails, ReadyTimeoutFires,
              SessionCloses, Close, AskTimeoutFires, Refuse
<1> QED BY <1>1, <1>2

LEMMA ContractStep ==
  ASSUME EngineOrder, EngineOrder', [Next]_vars
  PROVE  [Contract!Next]_Phases
<1>1. CASE \E e \in Engines : EngineStep(e)
  <2>1. PICK e \in Engines : EngineStep(e)
    BY <1>1
  <2>2. Advances(e)
    BY <2>1, StepAdvances DEF EngineOrder
  <2>3. ASSUME NEW d \in Engines, d # e
        PROVE  Phase(d)' = Phase(d)
    BY <2>1, <2>3, OthersUntouched DEF EngineOrder, Phase, Asking
  <2>4. CASE Phase(e)' = Phase(e)
    BY <2>3, <2>4 DEF Phases
  <2>5. CASE /\ Phase(e) \in Contract!Before(Phase(e)')
             /\ Phase(e)' \in Contract!Running \cup {"refused", "closed"}
    <3>1. Phases' = [Phases EXCEPT ![e] = Phase(e)']
      BY <2>3 DEF Phases
    <3>2. Phases[e] = Phase(e)
      BY DEF Phases
    <3>3. Contract!Advance(e, Phase(e)')
      BY <2>5, <3>1, <3>2 DEF Contract!Advance
    <3> QED BY <2>5, <3>3 DEF Contract!Next
  <2> QED BY <2>2, <2>4, <2>5 DEF Advances
<1>2. CASE DeleteProfile \/ Tick \/ UNCHANGED vars
  <2>1. UNCHANGED <<closing, step, verify>>
    BY <1>2 DEF DeleteProfile, engineVars, Tick, vars
  <2>2. \A d \in Engines : Phase(d)' = Phase(d)
    BY <2>1 DEF Phase, Asking
  <2> QED BY <2>2 DEF Phases
<1> QED BY <1>1, <1>2 DEF Next

(***************************************************************************)
(* Every behaviour of the engines keeps the contract a session object      *)
(* relies on: the phases come in order, one engine at a time, and closing  *)
(* is final.                                                               *)
(***************************************************************************)
THEOREM EnginesKeepContract == Spec => KeepsContract
<1>1. Init => Contract!Init
  BY PhaseOf DEF Init, Phases, Contract!Init
<1>2. EngineOrder /\ EngineOrder' /\ [Next]_vars => [Contract!Next]_Phases
  BY ContractStep
<1> QED BY <1>1, <1>2, EngineOrderHolds, PTL DEF Spec, KeepsContract, Contract!Spec

-----------------------------------------------------------------------------
(* The session at work: what is asked and not heard is a line, and what the *)
(* pane shows and waits for agrees with it.                                 *)

Folders == {Home} \cup Paths
Entries == Paths \cup Files
Lists == {"list", "listed"}

Messages ==
  [type : {"list"}, id : Ids, path : Folders, cursor : Nat]
  \cup [type : {"mkdir", "delete"}, id : Ids, path : Folders, name : Files]
  \cup [type : {"shell-history", "disconnect"}, id : Ids]
  \cup [type : {"activity"}, id : Ids, on : BOOLEAN]
  \cup [type : {"input"}, id : Ids, data : Chunks]
Answers ==
  [type : {"listed"}, id : Ids, names : Seq(Entries), next : Nat]
  \cup [type : {"changed", "shell-history-result", "error"}, id : Ids]
Mail == Messages \cup Answers

Waiting == UNION {[ids -> BOOLEAN] : ids \in SUBSET Ids}
Panes == [open : BOOLEAN, path : Folders, shown : Seq(Entries), requests : Waiting, failed : BOOLEAN]

\* The pane p waits for the message at place i of the line q; it is the first
\* page of the pane's listing; none of these is further behind.
Asked(q, p, i)  == q[i].id \in DOMAIN p.requests
Leads(q, p, i)  == Asked(q, p, i) /\ ~p.requests[q[i].id]
Behind(q, p, i) == \A k \in DOMAIN q : Leads(q, p, k) => k =< i

Distinct(q) == \A i, j \in DOMAIN q : q[i].id = q[j].id => i = j

\* What the pane waits for is under way.  While it is open, it waits for the
\* listings that it will hear after the first page, and for no earlier one; they
\* are of its directory.
LineOk(q, p) ==
  /\ Distinct(q)
  /\ \A id \in DOMAIN p.requests :
       \E i \in DOMAIN q : q[i].id = id /\ q[i].type \in Lists \cup {"error"}
  /\ p.open => \A i \in DOMAIN q :
       /\ Asked(q, p, i) => Behind(q, p, i)
       /\ q[i].type \in Lists /\ Behind(q, p, i) => Asked(q, p, i)
       /\ q[i].type = "list" /\ Asked(q, p, i) =>
            q[i].path = p.path /\ (Leads(q, p, i) => q[i].cursor = 0)

\* The entries of S after the first c, and those that message m will bring.
Rest(S, c) == {Sorted(S)[j] : j \in c + 1 .. Len(Sorted(S))}
Brings(m, S) ==
  IF m.type = "list" THEN Rest(S, m.cursor)
  ELSE ToSet(m.names) \cup (IF m.next > 0 THEN Rest(S, m.next) ELSE {})

\* While no change is to be heard of, answers are of the directory as it is, and
\* what is not shown is still to come.
Truthful(q, p, S) ==
  p.open /\ ~p.failed /\ (\A i \in DOMAIN q : q[i].type # "changed") =>
    /\ \A i \in DOMAIN q : Asked(q, p, i) /\ q[i].type = "listed" => ToSet(q[i].names) \subseteq S
    /\ \A i \in DOMAIN q : Leads(q, p, i) /\ q[i].type = "listed" => S \subseteq Brings(q[i], S)
    /\ (\A i \in DOMAIN q : ~Leads(q, p, i)) =>
         /\ ToSet(p.shown) \subseteq S
         /\ \/ \E i \in DOMAIN q : Asked(q, p, i) /\ q[i].type = "error"
            \/ \A x \in S : \/ x \in ToSet(p.shown)
                            \/ \E i \in DOMAIN q : q[i].type \in Lists /\ x \in Brings(q[i], S)

\* The panel waits for b, which is under way.
BashTypes == {"shell-history", "shell-history-result", "error"}
Awaited(q, b) == b # NoId => \E i \in DOMAIN q : q[i].id = b /\ q[i].type \in BashTypes

WireTypes ==
  /\ outbox \in Seq(Answers) /\ inbox \in Seq(Messages)
  /\ serving \in Seq({m \in Messages : m.type \in {"list", "mkdir", "delete", "shell-history"}})
  /\ Len(serving) =< 1

FileTypes ==
  /\ dirs \in [Folders -> SUBSET Entries]
  /\ pane \in Panes /\ (~pane.open => pane = ClosedPane)
  /\ bash \in Ids \cup {NoId}
  /\ Awaited(Line, bash)
  /\ clicks \in 0 .. MaxClicks /\ typed \in 0 .. MaxTyped
  /\ Len(Line) =< 1 + clicks + typed

WorkInv == WireTypes /\ FileTypes /\ LineOk(Line, pane) /\ Truthful(Line, pane, dirs[pane.path])

-----------------------------------------------------------------------------
(* The line, and what a step does to it: it grows by a message, loses the   *)
(* one at a place, or has one answered.                                     *)

Grown(q, m, r) ==
  /\ Len(r) = Len(q) + 1 /\ r[Len(q) + 1] = m
  /\ \A j \in 1 .. Len(q) : r[j] = q[j]

Dropped(q, k, r) ==
  /\ k \in 1 .. Len(q) /\ Len(q) = Len(r) + 1
  /\ \A j \in 1 .. Len(r) : r[j] = IF j < k THEN q[j] ELSE q[j + 1]

Answered(q, k, m, r) ==
  /\ k \in 1 .. Len(q) /\ Len(r) = Len(q) /\ r[k] = m
  /\ \A j \in 1 .. Len(q) : j # k => r[j] = q[j]

\* q is o, then s, then b.
Parts(q, o, s, b) ==
  /\ Len(q) = Len(o) + Len(s) + Len(b)
  /\ Len(o) \in Nat /\ Len(s) \in Nat /\ Len(b) \in Nat
  /\ \A i \in 1 .. Len(o) : q[i] = o[i]
  /\ \A i \in 1 .. Len(s) : q[Len(o) + i] = s[i]
  /\ \A i \in 1 .. Len(b) : q[Len(o) + Len(s) + i] = b[i]

LEMMA Joined ==
  ASSUME NEW S, NEW o \in Seq(S), NEW s \in Seq(S), NEW b \in Seq(S)
  PROVE  o \o s \o b \in Seq(S) /\ Parts(o \o s \o b, o, s, b)
<1>1. /\ o \o s \in Seq(S) /\ Len(o \o s) = Len(o) + Len(s)
      /\ Len(o) \in Nat /\ Len(s) \in Nat /\ Len(b) \in Nat
      /\ \A i \in 1 .. Len(o) : (o \o s)[i] = o[i]
      /\ \A i \in 1 .. Len(s) : (o \o s)[Len(o) + i] = s[i]
  OBVIOUS
<1> DEFINE w == o \o s
<1>2. /\ w \o b \in Seq(S) /\ Len(w \o b) = Len(w) + Len(b)
      /\ \A i \in 1 .. Len(w) : (w \o b)[i] = w[i]
      /\ \A i \in 1 .. Len(b) : (w \o b)[Len(w) + i] = b[i]
  <2> HIDE DEF w
  <2>1. w \in Seq(S)
    BY <1>1 DEF w
  <2> QED
    BY <2>1
<1> QED
  BY <1>1, <1>2 DEF Parts

LEMMA PartsGrow ==
  ASSUME NEW q, NEW r, NEW o, NEW s, NEW b, NEW d, NEW m,
         Parts(q, o, s, b), Parts(r, o, s, d),
         Len(d) = Len(b) + 1, d[Len(b) + 1] = m, \A i \in 1 .. Len(b) : d[i] = b[i]
  PROVE  Grown(q, m, r)
<1>1. ASSUME NEW j \in 1 .. Len(q) PROVE r[j] = q[j]
  <2>1. CASE j \in 1 .. Len(o)
    BY <2>1 DEF Parts
  <2>2. CASE j - Len(o) \in 1 .. Len(s)
    <3>1. r[Len(o) + (j - Len(o))] = s[j - Len(o)] /\ q[Len(o) + (j - Len(o))] = s[j - Len(o)]
      BY <2>2 DEF Parts
    <3> QED
      BY <2>2, <3>1 DEF Parts
  <2>3. CASE j - Len(o) - Len(s) \in 1 .. Len(b)
    <3> DEFINE i == j - Len(o) - Len(s)
    <3>1. q[Len(o) + Len(s) + i] = b[i] /\ r[Len(o) + Len(s) + i] = d[i] /\ d[i] = b[i]
      BY <2>3 DEF Parts
    <3> QED
      BY <2>3, <3>1 DEF Parts
  <2> QED
    BY <2>1, <2>2, <2>3 DEF Parts
<1>2. r[Len(o) + Len(s) + (Len(b) + 1)] = m
  BY DEF Parts
<1> QED
  BY <1>1, <1>2 DEF Parts, Grown

LEMMA SentLine ==
  ASSUME NEW S, NEW o \in Seq(S), NEW s \in Seq(S), NEW b \in Seq(S), NEW m \in S
  PROVE  Grown(o \o s \o b, m, o \o s \o Append(b, m)) /\ o \o s \o Append(b, m) \in Seq(S)
<1>1. /\ Append(b, m) \in Seq(S) /\ Len(Append(b, m)) = Len(b) + 1 /\ Append(b, m)[Len(b) + 1] = m
      /\ \A i \in 1 .. Len(b) : Append(b, m)[i] = b[i]
  OBVIOUS
<1>2. Parts(o \o s \o b, o, s, b) /\ Parts(o \o s \o Append(b, m), o, s, Append(b, m))
  BY <1>1, Joined
<1> QED
  BY <1>1, <1>2, PartsGrow, Joined

\* The first of those not handled yet is handled at once, nothing being served.
LEMMA PartsHandled ==
  ASSUME NEW q, NEW r, NEW o, NEW s, NEW b, NEW d,
         Parts(q, o, s, b), Parts(r, o, s, d), Len(s) = 0,
         Len(b) = Len(d) + 1, \A i \in 1 .. Len(d) : d[i] = b[i + 1]
  PROVE  Dropped(q, Len(o) + 1, r)
<1>1. ASSUME NEW j \in 1 .. Len(r) PROVE r[j] = IF j < Len(o) + 1 THEN q[j] ELSE q[j + 1]
  <2>1. CASE j \in 1 .. Len(o)
    BY <2>1 DEF Parts
  <2>2. CASE j - Len(o) \in 1 .. Len(d)
    <3> DEFINE i == j - Len(o)
    <3>1. r[Len(o) + Len(s) + i] = d[i] /\ d[i] = b[i + 1]
      BY <2>2 DEF Parts
    <3>2. q[Len(o) + Len(s) + (i + 1)] = b[i + 1]
      BY <2>2 DEF Parts
    <3> QED
      BY <2>2, <3>1, <3>2 DEF Parts
  <2> QED
    BY <2>1, <2>2 DEF Parts
<1> QED
  BY <1>1 DEF Parts, Dropped

LEMMA HandledLine ==
  ASSUME NEW S, NEW o \in Seq(S), NEW s \in Seq(S), NEW b \in Seq(S), b # <<>>, s = <<>>
  PROVE  /\ Dropped(o \o s \o b, Len(o) + 1, o \o s \o Tail(b)) /\ o \o s \o Tail(b) \in Seq(S)
         /\ (o \o s \o b)[Len(o) + 1] = Head(b)
<1>1. /\ Tail(b) \in Seq(S) /\ Len(b) = Len(Tail(b)) + 1
      /\ \A i \in 1 .. Len(Tail(b)) : Tail(b)[i] = b[i + 1]
      /\ Len(s) = 0 /\ b[1] = Head(b) /\ Len(b) \in Nat
  OBVIOUS
<1>2. Parts(o \o s \o b, o, s, b) /\ Parts(o \o s \o Tail(b), o, s, Tail(b))
  BY <1>1, Joined
<1>3. (o \o s \o b)[Len(o) + Len(s) + 1] = b[1]
  BY <1>1, <1>2 DEF Parts
<1>4. Len(o) + Len(s) + 1 = Len(o) + 1
  BY <1>1, <1>2 DEF Parts
<1>5. o \o s \o Tail(b) \in Seq(S)
  BY <1>1, Joined
<1>6. Dropped(o \o s \o b, Len(o) + 1, o \o s \o Tail(b))
  <2> DEFINE q == o \o s \o b
             d == Tail(b)
             r == o \o s \o d
  <2>1. Parts(q, o, s, b) /\ Parts(r, o, s, d)
    BY <1>2
  <2>2. Len(s) = 0 /\ Len(b) = Len(d) + 1 /\ \A i \in 1 .. Len(d) : d[i] = b[i + 1]
    BY <1>1
  <2> HIDE DEF q, r, d
  <2>3. Dropped(q, Len(o) + 1, r)
    BY <2>1, <2>2, PartsHandled
  <2> QED
    BY <2>3 DEF q, r, d
<1> QED
  BY <1>1, <1>3, <1>4, <1>5, <1>6

\* It is begun with: the line is the same.
LEMMA BegunLine ==
  ASSUME NEW S, NEW o \in Seq(S), NEW s \in Seq(S), NEW b \in Seq(S), b # <<>>, s = <<>>
  PROVE  o \o <<Head(b)>> \o Tail(b) = o \o s \o b
<1>1. b = <<Head(b)>> \o Tail(b)
  OBVIOUS
<1>2. o \o s = o
  OBVIOUS
<1>3. <<Head(b)>> \in Seq(S) /\ Tail(b) \in Seq(S)
  OBVIOUS
<1>4. (o \o <<Head(b)>>) \o Tail(b) = o \o (<<Head(b)>> \o Tail(b))
  BY <1>3, ConcatAssociative
<1> QED
  BY <1>1, <1>2, <1>4

\* What is served is answered.
LEMMA PartsAnswered ==
  ASSUME NEW q, NEW r, NEW o, NEW s, NEW b, NEW e, NEW t, NEW m,
         Parts(q, o, s, b), Parts(r, e, t, b), Len(s) = 1, Len(t) = 0,
         Len(e) = Len(o) + 1, e[Len(o) + 1] = m, \A i \in 1 .. Len(o) : e[i] = o[i]
  PROVE  Answered(q, Len(o) + 1, m, r) /\ q[Len(o) + 1] = s[1]
<1>1. ASSUME NEW j \in 1 .. Len(q), j # Len(o) + 1 PROVE r[j] = q[j]
  <2>1. CASE j \in 1 .. Len(o)
    BY <2>1 DEF Parts
  <2>2. CASE j - Len(o) - 1 \in 1 .. Len(b)
    <3> DEFINE i == j - Len(o) - 1
    <3>1. r[Len(e) + Len(t) + i] = b[i] /\ q[Len(o) + Len(s) + i] = b[i]
      BY <2>2 DEF Parts
    <3> QED
      BY <2>2, <3>1 DEF Parts
  <2> QED
    BY <1>1, <2>1, <2>2 DEF Parts
<1>2. r[Len(o) + 1] = m
  BY DEF Parts
<1> QED
  BY <1>1, <1>2 DEF Parts, Answered

LEMMA AnsweredLine ==
  ASSUME NEW S, NEW o \in Seq(S), NEW s \in Seq(S), NEW b \in Seq(S), NEW m \in S, Len(s) = 1
  PROVE  /\ Answered(o \o s \o b, Len(o) + 1, m, Append(o, m) \o <<>> \o b)
         /\ Append(o, m) \o <<>> \o b \in Seq(S)
         /\ (o \o s \o b)[Len(o) + 1] = s[1]
<1>1. /\ Append(o, m) \in Seq(S) /\ Len(Append(o, m)) = Len(o) + 1 /\ Append(o, m)[Len(o) + 1] = m
      /\ \A i \in 1 .. Len(o) : Append(o, m)[i] = o[i]
      /\ <<>> \in Seq(S) /\ Len(<<>>) = 0
  OBVIOUS
<1>2. Parts(o \o s \o b, o, s, b) /\ Parts(Append(o, m) \o <<>> \o b, Append(o, m), <<>>, b)
  BY <1>1, Joined
<1>3. Append(o, m) \o <<>> \o b \in Seq(S)
  BY <1>1, Joined
<1>4. /\ Answered(o \o s \o b, Len(o) + 1, m, Append(o, m) \o <<>> \o b)
      /\ (o \o s \o b)[Len(o) + 1] = s[1]
  <2> DEFINE q == o \o s \o b
             e == Append(o, m)
             t == <<>>
             r == e \o t \o b
  <2>1. Parts(q, o, s, b) /\ Parts(r, e, t, b)
    BY <1>2
  <2>2. /\ Len(e) = Len(o) + 1 /\ e[Len(o) + 1] = m /\ \A i \in 1 .. Len(o) : e[i] = o[i]
        /\ Len(t) = 0
    BY <1>1
  <2> HIDE DEF q, r, e, t
  <2>3. Answered(q, Len(o) + 1, m, r) /\ q[Len(o) + 1] = s[1]
    BY <2>1, <2>2, PartsAnswered
  <2> QED
    BY <2>3 DEF q, r, e, t
<1> QED
  BY <1>3, <1>4

\* The first answer is heard.
LEMMA PartsHeard ==
  ASSUME NEW q, NEW r, NEW o, NEW s, NEW b, NEW e,
         Parts(q, o, s, b), Parts(r, e, s, b),
         Len(o) = Len(e) + 1, \A i \in 1 .. Len(e) : e[i] = o[i + 1]
  PROVE  Dropped(q, 1, r) /\ q[1] = o[1]
<1>1. ASSUME NEW j \in 1 .. Len(r) PROVE r[j] = q[j + 1]
  <2>1. CASE j \in 1 .. Len(e)
    BY <2>1 DEF Parts
  <2>2. CASE j - Len(e) \in 1 .. Len(s)
    <3> DEFINE i == j - Len(e)
    <3>1. r[Len(e) + i] = s[i] /\ q[Len(o) + i] = s[i]
      BY <2>2 DEF Parts
    <3> QED
      BY <2>2, <3>1 DEF Parts
  <2>3. CASE j - Len(e) - Len(s) \in 1 .. Len(b)
    <3> DEFINE i == j - Len(e) - Len(s)
    <3>1. r[Len(e) + Len(s) + i] = b[i] /\ q[Len(o) + Len(s) + i] = b[i]
      BY <2>3 DEF Parts
    <3> QED
      BY <2>3, <3>1 DEF Parts
  <2> QED
    BY <2>1, <2>2, <2>3 DEF Parts
<1>2. Len(q) = Len(r) + 1 /\ 1 \in 1 .. Len(q) /\ Len(r) \in Nat
  BY DEF Parts
<1>3. \A j \in 1 .. Len(r) : r[j] = IF j < 1 THEN q[j] ELSE q[j + 1]
  BY <1>1, <1>2
<1> QED
  BY <1>2, <1>3 DEF Parts, Dropped

LEMMA HeardLine ==
  ASSUME NEW S, NEW o \in Seq(S), NEW s \in Seq(S), NEW b \in Seq(S), o # <<>>
  PROVE  /\ Dropped(o \o s \o b, 1, Tail(o) \o s \o b) /\ Tail(o) \o s \o b \in Seq(S)
         /\ (o \o s \o b)[1] = Head(o)
<1>1. /\ Tail(o) \in Seq(S) /\ Len(o) = Len(Tail(o)) + 1
      /\ \A i \in 1 .. Len(Tail(o)) : Tail(o)[i] = o[i + 1]
      /\ Head(o) = o[1]
  OBVIOUS
<1>2. Parts(o \o s \o b, o, s, b) /\ Parts(Tail(o) \o s \o b, Tail(o), s, b)
  BY <1>1, Joined
<1>3. Tail(o) \o s \o b \in Seq(S)
  BY <1>1, Joined
<1>4. Dropped(o \o s \o b, 1, Tail(o) \o s \o b) /\ (o \o s \o b)[1] = o[1]
  <2> DEFINE q == o \o s \o b
             e == Tail(o)
             r == e \o s \o b
  <2>1. Parts(q, o, s, b) /\ Parts(r, e, s, b)
    BY <1>2
  <2>2. Len(o) = Len(e) + 1 /\ \A i \in 1 .. Len(e) : e[i] = o[i + 1]
    BY <1>1
  <2> HIDE DEF q, r, e
  <2>3. Dropped(q, 1, r) /\ q[1] = o[1]
    BY <2>1, <2>2, PartsHeard
  <2> QED
    BY <2>3 DEF q, r, e
<1> QED
  BY <1>1, <1>3, <1>4

-----------------------------------------------------------------------------
(* What the pane knows, as the line changes.                                *)

LEMMA MailFacts ==
  ASSUME NEW m \in Mail
  PROVE  /\ m.id \in Ids
         /\ m \in Messages => m.type \in {"list", "mkdir", "delete", "shell-history", "disconnect",
                                         "activity", "input"}
         /\ m \in Answers => m.type \in {"listed", "changed", "shell-history-result", "error"}
         /\ m.type = "list" => m.path \in Folders /\ m.cursor \in Nat
         /\ m.type \in {"mkdir", "delete"} => m.path \in Folders /\ m.name \in Files
         /\ m.type = "listed" => m.names \in Seq(Entries) /\ m.next \in Nat
<1>1. CASE m \in Messages
  BY <1>1 DEF Messages, Answers
<1>2. CASE m \in Answers
  BY <1>2 DEF Messages, Answers
<1> QED
  BY <1>1, <1>2 DEF Mail

LEMMA GrownPlaces ==
  ASSUME NEW q \in Seq(Mail), NEW r \in Seq(Mail), NEW m, Grown(q, m, r)
  PROVE  /\ DOMAIN q = 1 .. Len(q) /\ Len(q) \in Nat
         /\ DOMAIN r = 1 .. Len(q) + 1 /\ r[Len(q) + 1] = m
         /\ \A i \in DOMAIN q : i \in DOMAIN r /\ r[i] = q[i] /\ i < Len(q) + 1
         /\ \A i \in DOMAIN r : i \in DOMAIN q \/ i = Len(q) + 1
BY DEF Grown

LEMMA GrownDistinct ==
  ASSUME NEW q \in Seq(Mail), NEW r \in Seq(Mail), NEW m, Grown(q, m, r),
         Distinct(q), \A i \in DOMAIN q : q[i].id # m.id
  PROVE  Distinct(r)
BY GrownPlaces DEF Distinct

LEMMA GrownLine ==
  ASSUME NEW q \in Seq(Mail), NEW r \in Seq(Mail), NEW m, Grown(q, m, r), NEW p \in Panes, NEW S,
         \A i \in DOMAIN q : q[i].id # m.id, m.id \notin DOMAIN p.requests,
         m.type \notin Lists \cup {"changed", "error"},
         LineOk(q, p), Truthful(q, p, S)
  PROVE  LineOk(r, p) /\ Truthful(r, p, S)
<1>1. /\ \A i \in DOMAIN q : /\ i \in DOMAIN r /\ r[i] = q[i]
                             /\ Asked(r, p, i) <=> Asked(q, p, i)
                             /\ Leads(r, p, i) <=> Leads(q, p, i)
      /\ \A i \in DOMAIN r : i \in DOMAIN q \/ (r[i] = m /\ ~Asked(r, p, i) /\ ~Leads(r, p, i))
  BY GrownPlaces DEF Asked, Leads
<1>2. \A i \in DOMAIN q : Behind(r, p, i) <=> Behind(q, p, i)
  BY <1>1 DEF Behind
<1>3. LineOk(r, p)
  BY <1>1, <1>2, GrownDistinct DEF LineOk
<1>4. Truthful(r, p, S)
  BY <1>1 DEF Truthful
<1> QED
  BY <1>3, <1>4

\* The places of the line after one has been dropped.
Older(k, j) == IF j < k THEN j ELSE j + 1

LEMMA DroppedPlaces ==
  ASSUME NEW q \in Seq(Mail), NEW r \in Seq(Mail), NEW k, Dropped(q, k, r)
  PROVE  /\ k \in DOMAIN q /\ DOMAIN q \subseteq Nat /\ DOMAIN r \subseteq Nat
         /\ \A j \in DOMAIN r : Older(k, j) \in DOMAIN q /\ Older(k, j) # k /\ r[j] = q[Older(k, j)]
         /\ \A i, j \in DOMAIN r : (i =< j) <=> (Older(k, i) =< Older(k, j))
         /\ \A i \in DOMAIN q : i # k => \E j \in DOMAIN r : Older(k, j) = i
<1>1. /\ DOMAIN q = 1 .. Len(q) /\ DOMAIN r = 1 .. Len(r) /\ Len(q) \in Nat /\ Len(r) \in Nat
      /\ k \in 1 .. Len(q) /\ Len(q) = Len(r) + 1
  BY DEF Dropped
<1>2. ASSUME NEW i \in DOMAIN q, i # k PROVE \E j \in DOMAIN r : Older(k, j) = i
  <2>1. CASE i < k
    BY <1>1, <1>2, <2>1 DEF Older
  <2>2. CASE i > k
    <3>1. i - 1 \in DOMAIN r /\ Older(k, i - 1) = i
      BY <1>1, <1>2, <2>2 DEF Older
    <3> QED
      BY <3>1
  <2> QED
    BY <1>1, <1>2, <2>1, <2>2
<1>3. \A j \in DOMAIN r : Older(k, j) \in DOMAIN q /\ Older(k, j) # k
  BY <1>1 DEF Older
<1>4. \A j \in DOMAIN r : r[j] = q[Older(k, j)]
  BY <1>1 DEF Older, Dropped
<1>5. \A i, j \in DOMAIN r : (i =< j) <=> (Older(k, i) =< Older(k, j))
  BY <1>1 DEF Older
<1> QED
  BY <1>1, <1>2, <1>3, <1>4, <1>5

LEMMA DroppedDistinct ==
  ASSUME NEW q \in Seq(Mail), NEW r \in Seq(Mail), NEW k, Dropped(q, k, r), Distinct(q)
  PROVE  Distinct(r) /\ \A j \in DOMAIN r : r[j].id # q[k].id
<1>1. ASSUME NEW i \in DOMAIN r, NEW j \in DOMAIN r, r[i].id = r[j].id PROVE i = j
  <2>1. Older(k, i) = Older(k, j)
    BY <1>1, DroppedPlaces DEF Distinct
  <2> QED
    BY <2>1, DroppedPlaces DEF Older
<1>2. \A j \in DOMAIN r : r[j].id # q[k].id
  BY DroppedPlaces DEF Distinct
<1> QED
  BY <1>1, <1>2 DEF Distinct

LEMMA DroppedLine ==
  ASSUME NEW q \in Seq(Mail), NEW r \in Seq(Mail), NEW k, Dropped(q, k, r), NEW p \in Panes, NEW S,
         ~Asked(q, p, k), q[k].type \notin Lists \cup {"changed"},
         LineOk(q, p), Truthful(q, p, S)
  PROVE  LineOk(r, p) /\ Truthful(r, p, S)
<1>1. \A j \in DOMAIN r : /\ Older(k, j) \in DOMAIN q /\ r[j] = q[Older(k, j)]
                          /\ Asked(r, p, j) <=> Asked(q, p, Older(k, j))
                          /\ Leads(r, p, j) <=> Leads(q, p, Older(k, j))
  BY DroppedPlaces DEF Asked, Leads
<1>2. \A i \in DOMAIN q : i = k \/ \E j \in DOMAIN r : Older(k, j) = i
  BY DroppedPlaces
<1>3. ~Leads(q, p, k)
  BY DEF Leads
<1>4. ASSUME NEW j \in DOMAIN r PROVE Behind(r, p, j) <=> Behind(q, p, Older(k, j))
  <2>1. ASSUME Behind(r, p, j), NEW i \in DOMAIN q, Leads(q, p, i) PROVE i =< Older(k, j)
    <3>1. PICK h \in DOMAIN r : Older(k, h) = i
      BY <1>2, <1>3, <2>1
    <3>2. h =< j
      BY <1>1, <2>1, <3>1 DEF Behind
    <3> QED
      BY <3>1, <3>2, DroppedPlaces
  <2>2. ASSUME Behind(q, p, Older(k, j)), NEW h \in DOMAIN r, Leads(r, p, h) PROVE h =< j
    <3>1. Older(k, h) =< Older(k, j)
      BY <1>1, <2>2 DEF Behind
    <3> QED
      BY <3>1, DroppedPlaces
  <2> QED
    BY <2>1, <2>2 DEF Behind
<1>5. LineOk(r, p)
  <2>1. ASSUME NEW id \in DOMAIN p.requests
        PROVE  \E j \in DOMAIN r : r[j].id = id /\ r[j].type \in Lists \cup {"error"}
    <3>1. PICK i \in DOMAIN q : q[i].id = id /\ q[i].type \in Lists \cup {"error"}
      BY DEF LineOk
    <3>2. i # k
      BY <3>1 DEF Asked
    <3> QED
      BY <1>1, <1>2, <3>1, <3>2
  <2>2. p.open => \A j \in DOMAIN r :
          /\ Asked(r, p, j) => Behind(r, p, j)
          /\ r[j].type \in Lists /\ Behind(r, p, j) => Asked(r, p, j)
          /\ r[j].type = "list" /\ Asked(r, p, j) =>
               r[j].path = p.path /\ (Leads(r, p, j) => r[j].cursor = 0)
    BY <1>1, <1>4 DEF LineOk
  <2> QED
    BY <2>1, <2>2, DroppedDistinct DEF LineOk
<1>6. Truthful(r, p, S)
  <2> SUFFICES ASSUME p.open, ~p.failed, \A j \in DOMAIN r : r[j].type # "changed"
               PROVE  Truthful(r, p, S)
    BY DEF Truthful
  <2>1. \A i \in DOMAIN q : q[i].type # "changed"
    BY <1>1, <1>2
  <2>2. ASSUME \A j \in DOMAIN r : ~Leads(r, p, j) PROVE \A i \in DOMAIN q : ~Leads(q, p, i)
    BY <1>1, <1>2, <1>3, <2>2
  <2>3. ASSUME NEW i \in DOMAIN q, Asked(q, p, i) /\ q[i].type = "error"
        PROVE  \E j \in DOMAIN r : Asked(r, p, j) /\ r[j].type = "error"
    BY <1>1, <1>2, <2>3
  <2>4. ASSUME NEW x, NEW i \in DOMAIN q, q[i].type \in Lists /\ x \in Brings(q[i], S)
        PROVE  \E j \in DOMAIN r : r[j].type \in Lists /\ x \in Brings(r[j], S)
    BY <1>1, <1>2, <2>4
  <2>5. /\ \A j \in DOMAIN r : Asked(r, p, j) /\ r[j].type = "listed" => ToSet(r[j].names) \subseteq S
        /\ \A j \in DOMAIN r : Leads(r, p, j) /\ r[j].type = "listed" => S \subseteq Brings(r[j], S)
    BY <1>1, <2>1 DEF Truthful
  <2>6. ASSUME \A j \in DOMAIN r : ~Leads(r, p, j)
        PROVE  /\ ToSet(p.shown) \subseteq S
               /\ \/ \E i \in DOMAIN r : Asked(r, p, i) /\ r[i].type = "error"
                  \/ \A x \in S : \/ x \in ToSet(p.shown)
                                  \/ \E i \in DOMAIN r : r[i].type \in Lists /\ x \in Brings(r[i], S)
    <3>1. /\ ToSet(p.shown) \subseteq S
          /\ \/ \E i \in DOMAIN q : Asked(q, p, i) /\ q[i].type = "error"
             \/ \A x \in S : \/ x \in ToSet(p.shown)
                             \/ \E i \in DOMAIN q : q[i].type \in Lists /\ x \in Brings(q[i], S)
      BY <2>1, <2>2, <2>6 DEF Truthful
    <3> QED
      BY <3>1, <2>3, <2>4
  <2> QED
    BY <2>5, <2>6 DEF Truthful
<1> QED
  BY <1>5, <1>6

-----------------------------------------------------------------------------
(* Directories and their pages.                                            *)

LEMMA SortedFacts ==
  ASSUME NEW S, S \subseteq Nat, IsFiniteSet(S)
  PROVE  Sorted(S) \in Seq(S) /\ ToSet(Sorted(S)) = S
<1> DEFINE n == Cardinality(S)
           Low(x) == {y \in S : y =< x}
           Ascending(s) == \A i, j \in DOMAIN s : i < j => s[i] < s[j]
<1>1. n \in Nat /\ IsFiniteSet(1 .. n) /\ Cardinality(1 .. n) = n
  BY FS_CardinalityType, FS_Interval
<1>2. ASSUME NEW x \in S PROVE IsFiniteSet(Low(x)) /\ Cardinality(Low(x)) \in 1 .. n
  <2>1. Low(x) \in SUBSET S /\ Low(x) # {}
    OBVIOUS
  <2>2. IsFiniteSet(Low(x)) /\ Cardinality(Low(x)) =< n
    BY <2>1, FS_Subset
  <2>3. Cardinality(Low(x)) \in Nat /\ Cardinality(Low(x)) # 0
    BY <2>1, <2>2, FS_CardinalityType, FS_EmptySet
  <2> QED
    BY <2>2, <2>3, <1>1
<1>3. ASSUME NEW x \in S, NEW z \in S, x < z PROVE Cardinality(Low(x)) < Cardinality(Low(z))
  <2>1. Low(x) \in SUBSET Low(z) /\ Low(x) # Low(z)
    <3>1. z \in Low(z) /\ z \notin Low(x)
      BY <1>3
    <3>2. ASSUME NEW y \in S, y =< x PROVE y =< z
      <4>1. x \in Nat /\ y \in Nat /\ z \in Nat
        OBVIOUS
      <4> QED
        BY <4>1, <3>2, <1>3
    <3> QED
      BY <3>1, <3>2
  <2>2. /\ Cardinality(Low(x)) =< Cardinality(Low(z))
        /\ Cardinality(Low(x)) # Cardinality(Low(z))
    BY <2>1, <1>2, FS_Subset
  <2> QED
    BY <2>2, <1>2
<1>4. \E s \in [1 .. n -> S] : Ascending(s)
  <2> DEFINE rank == [x \in S |-> Cardinality(Low(x))]
  <2>1. rank \in Injection(S, 1 .. n)
    <3>1. rank \in [S -> 1 .. n]
      BY <1>2
    <3>2. ASSUME NEW x \in S, NEW z \in S, rank[x] = rank[z] PROVE x = z
      <4>1. ~(x < z) /\ ~(z < x)
        BY <1>2, <1>3, <3>2
      <4> QED
        BY <4>1
    <3> HIDE DEF rank
    <3> QED
      BY <3>1, <3>2 DEF Injection, IsInjective
  <2>2. rank \in Surjection(S, 1 .. n)
    <3> HIDE DEF rank
    <3> QED
      BY <2>1, <1>1, FS_Injection
  <2>3. \A i \in 1 .. n : \E x \in S : rank[x] = i
    <3> HIDE DEF rank
    <3> QED
      BY <2>2 DEF Surjection
  <2> DEFINE s == [i \in 1 .. n |-> CHOOSE x \in S : rank[x] = i]
  <2>4. \A i \in 1 .. n : s[i] \in S /\ rank[s[i]] = i
    <3> HIDE DEF rank
    <3> QED
      BY <2>3
  <2>5. ASSUME NEW x \in S, NEW z \in S, rank[x] < rank[z] PROVE x < z
    <3>1. x \in Nat /\ z \in Nat /\ rank[x] = Cardinality(Low(x)) /\ rank[z] = Cardinality(Low(z))
      OBVIOUS
    <3>2. x # z /\ ~(z < x)
      <4> HIDE DEF rank
      <4>1. z < x => Cardinality(Low(z)) < Cardinality(Low(x))
        BY <1>3
      <4>2. Cardinality(Low(x)) \in Nat /\ Cardinality(Low(z)) \in Nat
        BY <1>2, FS_CardinalityType
      <4>3. Cardinality(Low(x)) < Cardinality(Low(z))
        BY <2>5, <3>1
      <4> HIDE DEF Low
      <4> QED
        BY <4>1, <4>2, <4>3
    <3> QED
      BY <3>1, <3>2
  <2>6. \A i, j \in 1 .. n : i < j => s[i] < s[j]
    <3> HIDE DEF rank, s
    <3> QED
      BY <2>4, <2>5
  <2>7. s \in [1 .. n -> S]
    BY <2>4
  <2> QED
    BY <2>6, <2>7
<1>5. Sorted(S) \in [1 .. n -> S] /\ Ascending(Sorted(S))
  BY <1>4 DEF Sorted
<1>6. Sorted(S) \in Injection(1 .. n, S)
  <2>1. ASSUME NEW i \in 1 .. n, NEW j \in 1 .. n, Sorted(S)[i] = Sorted(S)[j] PROVE i = j
    <3>1. Sorted(S)[i] \in Nat
      BY <1>5
    <3>2. i \in DOMAIN Sorted(S) /\ j \in DOMAIN Sorted(S)
      BY <1>5
    <3>3. ~(i < j) /\ ~(j < i)
      BY <1>5, <2>1, <3>1, <3>2
    <3> QED
      BY <3>3, <1>1
  <2> QED
    BY <1>5, <2>1 DEF Injection, IsInjective
<1>7. Sorted(S) \in Surjection(1 .. n, S)
  BY <1>1, <1>6, FS_Injection
<1>8. Sorted(S) \in Seq(S) /\ DOMAIN Sorted(S) = 1 .. n
  BY <1>1, <1>5
<1>9. ToSet(Sorted(S)) = S
  <2> DEFINE s == Sorted(S)
  <2>1. /\ DOMAIN s = 1 .. n /\ \A i \in 1 .. n : s[i] \in S
        /\ \A x \in S : \E i \in 1 .. n : s[i] = x
    BY <1>5, <1>7, <1>8 DEF Surjection
  <2> HIDE DEF s
  <2>2. ToSet(s) = S
    BY <2>1 DEF ToSet
  <2> QED
    BY <2>2 DEF s
<1> QED
  BY <1>8, <1>9

\* A page brings what comes after the cursor, or asks for it.
LEMMA PageBrings ==
  ASSUME NEW S, S \subseteq Entries, NEW m \in Mail, m.type = "list", dirs[m.path] = S,
         NEW a, a = Listing(m)
  PROVE  /\ a \in Answers /\ a.id = m.id /\ a.type \in {"listed", "error"}
         /\ a.type = "listed" => ToSet(a.names) \subseteq S /\ Brings(m, S) \subseteq Brings(a, S)
<1> DEFINE all == Sorted(S)
           N == Len(all)
           c == m.cursor
           end == Min({c + PageLimit, N})
           page == SubSeq(all, c + 1, end)
           next == IF end < N THEN end ELSE 0
<1>1. Entries \subseteq Nat /\ IsFiniteSet(Entries) /\ PageLimit \in Nat /\ PageLimit > 0
  BY LiveSessionAssumption DEF Entries
<1>2. S \subseteq Nat /\ IsFiniteSet(S)
  BY <1>1, FS_Subset
<1>3. all \in Seq(S) /\ ToSet(all) = S
  BY <1>2, SortedFacts
<1>4. N \in Nat /\ c \in Nat /\ m.id \in Ids
  BY <1>3, MailFacts
<1>5. CASE c > N
  <2>1. a = [type |-> "error", id |-> m.id]
    BY <1>5 DEF Listing, ErrorTo
  <2> QED
    BY <2>1, <1>4 DEF Answers
<1>6. CASE ~(c > N)
  <2>1. a = [type |-> "listed", id |-> m.id, names |-> page, next |-> next]
    BY <1>6 DEF Listing
  <2>2. end \in {c + PageLimit, N} /\ end =< c + PageLimit /\ end =< N
    <3> DEFINE T == {c + PageLimit, N}
    <3>1. \E x \in T : \A y \in T : x =< y
      BY <1>1, <1>4
    <3> HIDE DEF T
    <3>2. Min(T) \in T /\ \A y \in T : Min(T) =< y
      BY <3>1 DEF Min
    <3> QED
      BY <3>2 DEF T
  <2> HIDE DEF all, end
  <2>3. end \in Nat /\ c =< end
    BY <2>2, <1>1, <1>4, <1>6
  <2>4. page \in Seq(S) /\ Len(page) = end - c /\ \A i \in 1 .. end - c : page[i] = all[c + i]
    BY <1>3, <1>4, <2>2, <2>3
  <2>5. next \in Nat /\ (next > 0 => next = end)
    BY <2>3
  <2>6. ToSet(page) \subseteq S
    BY <2>4 DEF ToSet
  <2>7. a \in Answers
    <3>1. page \in Seq(Entries)
      BY <2>4
    <3> QED
      BY <2>1, <2>5, <3>1, <1>4 DEF Answers
  <2>8. ASSUME NEW j \in c + 1 .. N
        PROVE  all[j] \in ToSet(page) \/ (next > 0 /\ \E k \in next + 1 .. N : all[k] = all[j])
    <3>1. CASE j =< end
      <4>1. j - c \in 1 .. end - c /\ c + (j - c) = j
        BY <3>1, <1>4, <2>3
      <4>2. page[j - c] = all[j] /\ j - c \in DOMAIN page
        BY <4>1, <2>4
      <4> QED
        BY <4>2 DEF ToSet
    <3>2. CASE j > end
      <4>1. end < N /\ end > 0 /\ next = end
        BY <3>2, <1>1, <1>4, <2>2, <2>3
      <4>2. j \in next + 1 .. N
        BY <4>1, <3>2, <1>4, <2>3
      <4> QED
        BY <4>1, <4>2
    <3> QED
      BY <3>1, <3>2, <1>4, <2>3
  <2> HIDE DEF page, next, N, c
  <2>9. Brings(m, S) \subseteq Brings(a, S)
    <3>1. Brings(m, S) = {all[j] : j \in c + 1 .. N}
      BY DEF Brings, Rest, c, N, all
    <3>2. Brings(a, S) = ToSet(page) \cup (IF next > 0 THEN {all[k] : k \in next + 1 .. N} ELSE {})
      BY <2>1 DEF Brings, Rest, N, all
    <3> QED
      BY <3>1, <3>2, <2>8
  <2> QED
    BY <2>1, <2>6, <2>7, <2>9
<1> QED
  BY <1>5, <1>6

\* A list read from the start brings the whole directory.
LEMMA WholeList ==
  ASSUME NEW S, S \subseteq Entries
  PROVE  Rest(S, 0) = S
<1>1. S \subseteq Nat /\ IsFiniteSet(S)
  BY LiveSessionAssumption, FS_Subset DEF Entries
<1>2. Sorted(S) \in Seq(S) /\ ToSet(Sorted(S)) = S
  BY <1>1, SortedFacts
<1> QED
  BY <1>2 DEF Rest, ToSet

-----------------------------------------------------------------------------
(* A request is answered, a directory asked for anew, an answer heard.       *)

LEMMA AnsweredPlaces ==
  ASSUME NEW q \in Seq(Mail), NEW r \in Seq(Mail), NEW k, NEW a, Answered(q, k, a, r)
  PROVE  /\ k \in DOMAIN q /\ DOMAIN r = DOMAIN q /\ r[k] = a
         /\ \A j \in DOMAIN q : j # k => r[j] = q[j]
BY DEF Answered

\* T is the directory of the pane afterwards.
LEMMA AnsweredKnown ==
  ASSUME NEW q \in Seq(Mail), NEW r \in Seq(Mail), NEW k, NEW a \in Answers, Answered(q, k, a, r),
         NEW p \in Panes, NEW S, S \subseteq Entries, NEW T,
         q[k] \in Messages, a.id = q[k].id,
         q[k].type = "list" <=> a.type = "listed" \/ (a.type = "error" /\ q[k].type = "list"),
         a.type = "listed" /\ q[k].path = p.path =>
           ToSet(a.names) \subseteq S /\ Brings(q[k], S) \subseteq Brings(a, S),
         a.type = "changed" \/ T = S,
         LineOk(q, p), Truthful(q, p, S)
  PROVE  LineOk(r, p) /\ Truthful(r, p, T)
<1> DEFINE m == q[k]
<1>1. /\ k \in DOMAIN q /\ DOMAIN r = DOMAIN q /\ r[k] = a
      /\ \A j \in DOMAIN q : j # k => r[j] = q[j]
  BY AnsweredPlaces
<1>2. /\ m \in Mail /\ a \in Mail
      /\ m.type \notin {"listed", "changed", "error"}
      /\ a.type # "list"
  <2>1. m \in Mail /\ a \in Mail
    BY DEF Mail
  <2> QED
    BY <2>1, MailFacts
<1>3. \A j \in DOMAIN q : /\ r[j].id = q[j].id
                          /\ Asked(r, p, j) <=> Asked(q, p, j)
                          /\ Leads(r, p, j) <=> Leads(q, p, j)
  BY <1>1 DEF Asked, Leads
<1>4. \A j \in DOMAIN q : Behind(r, p, j) <=> Behind(q, p, j)
  BY <1>1, <1>3 DEF Behind
<1>5. Asked(q, p, k) => m.type = "list"
  <2> SUFFICES ASSUME Asked(q, p, k) PROVE m.type = "list"
    OBVIOUS
  <2>1. PICK i \in DOMAIN q : q[i].id = m.id /\ q[i].type \in Lists \cup {"error"}
    BY DEF Asked, LineOk
  <2>2. i = k
    BY <1>1, <2>1 DEF LineOk, Distinct
  <2> QED
    BY <1>2, <2>1, <2>2 DEF Lists
<1>6. LineOk(r, p)
  <2>1. Distinct(r)
    BY <1>1, <1>3 DEF LineOk, Distinct
  <2>2. ASSUME NEW id \in DOMAIN p.requests
        PROVE  \E i \in DOMAIN r : r[i].id = id /\ r[i].type \in Lists \cup {"error"}
    <3>1. PICK i \in DOMAIN q : q[i].id = id /\ q[i].type \in Lists \cup {"error"}
      BY DEF LineOk
    <3>2. CASE i = k
      <4>1. m.type = "list"
        BY <1>2, <3>1, <3>2 DEF Lists
      <4>2. a.type \in {"listed", "error"}
        BY <4>1
      <4> QED
        BY <1>1, <1>3, <3>1, <3>2, <4>2 DEF Lists
    <3>3. CASE i # k
      BY <1>1, <3>1, <3>3
    <3> QED
      BY <3>2, <3>3
  <2>3. p.open => \A j \in DOMAIN r :
          /\ Asked(r, p, j) => Behind(r, p, j)
          /\ r[j].type \in Lists /\ Behind(r, p, j) => Asked(r, p, j)
          /\ r[j].type = "list" /\ Asked(r, p, j) =>
               r[j].path = p.path /\ (Leads(r, p, j) => r[j].cursor = 0)
    <3> SUFFICES ASSUME p.open, NEW j \in DOMAIN q
                 PROVE  /\ Asked(r, p, j) => Behind(r, p, j)
                        /\ r[j].type \in Lists /\ Behind(r, p, j) => Asked(r, p, j)
                        /\ r[j].type = "list" /\ Asked(r, p, j) =>
                             r[j].path = p.path /\ (Leads(r, p, j) => r[j].cursor = 0)
      BY <1>1
    <3>1. /\ Asked(q, p, j) => Behind(q, p, j)
          /\ q[j].type \in Lists /\ Behind(q, p, j) => Asked(q, p, j)
          /\ q[j].type = "list" /\ Asked(q, p, j) =>
               q[j].path = p.path /\ (Leads(q, p, j) => q[j].cursor = 0)
      BY DEF LineOk
    <3>2. CASE j = k
      <4>1. a.type \in Lists => m.type \in Lists
        BY <1>2 DEF Lists
      <4> QED
        BY <1>1, <1>2, <1>3, <1>4, <3>1, <3>2, <4>1
    <3>3. CASE j # k
      BY <1>1, <1>3, <1>4, <3>1, <3>3
    <3> QED
      BY <3>2, <3>3
  <2> QED
    BY <2>1, <2>2, <2>3 DEF LineOk
<1>7. Truthful(r, p, T)
  <2> SUFFICES ASSUME p.open, ~p.failed, \A j \in DOMAIN r : r[j].type # "changed"
               PROVE  Truthful(r, p, T)
    BY DEF Truthful
  <2>1. T = S /\ \A j \in DOMAIN q : q[j].type # "changed"
    BY <1>1, <1>2
  <2>2. Asked(q, p, k) => m.path = p.path /\ (Leads(q, p, k) => m.cursor = 0)
    BY <1>1, <1>5 DEF LineOk
  <2>3. /\ \A j \in DOMAIN q : Asked(q, p, j) /\ q[j].type = "listed" => ToSet(q[j].names) \subseteq S
        /\ \A j \in DOMAIN q : Leads(q, p, j) /\ q[j].type = "listed" => S \subseteq Brings(q[j], S)
        /\ (\A j \in DOMAIN q : ~Leads(q, p, j)) =>
             /\ ToSet(p.shown) \subseteq S
             /\ \/ \E i \in DOMAIN q : Asked(q, p, i) /\ q[i].type = "error"
                \/ \A x \in S : \/ x \in ToSet(p.shown)
                                \/ \E i \in DOMAIN q : q[i].type \in Lists /\ x \in Brings(q[i], S)
    BY <2>1 DEF Truthful
  <2>4. \A j \in DOMAIN r : Asked(r, p, j) /\ r[j].type = "listed" => ToSet(r[j].names) \subseteq S
    BY <1>1, <1>3, <2>2, <2>3
  <2>5. ASSUME NEW j \in DOMAIN r, Leads(r, p, j), r[j].type = "listed" PROVE S \subseteq Brings(r[j], S)
    <3>1. CASE j = k
      <4>1. Leads(q, p, k) /\ Asked(q, p, k)
        BY <1>1, <1>3, <2>5, <3>1 DEF Leads
      <4>2. m.path = p.path /\ m.cursor = 0 /\ m.type = "list"
        BY <2>2, <1>5, <4>1
      <4>3. Brings(m, S) = S
        BY <4>2, WholeList DEF Brings
      <4> QED
        BY <1>1, <2>5, <3>1, <4>2, <4>3
    <3>2. CASE j # k
      BY <1>1, <1>3, <2>3, <2>5, <3>2
    <3> QED
      BY <3>1, <3>2
  <2>6. ASSUME \A j \in DOMAIN r : ~Leads(r, p, j)
        PROVE  /\ ToSet(p.shown) \subseteq S
               /\ \/ \E i \in DOMAIN r : Asked(r, p, i) /\ r[i].type = "error"
                  \/ \A x \in S : \/ x \in ToSet(p.shown)
                                  \/ \E i \in DOMAIN r : r[i].type \in Lists /\ x \in Brings(r[i], S)
    <3>1. \A j \in DOMAIN q : ~Leads(q, p, j)
      BY <1>1, <1>3, <2>6
    <3>2. Behind(q, p, k)
      BY <3>1 DEF Behind
    <3>3. m.type = "list" => Asked(q, p, k)
      BY <1>1, <3>2 DEF LineOk, Lists
    <3>4. ASSUME NEW i \in DOMAIN q, Asked(q, p, i), q[i].type = "error"
          PROVE  Asked(r, p, i) /\ r[i].type = "error"
      BY <1>1, <1>2, <1>3, <3>4
    <3>5. CASE m.type = "list" /\ a.type = "error"
      BY <1>1, <1>3, <2>3, <3>1, <3>3, <3>5
    <3>6. CASE m.type = "list" /\ a.type = "listed"
      <4>1. ASSUME NEW x, NEW i \in DOMAIN q, q[i].type \in Lists, x \in Brings(q[i], S)
            PROVE  r[i].type \in Lists /\ x \in Brings(r[i], S)
        BY <1>1, <2>2, <3>3, <3>6, <4>1 DEF Lists
      <4> QED
        BY <1>1, <2>3, <3>1, <3>4, <4>1
    <3>7. CASE m.type # "list"
      <4>1. ASSUME NEW x, NEW i \in DOMAIN q, q[i].type \in Lists, x \in Brings(q[i], S)
            PROVE  r[i].type \in Lists /\ x \in Brings(r[i], S)
        BY <1>1, <1>2, <3>7, <4>1 DEF Lists
      <4> QED
        BY <1>1, <2>3, <3>1, <3>4, <4>1
    <3> QED
      BY <3>5, <3>6, <3>7
  <2> QED
    BY <2>1, <2>4, <2>5, <2>6 DEF Truthful
<1> QED
  BY <1>6, <1>7

\* A directory is asked for: nothing asked before is waited for any more.
LEMMA RefreshedKnown ==
  ASSUME NEW q \in Seq(Mail), NEW r \in Seq(Mail), NEW m, Grown(q, m, r), Distinct(q),
         NEW p \in Panes, NEW S, m.type = "list", m.path = p.path, m.cursor = 0,
         p.requests = With(<<>>, m.id, FALSE), \A i \in DOMAIN q : q[i].id # m.id
  PROVE  LineOk(r, p) /\ Truthful(r, p, S)
<1>1. DOMAIN p.requests = {m.id} /\ p.requests[m.id] = FALSE
  BY DEF With
<1>2. /\ \A i \in DOMAIN r : Asked(r, p, i) <=> i = Len(q) + 1
      /\ \A i \in DOMAIN r : Leads(r, p, i) <=> i = Len(q) + 1
      /\ Len(q) + 1 \in DOMAIN r /\ r[Len(q) + 1] = m
      /\ \A i \in DOMAIN r : i =< Len(q) + 1
  <2>1. /\ Len(q) \in Nat /\ DOMAIN r = 1 .. Len(q) + 1 /\ r[Len(q) + 1] = m
        /\ \A i \in DOMAIN q : r[i] = q[i]
        /\ \A i \in DOMAIN r : i \in DOMAIN q \/ i = Len(q) + 1
        /\ \A i \in DOMAIN q : i < Len(q) + 1
    BY GrownPlaces
  <2>2. \A i \in DOMAIN r : (r[i].id = m.id) <=> i = Len(q) + 1
    BY <2>1
  <2>3. Len(q) + 1 \in DOMAIN r /\ \A i \in DOMAIN r : i =< Len(q) + 1
    BY <2>1
  <2>4. ASSUME NEW i \in DOMAIN r PROVE (Asked(r, p, i) <=> i = Len(q) + 1) /\ (Leads(r, p, i) <=> i = Len(q) + 1)
    <3>1. Asked(r, p, i) <=> r[i].id = m.id
      BY <1>1 DEF Asked
    <3>2. r[i].id = m.id => ~p.requests[r[i].id]
      BY <1>1
    <3> QED
      BY <2>2, <3>1, <3>2 DEF Leads
  <2> QED
    BY <2>1, <2>3, <2>4
<1>3. \A i \in DOMAIN r : Behind(r, p, i) <=> i = Len(q) + 1
  <2>1. DOMAIN r \subseteq Nat /\ Len(q) + 1 \in Nat
    BY GrownPlaces
  <2> QED
    BY <1>2, <2>1 DEF Behind
<1>4. Distinct(r)
  BY GrownDistinct
<1>5. LineOk(r, p)
  BY <1>1, <1>2, <1>3, <1>4 DEF LineOk, Lists
<1>6. Truthful(r, p, S)
  BY <1>2 DEF Truthful
<1> QED
  BY <1>5, <1>6

LEMMA ToSetConcat ==
  ASSUME NEW s \in Seq(Entries), NEW u \in Seq(Entries)
  PROVE  ToSet(s \o u) = ToSet(s) \cup ToSet(u)
<1>1. /\ Len(s \o u) = Len(s) + Len(u) /\ Len(s) \in Nat /\ Len(u) \in Nat
      /\ \A i \in 1 .. Len(s) : (s \o u)[i] = s[i]
      /\ \A i \in 1 .. Len(u) : (s \o u)[Len(s) + i] = u[i]
      /\ DOMAIN (s \o u) = 1 .. Len(s \o u) /\ DOMAIN s = 1 .. Len(s) /\ DOMAIN u = 1 .. Len(u)
  OBVIOUS
<1>2. ASSUME NEW i \in DOMAIN (s \o u) PROVE (s \o u)[i] \in ToSet(s) \cup ToSet(u)
  <2>1. CASE i \in 1 .. Len(s)
    BY <1>1, <2>1 DEF ToSet
  <2>2. CASE i - Len(s) \in 1 .. Len(u)
    <3>1. (s \o u)[Len(s) + (i - Len(s))] = u[i - Len(s)] /\ Len(s) + (i - Len(s)) = i
      BY <1>1, <2>2
    <3> QED
      BY <1>1, <2>2, <3>1 DEF ToSet
  <2> QED
    BY <1>1, <2>1, <2>2
<1>3. \A i \in DOMAIN s : i \in DOMAIN (s \o u)
  BY <1>1
<1>4. \A i \in DOMAIN u : Len(s) + i \in DOMAIN (s \o u)
  BY <1>1
<1> HIDE DEF ToSet
<1>5. ToSet(s) \subseteq ToSet(s \o u) /\ ToSet(u) \subseteq ToSet(s \o u)
  BY <1>1, <1>3, <1>4 DEF ToSet
<1>6. ToSet(s \o u) \subseteq ToSet(s) \cup ToSet(u)
  <2> DEFINE z == s \o u
             R == ToSet(s) \cup ToSet(u)
  <2>1. \A i \in DOMAIN z : z[i] \in R
    BY <1>2
  <2> HIDE DEF z, R
  <2>2. ToSet(z) \subseteq R
    BY <2>1 DEF ToSet
  <2> QED
    BY <2>2 DEF z, R
<1> QED
  BY <1>5, <1>6

\* The first of the line is heard, and no more waited for.
LEMMA HeardKnown ==
  ASSUME NEW q \in Seq(Mail), NEW t \in Seq(Mail), Dropped(q, 1, t),
         NEW p \in Panes, NEW w \in Panes, w.requests = Except(p.requests, q[1].id),
         w.open = p.open, w.path = p.path, LineOk(q, p)
  PROVE  /\ LineOk(t, w)
         /\ \A j \in DOMAIN t : /\ j + 1 \in DOMAIN q /\ t[j] = q[j + 1]
                                /\ Asked(t, w, j) <=> Asked(q, p, j + 1)
                                /\ Leads(t, w, j) <=> Leads(q, p, j + 1)
         /\ \A i \in DOMAIN q : i = 1 \/ \E j \in DOMAIN t : j + 1 = i
<1>1. /\ 1 \in DOMAIN q /\ DOMAIN q \subseteq Nat /\ DOMAIN t = 1 .. Len(t) /\ Len(t) \in Nat
      /\ \A j \in DOMAIN t : j + 1 \in DOMAIN q /\ t[j] = q[j + 1]
      /\ \A i \in DOMAIN q : i = 1 \/ i - 1 \in DOMAIN t
  BY DEF Dropped
<1>2. /\ DOMAIN w.requests = DOMAIN p.requests \ {q[1].id}
      /\ \A id \in DOMAIN w.requests : w.requests[id] = p.requests[id]
  BY DEF Except
<1>3. \A j \in DOMAIN t : t[j].id # q[1].id
  BY DroppedDistinct DEF LineOk
<1>4. \A j \in DOMAIN t : /\ Asked(t, w, j) <=> Asked(q, p, j + 1)
                          /\ Leads(t, w, j) <=> Leads(q, p, j + 1)
  BY <1>1, <1>2, <1>3 DEF Asked, Leads
<1>5. \A i \in DOMAIN q : i = 1 \/ \E j \in DOMAIN t : j + 1 = i
  <2>1. ASSUME NEW i \in DOMAIN q, i # 1 PROVE \E j \in DOMAIN t : j + 1 = i
    <3>1. i - 1 \in DOMAIN t /\ (i - 1) + 1 = i
      BY <1>1, <2>1
    <3> QED
      BY <3>1
  <2> QED
    BY <2>1
<1>6. ASSUME NEW j \in DOMAIN t PROVE Behind(t, w, j) <=> Behind(q, p, j + 1)
  <2>1. ASSUME Behind(t, w, j), NEW i \in DOMAIN q, Leads(q, p, i) PROVE i =< j + 1
    <3>1. CASE i = 1
      BY <1>1, <3>1
    <3>2. CASE i # 1
      <4>1. PICK h \in DOMAIN t : h + 1 = i
        BY <1>5, <3>2
      <4>2. h =< j
        BY <1>4, <2>1, <4>1 DEF Behind
      <4> QED
        BY <1>1, <4>1, <4>2
    <3> QED
      BY <3>1, <3>2
  <2>2. ASSUME Behind(q, p, j + 1), NEW h \in DOMAIN t, Leads(t, w, h) PROVE h =< j
    <3>1. h + 1 =< j + 1
      BY <1>1, <1>4, <2>2 DEF Behind
    <3> QED
      BY <1>1, <3>1
  <2> QED
    BY <2>1, <2>2 DEF Behind
<1>7. ASSUME NEW id \in DOMAIN w.requests
      PROVE  \E j \in DOMAIN t : t[j].id = id /\ t[j].type \in Lists \cup {"error"}
  <2>1. PICK i \in DOMAIN q : q[i].id = id /\ q[i].type \in Lists \cup {"error"}
    BY <1>2 DEF LineOk
  <2>2. PICK j \in DOMAIN t : j + 1 = i
    BY <1>2, <1>5, <2>1
  <2> QED
    BY <1>1, <2>1, <2>2
<1>8. w.open => \A j \in DOMAIN t :
        /\ Asked(t, w, j) => Behind(t, w, j)
        /\ t[j].type \in Lists /\ Behind(t, w, j) => Asked(t, w, j)
        /\ t[j].type = "list" /\ Asked(t, w, j) =>
             t[j].path = w.path /\ (Leads(t, w, j) => t[j].cursor = 0)
  BY <1>1, <1>4, <1>6 DEF LineOk
<1>9. LineOk(t, w)
  BY <1>7, <1>8, DroppedDistinct DEF LineOk
<1> QED
  BY <1>1, <1>4, <1>5, <1>9

\* As Truthful, when E is still to be asked for.
Nearly(q, p, S, E) ==
  p.open /\ ~p.failed /\ (\A i \in DOMAIN q : q[i].type # "changed") =>
    /\ \A i \in DOMAIN q : Asked(q, p, i) /\ q[i].type = "listed" => ToSet(q[i].names) \subseteq S
    /\ \A i \in DOMAIN q : Leads(q, p, i) /\ q[i].type = "listed" => S \subseteq Brings(q[i], S)
    /\ (\A i \in DOMAIN q : ~Leads(q, p, i)) =>
         /\ ToSet(p.shown) \subseteq S
         /\ \/ \E i \in DOMAIN q : Asked(q, p, i) /\ q[i].type = "error"
            \/ \A x \in S : \/ x \in ToSet(p.shown) \cup E
                            \/ \E i \in DOMAIN q : q[i].type \in Lists /\ x \in Brings(q[i], S)

\* A page is heard: what it leaves out comes with the next.
LEMMA HeardPage ==
  ASSUME NEW q \in Seq(Mail), NEW t \in Seq(Mail), Dropped(q, 1, t), q[1].type = "listed",
         NEW p \in Panes, NEW w \in Panes, w.requests = Except(p.requests, q[1].id), p.open,
         w.open = p.open, w.path = p.path, w.failed = p.failed,
         w.shown = IF q[1].id \in DOMAIN p.requests /\ p.requests[q[1].id]
                     THEN p.shown \o q[1].names ELSE q[1].names,
         NEW S, LineOk(q, p), Truthful(q, p, S)
  PROVE  Nearly(t, w, S, IF q[1].next > 0 THEN Rest(S, q[1].next) ELSE {})
<1> DEFINE m == q[1]
           E == IF m.next > 0 THEN Rest(S, m.next) ELSE {}
<1>1. /\ 1 \in DOMAIN q /\ DOMAIN q \subseteq Nat /\ m \in Mail
      /\ \A j \in DOMAIN t : /\ j + 1 \in DOMAIN q /\ t[j] = q[j + 1]
                             /\ Asked(t, w, j) <=> Asked(q, p, j + 1)
                             /\ Leads(t, w, j) <=> Leads(q, p, j + 1)
      /\ \A i \in DOMAIN q : i = 1 \/ \E j \in DOMAIN t : j + 1 = i
  <2>1. 1 \in DOMAIN q /\ DOMAIN q \subseteq Nat
    BY DroppedPlaces
  <2>2. m \in Mail
    BY <2>1
  <2> HIDE DEF m, E
  <2> QED
    BY <2>1, <2>2, HeardKnown
<1> SUFFICES ASSUME w.open, ~w.failed, \A j \in DOMAIN t : t[j].type # "changed"
             PROVE  Nearly(t, w, S, E)
  BY DEF Nearly
<1>2. /\ \A i \in DOMAIN q : Asked(q, p, i) /\ q[i].type = "listed" => ToSet(q[i].names) \subseteq S
      /\ \A i \in DOMAIN q : Leads(q, p, i) /\ q[i].type = "listed" => S \subseteq Brings(q[i], S)
      /\ (\A i \in DOMAIN q : ~Leads(q, p, i)) =>
           /\ ToSet(p.shown) \subseteq S
           /\ \/ \E i \in DOMAIN q : Asked(q, p, i) /\ q[i].type = "error"
              \/ \A x \in S : \/ x \in ToSet(p.shown)
                              \/ \E i \in DOMAIN q : q[i].type \in Lists /\ x \in Brings(q[i], S)
  <2>1. ASSUME NEW i \in DOMAIN q PROVE q[i].type # "changed"
    <3>1. CASE i = 1
      BY <3>1
    <3>2. CASE i # 1
      BY <1>1, <3>2
    <3> QED
      BY <3>1, <3>2
  <2> QED
    BY <2>1 DEF Truthful
<1>3. /\ \A j \in DOMAIN t : Asked(t, w, j) /\ t[j].type = "listed" => ToSet(t[j].names) \subseteq S
      /\ \A j \in DOMAIN t : Leads(t, w, j) /\ t[j].type = "listed" => S \subseteq Brings(t[j], S)
  BY <1>1, <1>2
<1>4. Brings(m, S) = ToSet(m.names) \cup E
  BY DEF Brings
<1>5. ASSUME \A j \in DOMAIN t : ~Leads(t, w, j)
      PROVE  /\ ToSet(w.shown) \subseteq S
             /\ \/ \E j \in DOMAIN t : Asked(t, w, j) /\ t[j].type = "error"
                \/ \A x \in S : \/ x \in ToSet(w.shown) \cup E
                                \/ \E j \in DOMAIN t : t[j].type \in Lists /\ x \in Brings(t[j], S)
  <2>1. \A i \in DOMAIN q : Leads(q, p, i) => i = 1
    BY <1>1, <1>5
  <2>2. Asked(q, p, 1)
    <3>1. Behind(q, p, 1)
      BY <1>1, <2>1 DEF Behind
    <3> QED
      BY <1>1, <3>1 DEF LineOk, Lists
  <2>3. ToSet(m.names) \subseteq S
    BY <1>1, <1>2, <2>2
  <2>4. CASE Leads(q, p, 1)
    <3>1. w.shown = m.names
      BY <2>4 DEF Leads
    <3>2. S \subseteq ToSet(m.names) \cup E
      BY <1>1, <1>2, <1>4, <2>4
    <3> QED
      BY <2>3, <3>1, <3>2
  <2>5. CASE ~Leads(q, p, 1)
    <3>1. w.shown = p.shown \o m.names
      BY <2>2, <2>5 DEF Leads, Asked
    <3>2. ToSet(w.shown) = ToSet(p.shown) \cup ToSet(m.names)
      <4>1. p.shown \in Seq(Entries) /\ m.names \in Seq(Entries)
        BY <1>1, MailFacts DEF Panes
      <4> QED
        BY <3>1, <4>1, ToSetConcat
    <3>3. /\ ToSet(p.shown) \subseteq S
          /\ \/ \E i \in DOMAIN q : Asked(q, p, i) /\ q[i].type = "error"
             \/ \A x \in S : \/ x \in ToSet(p.shown)
                             \/ \E i \in DOMAIN q : q[i].type \in Lists /\ x \in Brings(q[i], S)
      BY <1>2, <2>1, <2>5
    <3>4. ASSUME NEW i \in DOMAIN q, Asked(q, p, i) /\ q[i].type = "error"
          PROVE  \E j \in DOMAIN t : Asked(t, w, j) /\ t[j].type = "error"
      BY <1>1, <3>4
    <3>5. ASSUME NEW x, NEW i \in DOMAIN q, q[i].type \in Lists /\ x \in Brings(q[i], S)
          PROVE  \/ x \in ToSet(w.shown) \cup E
                 \/ \E j \in DOMAIN t : t[j].type \in Lists /\ x \in Brings(t[j], S)
      <4>1. CASE i = 1
        BY <1>4, <3>2, <3>5, <4>1
      <4>2. CASE i # 1
        BY <1>1, <3>5, <4>2
      <4> QED
        BY <4>1, <4>2
    <3> QED
      BY <2>3, <3>2, <3>3, <3>4, <3>5
  <2> QED
    BY <2>4, <2>5
<1> QED
  BY <1>3, <1>5 DEF Nearly

\* The next page of the pane's directory is asked for.
LEMMA GrownPage ==
  ASSUME NEW q \in Seq(Mail), NEW r \in Seq(Mail), NEW m, Grown(q, m, r),
         NEW p \in Panes, NEW w \in Panes, w.requests = With(p.requests, m.id, TRUE),
         w.open = p.open, w.path = p.path, w.shown = p.shown, w.failed = p.failed,
         m.type = "list", m.path = p.path,
         \A i \in DOMAIN q : q[i].id # m.id, m.id \notin DOMAIN p.requests,
         NEW S, LineOk(q, p), Nearly(q, p, S, Rest(S, m.cursor))
  PROVE  LineOk(r, w) /\ Truthful(r, w, S)
<1> DEFINE n == Len(q) + 1
<1>1. /\ DOMAIN q = 1 .. Len(q) /\ Len(q) \in Nat /\ DOMAIN r = 1 .. n /\ r[n] = m
      /\ \A i \in DOMAIN q : i \in DOMAIN r /\ r[i] = q[i] /\ i < n
      /\ \A i \in DOMAIN r : i \in DOMAIN q \/ i = n
  BY GrownPlaces
<1>2. /\ DOMAIN w.requests = DOMAIN p.requests \cup {m.id} /\ w.requests[m.id] = TRUE
      /\ \A id \in DOMAIN p.requests : w.requests[id] = p.requests[id]
  BY DEF With
<1>3. n \in DOMAIN r /\ n \in Nat /\ n \notin DOMAIN q
  BY <1>1
<1> HIDE DEF n
<1>4. \A i \in DOMAIN q : /\ Asked(r, w, i) <=> Asked(q, p, i)
                          /\ Leads(r, w, i) <=> Leads(q, p, i)
  BY <1>1, <1>2 DEF Asked, Leads
<1>5. Asked(r, w, n) /\ ~Leads(r, w, n)
  BY <1>1, <1>2 DEF Asked, Leads
<1>6. \A i \in DOMAIN q : Behind(r, w, i) <=> Behind(q, p, i)
  BY <1>1, <1>4, <1>5 DEF Behind
<1>7. Behind(r, w, n)
  <2>1. ASSUME NEW k \in DOMAIN r PROVE k =< n
    BY <1>1, <1>3, <2>1
  <2> QED
    BY <2>1 DEF Behind
<1>8. LineOk(r, w)
  <2>1. Distinct(r)
    BY GrownDistinct DEF LineOk
  <2>2. ASSUME NEW id \in DOMAIN w.requests
        PROVE  \E i \in DOMAIN r : r[i].id = id /\ r[i].type \in Lists \cup {"error"}
    <3>1. CASE id = m.id
      BY <1>1, <1>3, <3>1 DEF Lists
    <3>2. CASE id # m.id
      <4>1. PICK i \in DOMAIN q : q[i].id = id /\ q[i].type \in Lists \cup {"error"}
        BY <1>2, <3>2 DEF LineOk
      <4> QED
        BY <1>1, <4>1
    <3> QED
      BY <3>1, <3>2
  <2>3. ASSUME w.open, NEW j \in DOMAIN r
        PROVE  /\ Asked(r, w, j) => Behind(r, w, j)
               /\ r[j].type \in Lists /\ Behind(r, w, j) => Asked(r, w, j)
               /\ r[j].type = "list" /\ Asked(r, w, j) =>
                    r[j].path = w.path /\ (Leads(r, w, j) => r[j].cursor = 0)
    <3>1. CASE j = n
      BY <1>1, <1>5, <1>7, <3>1
    <3>2. CASE j \in DOMAIN q
      BY <1>1, <1>4, <1>6, <2>3, <3>2 DEF LineOk
    <3> QED
      BY <1>1, <3>1, <3>2
  <2> QED
    BY <2>1, <2>2, <2>3 DEF LineOk
<1>9. Truthful(r, w, S)
  <2> SUFFICES ASSUME w.open, ~w.failed, \A j \in DOMAIN r : r[j].type # "changed"
               PROVE  Truthful(r, w, S)
    BY DEF Truthful
  <2>1. /\ \A i \in DOMAIN q : Asked(q, p, i) /\ q[i].type = "listed" => ToSet(q[i].names) \subseteq S
        /\ \A i \in DOMAIN q : Leads(q, p, i) /\ q[i].type = "listed" => S \subseteq Brings(q[i], S)
        /\ (\A i \in DOMAIN q : ~Leads(q, p, i)) =>
             /\ ToSet(p.shown) \subseteq S
             /\ \/ \E i \in DOMAIN q : Asked(q, p, i) /\ q[i].type = "error"
                \/ \A x \in S : \/ x \in ToSet(p.shown) \cup Rest(S, m.cursor)
                                \/ \E i \in DOMAIN q : q[i].type \in Lists /\ x \in Brings(q[i], S)
    <3>1. \A i \in DOMAIN q : q[i].type # "changed"
      BY <1>1
    <3> QED
      BY <3>1 DEF Nearly
  <2>2. /\ \A j \in DOMAIN r : Asked(r, w, j) /\ r[j].type = "listed" => ToSet(r[j].names) \subseteq S
        /\ \A j \in DOMAIN r : Leads(r, w, j) /\ r[j].type = "listed" => S \subseteq Brings(r[j], S)
    BY <1>1, <1>4, <2>1
  <2>3. ASSUME \A j \in DOMAIN r : ~Leads(r, w, j)
        PROVE  /\ ToSet(w.shown) \subseteq S
               /\ \/ \E j \in DOMAIN r : Asked(r, w, j) /\ r[j].type = "error"
                  \/ \A x \in S : \/ x \in ToSet(w.shown)
                                  \/ \E j \in DOMAIN r : r[j].type \in Lists /\ x \in Brings(r[j], S)
    <3>1. \A i \in DOMAIN q : ~Leads(q, p, i)
      BY <1>1, <1>4, <2>3
    <3>2. ASSUME NEW i \in DOMAIN q, Asked(q, p, i) /\ q[i].type = "error"
          PROVE  \E j \in DOMAIN r : Asked(r, w, j) /\ r[j].type = "error"
      BY <1>1, <1>4, <3>2
    <3>3. ASSUME NEW x, NEW i \in DOMAIN q, q[i].type \in Lists /\ x \in Brings(q[i], S)
          PROVE  \E j \in DOMAIN r : r[j].type \in Lists /\ x \in Brings(r[j], S)
      BY <1>1, <3>3
    <3>4. ASSUME NEW x \in Rest(S, m.cursor)
          PROVE  \E j \in DOMAIN r : r[j].type \in Lists /\ x \in Brings(r[j], S)
      <4>1. x \in Brings(r[n], S) /\ r[n].type \in Lists
        BY <1>1 DEF Brings, Lists
      <4> QED
        BY <1>3, <4>1
    <3> QED
      BY <2>1, <3>1, <3>2, <3>3, <3>4
  <2> QED
    BY <2>2, <2>3 DEF Truthful
<1> QED
  BY <1>8, <1>9

\* What the panel waits for stays under way.
LEMMA StillAwaited ==
  ASSUME NEW q \in Seq(Mail), NEW r \in Seq(Mail), NEW b, Awaited(q, b), NEW k, NEW m,
         \/ Grown(q, m, r)
         \/ Dropped(q, k, r) /\ (q[k].id = b => q[k].type \notin BashTypes)
         \/ Answered(q, k, m, r) /\ (q[k].type \in BashTypes => m.type \in BashTypes)
            /\ m.id = q[k].id
  PROVE  Awaited(r, b)
<1> SUFFICES ASSUME b # NoId PROVE \E j \in DOMAIN r : r[j].id = b /\ r[j].type \in BashTypes
  BY DEF Awaited
<1>1. PICK i \in DOMAIN q : q[i].id = b /\ q[i].type \in BashTypes
  BY DEF Awaited
<1>2. CASE Grown(q, m, r)
  BY <1>1, <1>2, GrownPlaces
<1>3. CASE Dropped(q, k, r) /\ (q[k].id = b => q[k].type \notin BashTypes)
  BY <1>1, <1>3, DroppedPlaces
<1>4. CASE Answered(q, k, m, r) /\ (q[k].type \in BashTypes => m.type \in BashTypes) /\ m.id = q[k].id
  <2>1. /\ k \in DOMAIN q /\ DOMAIN r = DOMAIN q /\ r[k] = m
        /\ \A j \in DOMAIN q : j # k => r[j] = q[j]
    BY <1>4, AnsweredPlaces
  <2> QED
    BY <1>1, <1>4, <2>1
<1> QED
  BY <1>2, <1>3, <1>4

-----------------------------------------------------------------------------
(* The steps.                                                              *)

LEMMA LineFacts ==
  ASSUME WorkInv
  PROVE  /\ outbox \in Seq(Mail) /\ serving \in Seq(Mail) /\ inbox \in Seq(Mail) /\ Line \in Seq(Mail)
         /\ Distinct(Line) /\ \A i \in DOMAIN Line : Line[i].id \in Ids
         /\ \A id \in DOMAIN pane.requests : \E i \in DOMAIN Line : Line[i].id = id
<1>1. outbox \in Seq(Mail) /\ serving \in Seq(Mail) /\ inbox \in Seq(Mail)
  BY DEF WorkInv, WireTypes, Mail
<1>2. Line \in Seq(Mail)
  BY <1>1, Joined DEF Line
<1>3. \A i \in DOMAIN Line : Line[i].id \in Ids
  <2> HIDE DEF Line
  <2>1. \A i \in DOMAIN Line : Line[i] \in Mail
    BY <1>2
  <2> QED
    BY <2>1, MailFacts
<1> QED
  BY <1>1, <1>2, <1>3 DEF WorkInv, LineOk

\* There is always an id that nobody uses.
LEMMA FreshFacts ==
  ASSUME WorkInv
  PROVE  /\ FreshId \in Ids /\ FreshId # NoId /\ FreshId # bash /\ FreshId \notin DOMAIN pane.requests
         /\ \A i \in DOMAIN Line : Line[i].id # FreshId
<1> DEFINE n == Len(Line)
           T == {Line[i].id : i \in 1 .. n}
<1>1. /\ Line \in Seq(Mail) /\ \A i \in DOMAIN Line : Line[i].id \in Ids
      /\ \A id \in DOMAIN pane.requests : \E i \in DOMAIN Line : Line[i].id = id
  BY LineFacts
<1> HIDE DEF Line
<1>2. n \in Nat /\ DOMAIN Line = 1 .. n
  BY <1>1
<1>3. n =< 1 + MaxClicks + MaxTyped
  <2>1. /\ n =< 1 + clicks + typed /\ clicks \in 0 .. MaxClicks /\ typed \in 0 .. MaxTyped
        /\ MaxClicks \in Nat /\ MaxTyped \in Nat
    BY LiveSessionAssumption DEF WorkInv, FileTypes
  <2> HIDE DEF n
  <2> QED
    BY <2>1, <1>2
<1>4. IsFiniteSet(T) /\ Cardinality(T) \in Nat /\ Cardinality(T) =< n
  <2> DEFINE f == [i \in 1 .. n |-> Line[i].id]
  <2>1. IsFiniteSet(1 .. n) /\ Cardinality(1 .. n) = n
    <3> HIDE DEF n
    <3> QED
      BY <1>2, FS_Interval
  <2>2. f \in Surjection(1 .. n, T)
    BY DEF Surjection
  <2> HIDE DEF f, T
  <2> QED
    BY <2>1, <2>2, FS_Surjection, FS_CardinalityType
<1>5. ~(Ids \subseteq T)
  <2> SUFFICES ASSUME Ids \subseteq T PROVE FALSE
    OBVIOUS
  <2> HIDE DEF T
  <2>1. IsFiniteSet(Ids) /\ Cardinality(Ids) =< Cardinality(T) /\ Cardinality(Ids) \in Nat
    BY <1>4, FS_Subset, FS_CardinalityType
  <2>2. Cardinality(Ids) > 1 + MaxClicks + MaxTyped /\ MaxClicks \in Nat /\ MaxTyped \in Nat
    BY <2>1, LiveSessionAssumption
  <2> HIDE DEF n
  <2> QED
    BY <1>2, <1>3, <1>4, <2>1, <2>2
<1>6. UsedIds = T \cup {bash}
  <2>1. {m.id : m \in ToSet(Line)} = T
    BY <1>2 DEF ToSet
  <2>2. DOMAIN pane.requests \subseteq T
    BY <1>1, <1>2
  <2> QED
    BY <2>1, <2>2 DEF UsedIds
<1>7. bash \in T \cup {NoId}
  BY <1>2 DEF WorkInv, FileTypes, Awaited
<1>8. NoId \notin Ids
  BY LiveSessionAssumption
<1>9. \E id \in Ids \ UsedIds : TRUE
  BY <1>5, <1>6, <1>7, <1>8
<1>10. FreshId \in Ids \ UsedIds
  BY <1>9 DEF FreshId
<1>11. \A i \in DOMAIN Line : Line[i].id \in T
  BY <1>2
<1> QED
  BY <1>6, <1>8, <1>10, <1>11 DEF UsedIds

\* What a step does to the line.
LEMMA Sent ==
  ASSUME WorkInv, NEW m \in Messages, Send(m), UNCHANGED <<outbox, serving>>
  PROVE  /\ Grown(Line, m, Line') /\ Line' \in Seq(Mail) /\ Len(Line') = Len(Line) + 1
         /\ inbox' \in Seq(Messages)
<1>1. m \in Mail
  BY DEF Mail
<1>2. Line' = outbox \o serving \o Append(inbox, m)
  BY DEF Send, Line
<1>3. Grown(Line, m, Line') /\ Line' \in Seq(Mail)
  BY <1>1, <1>2, LineFacts, SentLine DEF Line
<1>4. inbox' \in Seq(Messages)
  BY DEF WorkInv, WireTypes, Send
<1> QED
  BY <1>3, <1>4 DEF Grown

LEMMA Handled ==
  ASSUME WorkInv, inbox # <<>>, serving = <<>>, inbox' = Tail(inbox), UNCHANGED <<outbox, serving>>
  PROVE  /\ Dropped(Line, Len(outbox) + 1, Line') /\ Line' \in Seq(Mail)
         /\ Len(Line') \in Nat /\ Len(Line) = Len(Line') + 1
         /\ inbox' \in Seq(Messages)
         /\ Line[Len(outbox) + 1] = Head(inbox) /\ Head(inbox) \in Messages
<1>1. Line' = outbox \o serving \o Tail(inbox)
  BY DEF Line
<1>2. /\ Dropped(Line, Len(outbox) + 1, Line') /\ Line' \in Seq(Mail)
      /\ Line[Len(outbox) + 1] = Head(inbox)
  <2>1. outbox \in Seq(Mail) /\ serving \in Seq(Mail) /\ inbox \in Seq(Mail)
    BY LineFacts
  <2>2. /\ Dropped(outbox \o serving \o inbox, Len(outbox) + 1, outbox \o serving \o Tail(inbox))
        /\ outbox \o serving \o Tail(inbox) \in Seq(Mail)
        /\ (outbox \o serving \o inbox)[Len(outbox) + 1] = Head(inbox)
    BY <2>1, HandledLine
  <2> QED
    BY <1>1, <2>2 DEF Line
<1>3. inbox' \in Seq(Messages) /\ Head(inbox) \in Messages
  BY DEF WorkInv, WireTypes
<1>4. Len(Line') \in Nat
  BY <1>2
<1> QED
  BY <1>2, <1>3, <1>4 DEF Dropped

LEMMA ServedOne ==
  ASSUME WorkInv, NEW a \in Answers, serving # <<>>, Served(a), UNCHANGED inbox
  PROVE  /\ Answered(Line, Len(outbox) + 1, a, Line') /\ Line' \in Seq(Mail) /\ Len(Line') = Len(Line)
         /\ outbox' \in Seq(Answers) /\ serving' = <<>>
         /\ Line[Len(outbox) + 1] = serving[1] /\ serving[1] \in Messages
         /\ serving[1].type \in {"list", "mkdir", "delete", "shell-history"}
<1> DEFINE Kinds == {m \in Messages : m.type \in {"list", "mkdir", "delete", "shell-history"}}
<1>1. serving \in Seq(Kinds) /\ Len(serving) =< 1
  BY DEF WorkInv, WireTypes
<1>2. Len(serving) = 1 /\ serving[1] \in Kinds
  <2> HIDE DEF Kinds
  <2> QED
    BY <1>1
<1>3. a \in Mail
  BY DEF Mail
<1>4. Line' = Append(outbox, a) \o <<>> \o inbox
  BY DEF Line, Served, Reply
<1>5. /\ Answered(Line, Len(outbox) + 1, a, Line') /\ Line' \in Seq(Mail)
      /\ Line[Len(outbox) + 1] = serving[1]
  BY <1>2, <1>3, <1>4, LineFacts, AnsweredLine DEF Line
<1>6. outbox' \in Seq(Answers) /\ serving' = <<>>
  BY DEF WorkInv, WireTypes, Served, Reply
<1> QED
  BY <1>2, <1>5, <1>6 DEF Answered

\* The line when the first answer has been heard, before something new is sent.
Heard == Tail(outbox) \o serving \o inbox

LEMMA HeardOne ==
  ASSUME WorkInv, outbox # <<>>, outbox' = Tail(outbox), UNCHANGED serving
  PROVE  /\ Dropped(Line, 1, Heard) /\ Heard \in Seq(Mail)
         /\ Len(Heard) \in Nat /\ Len(Line) = Len(Heard) + 1
         /\ Line[1] = Head(outbox) /\ Head(outbox) \in Answers /\ outbox' \in Seq(Answers)
         /\ UNCHANGED inbox => Line' = Heard
         /\ \A m \in Messages : Send(m) =>
              /\ Grown(Heard, m, Line') /\ Line' \in Seq(Mail) /\ inbox' \in Seq(Messages)
              /\ Len(Line') = Len(Heard) + 1
<1>1. Dropped(Line, 1, Heard) /\ Heard \in Seq(Mail) /\ Line[1] = Head(outbox)
  BY LineFacts, HeardLine DEF Line, Heard
<1>2. Head(outbox) \in Answers /\ outbox' \in Seq(Answers) /\ inbox \in Seq(Messages)
  BY DEF WorkInv, WireTypes
<1>3. Len(Heard) \in Nat
  BY <1>1
<1>4. UNCHANGED inbox => Line' = Heard
  BY DEF Line, Heard
<1>5. ASSUME NEW m \in Messages, Send(m)
      PROVE  /\ Grown(Heard, m, Line') /\ Line' \in Seq(Mail) /\ inbox' \in Seq(Messages)
             /\ Len(Line') = Len(Heard) + 1
  <2>1. m \in Mail
    BY DEF Mail
  <2>2. Line' = Tail(outbox) \o serving \o Append(inbox, m)
    BY <1>5 DEF Line, Send
  <2>3. Tail(outbox) \in Seq(Mail) /\ serving \in Seq(Mail) /\ inbox \in Seq(Mail)
    BY LineFacts
  <2>4. Grown(Heard, m, Line') /\ Line' \in Seq(Mail)
    BY <2>1, <2>2, <2>3, SentLine DEF Heard
  <2>5. inbox' \in Seq(Messages)
    BY <1>2, <1>5 DEF Send
  <2> QED
    BY <2>4, <2>5 DEF Grown
<1> QED
  BY <1>1, <1>2, <1>3, <1>4, <1>5 DEF Dropped

LEMMA StillWork ==
  ASSUME WorkInv, UNCHANGED <<outbox, serving, inbox, dirs, pane, bash, clicks, typed>>
  PROVE  WorkInv'
<1>1. Line' = Line
  BY DEF Line
<1> QED
  BY <1>1 DEF WorkInv, WireTypes, FileTypes

LEMMA ClosedKnown ==
  ASSUME NEW q, Distinct(q), NEW S
  PROVE  LineOk(q, ClosedPane) /\ Truthful(q, ClosedPane, S)
BY DEF LineOk, Truthful, ClosedPane, NewPane

LEMMA RequestTypes ==
  ASSUME NEW requests \in Waiting, NEW id \in Ids, NEW append \in BOOLEAN
  PROVE  With(requests, id, append) \in Waiting /\ Except(requests, id) \in Waiting
<1>1. PICK ids \in SUBSET Ids : requests \in [ids -> BOOLEAN]
  BY DEF Waiting
<1>2. With(requests, id, append) \in [ids \cup {id} -> BOOLEAN]
  BY <1>1 DEF With
<1>3. Except(requests, id) \in [ids \ {id} -> BOOLEAN]
  BY <1>1 DEF Except
<1> QED
  BY <1>2, <1>3 DEF Waiting

LEMMA PaneTypes ==
  /\ ClosedPane \in Panes /\ <<>> \in Waiting
  /\ \A p \in Panes : p.requests \in Waiting /\ p.path \in Folders /\ p.shown \in Seq(Entries)
<1>1. <<>> \in [{} -> BOOLEAN]
  OBVIOUS
<1>2. <<>> \in Waiting
  BY <1>1 DEF Waiting
<1>3. ClosedPane \in Panes
  <2>1. <<>> \in Seq(Entries) /\ Home \in Folders
    BY DEF Folders
  <2>2. NewPane \in Panes
    BY <1>2, <2>1 DEF NewPane, Panes
  <2> QED
    BY <2>2 DEF ClosedPane, Panes
<1> QED
  BY <1>2, <1>3 DEF Panes

\* Room in the line: a click or a key.
Counted ==
  \/ clicks < MaxClicks /\ clicks' = clicks + 1 /\ UNCHANGED typed
  \/ typed < MaxTyped /\ typed' = typed + 1 /\ UNCHANGED clicks

LEMMA CountedTypes ==
  ASSUME WorkInv, Counted
  PROVE  /\ clicks' \in 0 .. MaxClicks /\ typed' \in 0 .. MaxTyped
         /\ clicks' + typed' = clicks + typed + 1 /\ Len(Line) \in Nat
         /\ Len(Line) =< 1 + clicks + typed
         /\ clicks \in Nat /\ typed \in Nat
<1>1. /\ clicks \in 0 .. MaxClicks /\ typed \in 0 .. MaxTyped /\ MaxClicks \in Nat /\ MaxTyped \in Nat
      /\ Len(Line) =< 1 + clicks + typed
  BY LiveSessionAssumption DEF WorkInv, FileTypes
<1>2. Len(Line) \in Nat
  BY LineFacts
<1> QED
  BY <1>1, <1>2 DEF Counted

\* Something is sent that is not a listing.
LEMMA SentKeeps ==
  ASSUME WorkInv, NEW m \in Messages, m.id = FreshId, m.type # "list", Send(m), Counted,
         \/ UNCHANGED bash
         \/ bash' = FreshId /\ m.type = "shell-history",
         UNCHANGED <<outbox, serving, dirs, pane>>
  PROVE  WorkInv'
<1>1. /\ Grown(Line, m, Line') /\ Line' \in Seq(Mail) /\ Len(Line') = Len(Line) + 1
      /\ inbox' \in Seq(Messages) /\ Line \in Seq(Mail)
  BY Sent, LineFacts
<1>2. m.type \notin Lists \cup {"changed", "error"} /\ m.id \in Ids
  <2>1. m \in Mail
    BY DEF Mail
  <2> QED
    BY <2>1, MailFacts DEF Lists
<1>3. /\ \A i \in DOMAIN Line : Line[i].id # m.id
      /\ m.id \notin DOMAIN pane.requests
  BY FreshFacts
<1>4. pane \in Panes /\ LineOk(Line, pane) /\ Truthful(Line, pane, dirs[pane.path])
  BY DEF WorkInv, FileTypes
<1>5. LineOk(Line', pane) /\ Truthful(Line', pane, dirs[pane.path])
  BY <1>1, <1>2, <1>3, <1>4, GrownLine
<1>6. Awaited(Line', bash')
  <2>1. CASE UNCHANGED bash
    <3>1. Awaited(Line, bash)
      BY DEF WorkInv, FileTypes
    <3> QED
      BY <1>1, <2>1, <3>1, StillAwaited
  <2>2. CASE bash' = FreshId /\ m.type = "shell-history"
    <3>1. Len(Line) + 1 \in DOMAIN Line' /\ Line'[Len(Line) + 1] = m
      BY <1>1, GrownPlaces
    <3> QED
      BY <2>2, <3>1 DEF Awaited, BashTypes
  <2> QED
    BY <2>1, <2>2
<1>7. FileTypes'
  <2>1. bash' \in Ids \cup {NoId}
    BY <1>2 DEF WorkInv, FileTypes
  <2> QED
    BY <1>1, <1>6, <2>1, CountedTypes DEF WorkInv, FileTypes
<1>8. WireTypes'
  BY <1>1 DEF WorkInv, WireTypes
<1> QED
  BY <1>5, <1>7, <1>8 DEF WorkInv

LEMMA ClickRefreshKeeps ==
  ASSUME WorkInv, Counted, NEW path \in Folders, Refresh(path), pane.open,
         UNCHANGED <<outbox, serving, dirs, bash>>
  PROVE  WorkInv'
<1> DEFINE m == ListMessage(FreshId, path, 0)
           w == [pane EXCEPT !.path = path, !.failed = FALSE, !.requests = With(<<>>, FreshId, FALSE)]
<1>1. pane \in Panes /\ Awaited(Line, bash) /\ Line \in Seq(Mail) /\ Distinct(Line)
  BY LineFacts DEF WorkInv, FileTypes
<1>2. /\ m \in Messages /\ m.type = "list" /\ m.path = path /\ m.cursor = 0 /\ m.id = FreshId
      /\ Send(m) /\ pane' = w
  <2>1. FreshId \in Ids
    BY FreshFacts
  <2>2. (0 > 0) = FALSE
    OBVIOUS
  <2>3. m \in Messages /\ m.type = "list" /\ m.path = path /\ m.cursor = 0 /\ m.id = FreshId
    BY <2>1 DEF ListMessage, Messages
  <2>4. pane' = [[pane EXCEPT !.path = path, !.requests = <<>>, !.failed = FALSE]
                   EXCEPT !.requests = With(<<>>, FreshId, FALSE)] /\ Send(m)
    BY <1>1, <2>2 DEF Refresh, RequestPage, Panes
  <2>5. pane' = w
    BY <1>1, <2>4 DEF Panes
  <2> QED
    BY <2>3, <2>4, <2>5
<1>3. w \in Panes /\ w.path = path /\ w.requests = With(<<>>, m.id, FALSE) /\ w.open
  <2>1. With(<<>>, FreshId, FALSE) \in Waiting
    BY FreshFacts, RequestTypes, PaneTypes
  <2> QED
    BY <1>1, <2>1 DEF Panes, ListMessage
<1> HIDE DEF m, w
<1>4. /\ Grown(Line, m, Line') /\ Line' \in Seq(Mail) /\ Len(Line') = Len(Line) + 1
      /\ inbox' \in Seq(Messages)
  BY <1>2, Sent
<1>5. \A i \in DOMAIN Line : Line[i].id # m.id
  BY <1>2, FreshFacts
<1>6. LineOk(Line', w) /\ Truthful(Line', w, dirs[w.path])
  <2>1. m.path = w.path
    BY <1>2, <1>3
  <2> QED
    BY <1>1, <1>2, <1>3, <1>4, <1>5, <2>1, RefreshedKnown
<1>7. Awaited(Line', bash)
  BY <1>1, <1>4, StillAwaited
<1>8. FileTypes'
  BY <1>2, <1>3, <1>4, <1>7, CountedTypes DEF WorkInv, FileTypes
<1>9. WireTypes'
  BY <1>4 DEF WorkInv, WireTypes
<1> QED
  BY <1>2, <1>6, <1>8, <1>9 DEF WorkInv

LEMMA DisconnectKeeps ==
  ASSUME WorkInv, ClickDisconnect
  PROVE  WorkInv'
<1> DEFINE m == [type |-> "disconnect", id |-> FreshId]
<1>1. m \in Messages /\ m.id = FreshId /\ Send(m) /\ UNCHANGED <<outbox, serving>>
  BY FreshFacts DEF Messages, ClickDisconnect
<1> HIDE DEF m
<1>2. /\ Grown(Line, m, Line') /\ Line' \in Seq(Mail) /\ Len(Line') = Len(Line) + 1
      /\ inbox' \in Seq(Messages) /\ Line \in Seq(Mail)
  BY <1>1, Sent, LineFacts
<1>3. \A i \in DOMAIN Line : Line[i].id # m.id
  BY <1>1, FreshFacts
<1>4. Distinct(Line')
  BY <1>2, <1>3, GrownDistinct, LineFacts
<1>5. pane' = ClosedPane /\ bash' = NoId /\ UNCHANGED dirs
  BY DEF ClickDisconnect
<1>6. Counted
  BY DEF ClickDisconnect, Click, Counted, terminal
<1>7. FileTypes'
  BY <1>2, <1>5, <1>6, CountedTypes, PaneTypes DEF WorkInv, FileTypes, Awaited
<1>8. WireTypes'
  BY <1>1, <1>2 DEF WorkInv, WireTypes
<1> QED
  BY <1>4, <1>5, <1>7, <1>8, ClosedKnown DEF WorkInv

LEMMA NotAsked ==
  ASSUME NEW q \in Seq(Mail), NEW p \in Panes, LineOk(q, p), NEW k \in DOMAIN q,
         q[k].type \notin Lists \cup {"error"}
  PROVE  ~Asked(q, p, k)
<1> SUFFICES ASSUME Asked(q, p, k) PROVE FALSE
  OBVIOUS
<1>1. PICK i \in DOMAIN q : q[i].id = q[k].id /\ q[i].type \in Lists \cup {"error"}
  BY DEF LineOk, Asked
<1>2. i = k
  BY <1>1 DEF LineOk, Distinct
<1> QED
  BY <1>1, <1>2

\* A message that asks for nothing is handled.
LEMMA HandledKeeps ==
  ASSUME WorkInv, inbox # <<>>, serving = <<>>, inbox' = Tail(inbox),
         Head(inbox).type \in {"input", "activity"},
         UNCHANGED <<outbox, serving, dirs, pane, bash, clicks, typed>>
  PROVE  WorkInv'
<1> DEFINE k == Len(outbox) + 1
<1>1. /\ Dropped(Line, k, Line') /\ Line' \in Seq(Mail) /\ Line \in Seq(Mail)
      /\ Len(Line') \in Nat /\ Len(Line) = Len(Line') + 1
      /\ inbox' \in Seq(Messages) /\ Line[k] = Head(inbox)
  BY Handled, LineFacts
<1> HIDE DEF k
<1>2. k \in DOMAIN Line
  BY <1>1, DroppedPlaces
<1>3. pane \in Panes /\ LineOk(Line, pane) /\ Truthful(Line, pane, dirs[pane.path]) /\ Awaited(Line, bash)
  BY DEF WorkInv, FileTypes
<1>4. ~Asked(Line, pane, k)
  <2>1. Line[k].type \notin Lists \cup {"error"}
    BY <1>1 DEF Lists
  <2> QED
    BY <1>1, <1>2, <1>3, <2>1, NotAsked
<1>5. LineOk(Line', pane) /\ Truthful(Line', pane, dirs[pane.path])
  <2>1. Line[k].type \notin Lists \cup {"changed"}
    BY <1>1 DEF Lists
  <2> QED
    BY <1>1, <1>3, <1>4, <2>1, DroppedLine
<1>6. Awaited(Line', bash)
  <2>1. Line[k].type \notin BashTypes
    BY <1>1 DEF BashTypes
  <2> QED
    BY <1>1, <1>3, <2>1, StillAwaited
<1>7. Len(Line') =< 1 + clicks + typed
  <2>1. /\ Len(Line) =< 1 + clicks + typed /\ clicks \in 0 .. MaxClicks /\ typed \in 0 .. MaxTyped
        /\ MaxClicks \in Nat /\ MaxTyped \in Nat
    BY LiveSessionAssumption DEF WorkInv, FileTypes
  <2> QED
    BY <1>1, <2>1
<1>8. FileTypes' /\ WireTypes'
  BY <1>1, <1>6, <1>7 DEF WorkInv, FileTypes, WireTypes
<1> QED
  BY <1>5, <1>8 DEF WorkInv

LEMMA BeginKeeps ==
  ASSUME WorkInv, Begin
  PROVE  WorkInv'
<1>1. /\ inbox # <<>> /\ serving = <<>> /\ inbox' = Tail(inbox) /\ serving' = <<Head(inbox)>>
      /\ Head(inbox).type \in {"list", "mkdir", "delete", "shell-history"}
      /\ UNCHANGED <<outbox, dirs, pane, bash, clicks, typed>>
  BY DEF Begin, Takes, files, terminal
<1>2. outbox \in Seq(Mail) /\ serving \in Seq(Mail) /\ inbox \in Seq(Mail)
  BY LineFacts
<1>3. Line' = Line
  <2>1. outbox \o <<Head(inbox)>> \o Tail(inbox) = outbox \o serving \o inbox
    BY <1>1, <1>2, BegunLine
  <2> QED
    BY <1>1, <2>1 DEF Line
<1>4. WireTypes'
  BY <1>1 DEF WorkInv, WireTypes
<1> QED
  BY <1>1, <1>3, <1>4 DEF WorkInv, FileTypes

\* What is served is answered; a change may have changed a directory.
LEMMA AnsweredKeeps ==
  ASSUME WorkInv, NEW a \in Answers, serving # <<>>, Served(a), a.id = serving[1].id,
         a.type = "listed" =>
           serving[1].type = "list" /\ a = Listing(serving[1]),
         serving[1].type = "list" => a.type \in {"listed", "error"},
         serving[1].type = "shell-history" => a.type \in {"shell-history-result", "error"},
         dirs' \in [Folders -> SUBSET Entries], a.type = "changed" \/ UNCHANGED dirs,
         UNCHANGED clicks \/ (clicks < MaxClicks /\ clicks' = clicks + 1),
         UNCHANGED <<inbox, pane, bash, typed>>
  PROVE  WorkInv'
<1> DEFINE k == Len(outbox) + 1
           S == dirs[pane.path]
<1>1. /\ Answered(Line, k, a, Line') /\ Line' \in Seq(Mail) /\ Len(Line') = Len(Line)
      /\ Line \in Seq(Mail)
      /\ outbox' \in Seq(Answers) /\ serving' = <<>>
      /\ Line[k] = serving[1] /\ serving[1] \in Messages
      /\ serving[1].type \in {"list", "mkdir", "delete", "shell-history"}
  BY ServedOne, LineFacts
<1> HIDE DEF k
<1>2. /\ pane \in Panes /\ LineOk(Line, pane) /\ Truthful(Line, pane, S) /\ Awaited(Line, bash)
      /\ dirs \in [Folders -> SUBSET Entries] /\ pane.path \in Folders
  BY PaneTypes DEF WorkInv, FileTypes
<1>3. S \subseteq Entries
  BY <1>2
<1>4. a.type = "listed" /\ Line[k].path = pane.path =>
        ToSet(a.names) \subseteq S /\ Brings(Line[k], S) \subseteq Brings(a, S)
  <2>1. serving[1] \in Mail
    BY <1>1 DEF Mail
  <2> QED
    BY <1>1, <1>3, <2>1, PageBrings
<1>5. a.type = "changed" \/ dirs'[pane.path] = S
  OBVIOUS
<1>6. Line[k].type = "list" <=> a.type = "listed" \/ (a.type = "error" /\ Line[k].type = "list")
  BY <1>1
<1>7. LineOk(Line', pane) /\ Truthful(Line', pane, dirs'[pane.path])
  <2> DEFINE T == dirs'[pane.path]
  <2>1. a.type = "changed" \/ T = S
    BY <1>5
  <2>2. Line[k] \in Messages /\ a.id = Line[k].id
    BY <1>1
  <2> HIDE DEF S, T
  <2>3. LineOk(Line', pane) /\ Truthful(Line', pane, T)
    BY <1>1, <1>2, <1>3, <1>4, <1>6, <2>1, <2>2, AnsweredKnown
  <2> QED
    BY <2>3 DEF T
<1>8. Awaited(Line', bash)
  <2>1. Line[k].type \in BashTypes => a.type \in BashTypes
    BY <1>1 DEF BashTypes
  <2> QED
    BY <1>1, <1>2, <2>1, StillAwaited
<1>9. clicks' \in 0 .. MaxClicks /\ Len(Line') =< 1 + clicks' + typed
  <2>1. /\ Len(Line) =< 1 + clicks + typed /\ clicks \in 0 .. MaxClicks /\ typed \in 0 .. MaxTyped
        /\ MaxClicks \in Nat /\ MaxTyped \in Nat /\ Len(Line) \in Nat
    BY <1>1, LiveSessionAssumption DEF WorkInv, FileTypes
  <2> QED
    BY <1>1, <2>1
<1>10. FileTypes' /\ WireTypes'
  <2>1. FileTypes'
    BY <1>8, <1>9 DEF WorkInv, FileTypes
  <2>2. WireTypes'
    BY <1>1 DEF WorkInv, WireTypes
  <2> QED
    BY <2>1, <2>2
<1> QED
  BY <1>7, <1>10 DEF WorkInv

LEMMA OpenKeeps ==
  ASSUME WorkInv, OpenSftp
  PROVE  WorkInv'
<1> DEFINE a == ErrorTo(serving[1])
<1>1. serving # <<>> /\ UNCHANGED <<inbox, dirs, pane, bash, clicks, typed>>
  BY DEF OpenSftp, terminal
<1>2. CASE UNCHANGED <<serving, outbox>>
  BY <1>1, <1>2, StillWork
<1>3. CASE Served(a)
  <2>1. serving[1] \in Mail
    BY <1>1 DEF WorkInv, WireTypes, Mail
  <2>2. a \in Answers /\ a.id = serving[1].id /\ a.type = "error"
    BY <2>1, MailFacts DEF ErrorTo, Answers
  <2>3. dirs' \in [Folders -> SUBSET Entries]
    BY <1>1 DEF WorkInv, FileTypes
  <2> HIDE DEF a
  <2> QED
    BY <1>1, <1>3, <2>2, <2>3, AnsweredKeeps
<1> QED
  BY <1>2, <1>3 DEF OpenSftp

LEMMA SftpEndsKeeps ==
  ASSUME WorkInv, SftpEnds
  PROVE  WorkInv'
<1> DEFINE a == ErrorTo(serving[1])
<1>1. clicks < MaxClicks /\ clicks' = clicks + 1 /\ UNCHANGED <<inbox, dirs, pane, bash, typed>>
  BY DEF SftpEnds, terminal
<1>2. CASE UNCHANGED <<serving, outbox>>
  <2>1. Line' = Line
    BY <1>1, <1>2 DEF Line
  <2>2. Counted
    BY <1>1 DEF Counted
  <2>3. clicks' \in 0 .. MaxClicks /\ typed' \in 0 .. MaxTyped /\ Len(Line) =< 1 + clicks' + typed'
    <3>1. /\ clicks' \in 0 .. MaxClicks /\ typed' \in 0 .. MaxTyped
          /\ clicks' + typed' = clicks + typed + 1 /\ Len(Line) \in Nat
          /\ Len(Line) =< 1 + clicks + typed /\ MaxClicks \in Nat /\ MaxTyped \in Nat
          /\ clicks \in Nat /\ typed \in Nat
      BY <2>2, CountedTypes, LiveSessionAssumption
    <3>2. typed' = typed /\ clicks' = clicks + 1
      BY <1>1
    <3>3. Len(Line) =< 1 + (clicks + 1) + typed
      BY <3>1
    <3> QED
      BY <3>1, <3>2, <3>3
  <2> QED
    BY <1>1, <1>2, <2>1, <2>3 DEF WorkInv, WireTypes, FileTypes
<1>3. CASE serving # <<>> /\ Served(a)
  <2>1. serving[1] \in Mail
    BY <1>3 DEF WorkInv, WireTypes, Mail
  <2>2. a \in Answers /\ a.id = serving[1].id /\ a.type = "error"
    BY <2>1, MailFacts DEF ErrorTo, Answers
  <2>3. dirs' \in [Folders -> SUBSET Entries]
    BY <1>1 DEF WorkInv, FileTypes
  <2> HIDE DEF a
  <2> QED
    BY <1>1, <1>3, <2>2, <2>3, AnsweredKeeps
<1> QED
  BY <1>2, <1>3 DEF SftpEnds

LEMMA ServeKeeps ==
  ASSUME WorkInv, ServeList \/ ServeChange \/ ServeBash
  PROVE  WorkInv'
<1> DEFINE m == serving[1]
<1>1. serving # <<>> /\ UNCHANGED <<inbox, pane, bash, clicks, typed>>
  BY DEF ServeList, ServeChange, ServeBash, files, terminal
<1>2. m \in Mail /\ m.id \in Ids /\ dirs \in [Folders -> SUBSET Entries]
  <2>1. m \in Mail
    BY <1>1 DEF WorkInv, WireTypes, Mail
  <2> QED
    BY <2>1, MailFacts DEF WorkInv, FileTypes
<1>3. CASE ServeList
  <2> DEFINE a == Listing(m)
  <2>1. m.type = "list" /\ Served(a) /\ UNCHANGED dirs
    BY <1>3 DEF ServeList, files
  <2>2. a \in Answers /\ a.id = m.id /\ a.type \in {"listed", "error"}
    <3> DEFINE S == dirs[m.path]
    <3>1. S \subseteq Entries
      BY <1>2, <2>1, MailFacts
    <3> QED
      BY <1>2, <2>1, <3>1, PageBrings
  <2>3. a = Listing(m)
    OBVIOUS
  <2> HIDE DEF a
  <2> QED
    BY <1>1, <1>2, <2>1, <2>2, <2>3, AnsweredKeeps
<1>4. CASE ServeChange
  <2> DEFINE ok == (m.type = "mkdir") = (m.name \notin dirs[m.path])
             a == IF ok THEN [type |-> "changed", id |-> m.id] ELSE ErrorTo(m)
  <2>1. /\ m.type \in {"mkdir", "delete"} /\ Served(a)
        /\ dirs' = IF ~ok THEN dirs
                   ELSE [dirs EXCEPT ![m.path] = IF m.type = "mkdir" THEN @ \cup {m.name}
                                                 ELSE @ \ {m.name}]
    BY <1>4 DEF ServeChange
  <2>2. a \in Answers /\ a.id = m.id /\ a.type = IF ok THEN "changed" ELSE "error"
    <3>1. [type |-> "changed", id |-> m.id] \in Answers /\ ErrorTo(m) \in Answers
      BY <1>2 DEF ErrorTo, Answers
    <3> QED
      BY <3>1 DEF ErrorTo
  <2>3. m.path \in Folders /\ m.name \in Entries
    BY <1>2, <2>1, MailFacts DEF Entries
  <2>4. dirs' \in [Folders -> SUBSET Entries]
    BY <1>2, <2>1, <2>3
  <2>5. a.type = "changed" \/ UNCHANGED dirs
    BY <2>1, <2>2
  <2>6. a.type \in {"changed", "error"}
    BY <2>2
  <2> HIDE DEF a, ok
  <2> QED
    BY <1>1, <2>1, <2>2, <2>4, <2>5, <2>6, AnsweredKeeps
<1>5. CASE ServeBash
  <2>1. m.type = "shell-history" /\ UNCHANGED dirs
    BY <1>5 DEF ServeBash, files
  <2>2. PICK a \in {[type |-> "shell-history-result", id |-> m.id], ErrorTo(m)} : Served(a)
    BY <1>5 DEF ServeBash
  <2>3. a \in Answers /\ a.id = m.id /\ a.type \in {"shell-history-result", "error"}
    BY <1>2 DEF ErrorTo, Answers
  <2> QED
    BY <1>1, <1>2, <2>1, <2>2, <2>3, AnsweredKeeps
<1> QED
  BY <1>3, <1>4, <1>5

LEMMA EndedKeeps ==
  ASSUME WorkInv, Ended, UNCHANGED clicks \/ (clicks < MaxClicks /\ clicks' = clicks + 1)
  PROVE  WorkInv'
<1>1. /\ outbox' = <<>> /\ serving' = <<>> /\ inbox' = <<>> /\ pane' = ClosedPane /\ bash' = NoId
      /\ UNCHANGED <<dirs, typed>>
  BY DEF Ended
<1>2. Line' = <<>>
  BY <1>1 DEF Line
<1>3. /\ clicks \in 0 .. MaxClicks /\ typed \in 0 .. MaxTyped
      /\ MaxClicks \in Nat /\ MaxTyped \in Nat
  BY LiveSessionAssumption DEF WorkInv, FileTypes
<1>4. clicks' \in 0 .. MaxClicks /\ Len(<<>>) =< 1 + clicks' + typed
  BY <1>3
<1>5. FileTypes'
  <2>1. Awaited(Line', bash')
    BY <1>1 DEF Awaited
  <2>2. pane' \in Panes /\ (~pane'.open => pane' = ClosedPane)
    BY <1>1, PaneTypes
  <2>3. Len(Line') =< 1 + clicks' + typed'
    BY <1>1, <1>2, <1>4
  <2> QED
    BY <1>1, <1>3, <1>4, <2>1, <2>2, <2>3 DEF WorkInv, FileTypes
<1>6. WireTypes'
  BY <1>1 DEF WireTypes
<1>7. Distinct(<<>>)
  BY DEF Distinct
<1> QED
  BY <1>1, <1>2, <1>5, <1>6, <1>7, ClosedKnown DEF WorkInv

\* What holds when an answer has been heard, whatever it was.
LEMMA DeliverTypes ==
  ASSUME WorkInv, Deliver, pane' \in Panes, ~pane'.open => pane' = ClosedPane,
         UNCHANGED inbox \/ \E m \in Messages : Send(m)
  PROVE  FileTypes' /\ WireTypes'
<1> DEFINE h == Head(outbox)
<1>1. /\ outbox # <<>> /\ outbox' = Tail(outbox) /\ UNCHANGED <<serving, dirs, typed, clicks>>
      /\ bash' = IF h.type \in {"shell-history-result", "error"} /\ h.id = bash THEN NoId ELSE bash
  BY DEF Deliver, terminal
<1>2. /\ Dropped(Line, 1, Heard) /\ Heard \in Seq(Mail) /\ Line \in Seq(Mail)
      /\ Len(Heard) \in Nat /\ Len(Line) = Len(Heard) + 1
      /\ Line[1] = h /\ h \in Answers /\ outbox' \in Seq(Answers)
      /\ UNCHANGED inbox => Line' = Heard
      /\ \A m \in Messages : Send(m) =>
           /\ Grown(Heard, m, Line') /\ Line' \in Seq(Mail) /\ inbox' \in Seq(Messages)
           /\ Len(Line') = Len(Heard) + 1
  BY <1>1, HeardOne, LineFacts
<1>3. bash' \in Ids \cup {NoId} /\ Awaited(Line, bash)
  BY <1>1 DEF WorkInv, FileTypes
<1>4. Awaited(Heard, bash')
  <2>1. CASE bash' = NoId
    BY <2>1 DEF Awaited
  <2>2. CASE bash' # NoId
    <3>1. bash' = bash /\ ~(h.type \in {"shell-history-result", "error"} /\ h.id = bash)
      BY <1>1, <2>2
    <3>2. h.type # "shell-history"
      <4>1. h \in Mail
        BY <1>2 DEF Mail
      <4> QED
        BY <1>2, <4>1, MailFacts
    <3>3. Line[1].id = bash => Line[1].type \notin BashTypes
      BY <1>2, <3>1, <3>2 DEF BashTypes
    <3> HIDE DEF h
    <3>4. Awaited(Heard, bash)
      BY <1>2, <1>3, <3>3, StillAwaited
    <3> QED
      BY <3>1, <3>4
  <2> QED
    BY <2>1, <2>2
<1> HIDE DEF h
<1>5. Awaited(Line', bash') /\ Len(Line') =< Len(Line) /\ inbox' \in Seq(Messages) /\ Len(Line') \in Nat
  <2>1. CASE UNCHANGED inbox
    <3>1. inbox' \in Seq(Messages)
      BY <2>1 DEF WorkInv, WireTypes
    <3> QED
      BY <1>2, <1>4, <2>1, <3>1
  <2>2. CASE \E m \in Messages : Send(m)
    <3>1. PICK m \in Messages : Send(m)
      BY <2>2
    <3>2. Grown(Heard, m, Line') /\ Line' \in Seq(Mail) /\ inbox' \in Seq(Messages) /\ Len(Line') = Len(Heard) + 1
      BY <1>2, <3>1
    <3>3. Awaited(Line', bash')
      BY <1>2, <1>4, <3>2, StillAwaited
    <3> QED
      BY <1>2, <3>2, <3>3
  <2> QED
    BY <2>1, <2>2
<1>6. Len(Line') =< 1 + clicks + typed
  <2>1. /\ Len(Line) =< 1 + clicks + typed /\ clicks \in 0 .. MaxClicks /\ typed \in 0 .. MaxTyped
        /\ MaxClicks \in Nat /\ MaxTyped \in Nat /\ Len(Line) \in Nat
    BY <1>2, LiveSessionAssumption DEF WorkInv, FileTypes
  <2> QED
    BY <1>5, <2>1
<1>7. FileTypes'
  BY <1>1, <1>3, <1>5, <1>6 DEF WorkInv, FileTypes
<1>8. WireTypes'
  BY <1>1, <1>2, <1>5 DEF WorkInv, WireTypes
<1> QED
  BY <1>7, <1>8

LEMMA OnListedKeeps ==
  ASSUME WorkInv, Deliver, pane.open, Head(outbox).type = "listed", OnListed(Head(outbox))
  PROVE  WorkInv'
<1> DEFINE m == Head(outbox)
           S == dirs[pane.path]
           append == m.id \in DOMAIN pane.requests /\ pane.requests[m.id]
           w == [pane EXCEPT !.shown = IF append THEN @ \o m.names ELSE m.names,
                             !.requests = Except(@, m.id)]
           E == IF m.next > 0 THEN Rest(S, m.next) ELSE {}
<1>1. /\ outbox # <<>> /\ outbox' = Tail(outbox) /\ UNCHANGED <<serving, dirs>>
  BY DEF Deliver
<1>2. /\ Dropped(Line, 1, Heard) /\ Heard \in Seq(Mail) /\ Line \in Seq(Mail)
      /\ Line[1] = m /\ m \in Answers
      /\ UNCHANGED inbox => Line' = Heard
      /\ \A n \in Messages : Send(n) => Grown(Heard, n, Line') /\ Line' \in Seq(Mail)
  BY <1>1, HeardOne, LineFacts
<1>3. m \in Mail /\ m.id \in Ids /\ m.names \in Seq(Entries) /\ m.next \in Nat /\ m.type = "listed"
  <2>1. m \in Mail
    BY <1>2 DEF Mail
  <2> QED
    BY <2>1, MailFacts
<1>4. /\ pane \in Panes /\ LineOk(Line, pane) /\ Truthful(Line, pane, S)
      /\ pane.requests \in Waiting /\ pane.path \in Folders /\ pane.shown \in Seq(Entries)
  BY PaneTypes DEF WorkInv, FileTypes
<1>5. /\ w.requests = Except(pane.requests, m.id) /\ w.open = pane.open /\ w.path = pane.path
      /\ w.failed = pane.failed
      /\ w.shown = IF append THEN pane.shown \o m.names ELSE m.names
  BY <1>4 DEF Panes
<1>6. w \in Panes
  <2>1. Except(pane.requests, m.id) \in Waiting
    BY <1>3, <1>4, RequestTypes
  <2>2. pane.shown \o m.names \in Seq(Entries)
    BY <1>3, <1>4
  <2> QED
    BY <1>3, <1>4, <2>1, <2>2 DEF Panes
<1>7. \/ m.next > 0 /\ RequestPage(w, m.next)
      \/ ~(m.next > 0) /\ pane' = w /\ UNCHANGED inbox
  BY DEF OnListed
<1> HIDE DEF w, m, S
<1>8. LineOk(Heard, w)
  BY <1>2, <1>4, <1>5, <1>6, HeardKnown
<1>9. Nearly(Heard, w, S, E)
  BY <1>2, <1>3, <1>4, <1>5, <1>6, HeardPage
<1>10. CASE ~(m.next > 0)
  <2>1. pane' = w /\ UNCHANGED inbox /\ Line' = Heard
    BY <1>2, <1>7, <1>10
  <2>2. FileTypes' /\ WireTypes'
    BY <1>5, <1>6, <2>1, DeliverTypes
  <2>3. Truthful(Line', w, S)
    BY <1>9, <1>10, <2>1 DEF Nearly, Truthful
  <2>4. dirs'[pane'.path] = S
    BY <1>1, <1>5, <2>1 DEF S
  <2> QED
    BY <1>8, <2>1, <2>2, <2>3, <2>4 DEF WorkInv
<1>11. CASE m.next > 0
  <2> DEFINE n == ListMessage(FreshId, w.path, m.next)
             v == [w EXCEPT !.requests = With(@, FreshId, TRUE)]
  <2>1. Send(n) /\ pane' = v
    BY <1>7, <1>11 DEF RequestPage
  <2>2. /\ FreshId \in Ids /\ FreshId \notin DOMAIN pane.requests
        /\ \A i \in DOMAIN Line : Line[i].id # FreshId
    BY FreshFacts
  <2>3. n \in Messages /\ n.type = "list" /\ n.path = w.path /\ n.cursor = m.next /\ n.id = FreshId
    BY <1>3, <1>4, <1>5, <2>2 DEF ListMessage, Messages
  <2>4. /\ v.requests = With(w.requests, FreshId, TRUE) /\ v.open = w.open /\ v.path = w.path
        /\ v.shown = w.shown /\ v.failed = w.failed
    BY <1>6 DEF Panes
  <2>5. v \in Panes
    <3>1. With(w.requests, FreshId, TRUE) \in Waiting
      BY <1>6, <2>2, PaneTypes, RequestTypes
    <3> QED
      BY <1>6, <3>1 DEF Panes
  <2> HIDE DEF n, v
  <2>6. Grown(Heard, n, Line') /\ Line' \in Seq(Mail)
    BY <1>2, <2>1, <2>3
  <2>7. \A i \in DOMAIN Heard : Heard[i].id # FreshId
    BY <1>2, <2>2, DroppedPlaces
  <2>8. FreshId \notin DOMAIN w.requests
    BY <1>5, <2>2 DEF Except
  <2>9. Nearly(Heard, w, S, Rest(S, n.cursor))
    BY <1>9, <1>11, <2>3
  <2>10. LineOk(Line', v) /\ Truthful(Line', v, S)
    BY <1>2, <1>6, <1>8, <2>3, <2>4, <2>5, <2>6, <2>7, <2>8, <2>9, GrownPage
  <2>11. FileTypes' /\ WireTypes'
    BY <1>5, <2>1, <2>3, <2>4, <2>5, DeliverTypes
  <2>12. dirs'[pane'.path] = S
    BY <1>1, <1>5, <2>1, <2>4 DEF S
  <2> QED
    BY <2>1, <2>10, <2>11, <2>12 DEF WorkInv
<1> QED
  BY <1>10, <1>11

LEMMA OnChangedKeeps ==
  ASSUME WorkInv, Deliver, pane.open, Head(outbox).type = "changed", OnChanged(Head(outbox))
  PROVE  WorkInv'
<1> DEFINE path == pane.path
           n == ListMessage(FreshId, path, 0)
           w == [pane EXCEPT !.path = path, !.failed = FALSE, !.requests = With(<<>>, FreshId, FALSE)]
<1>1. outbox # <<>> /\ outbox' = Tail(outbox) /\ UNCHANGED <<serving, dirs>>
  BY DEF Deliver
<1>2. /\ Dropped(Line, 1, Heard) /\ Heard \in Seq(Mail) /\ Line \in Seq(Mail) /\ Distinct(Line)
      /\ \A m \in Messages : Send(m) => Grown(Heard, m, Line') /\ Line' \in Seq(Mail)
  BY <1>1, HeardOne, LineFacts
<1>3. pane \in Panes /\ path \in Folders
  BY PaneTypes DEF WorkInv, FileTypes
<1>4. FreshId \in Ids /\ \A i \in DOMAIN Line : Line[i].id # FreshId
  BY FreshFacts
<1>5. /\ n \in Messages /\ n.type = "list" /\ n.path = path /\ n.cursor = 0 /\ n.id = FreshId
  BY <1>3, <1>4 DEF ListMessage, Messages
<1>6. Send(n) /\ pane' = w
  <2>1. (0 > 0) = FALSE
    OBVIOUS
  <2>2. pane' = [[pane EXCEPT !.path = path, !.requests = <<>>, !.failed = FALSE]
                   EXCEPT !.requests = With(<<>>, FreshId, FALSE)] /\ Send(n)
    BY <1>3, <2>1 DEF OnChanged, Refresh, RequestPage, Panes
  <2> QED
    BY <1>3, <2>2 DEF Panes
<1>7. w \in Panes /\ w.path = path /\ w.requests = With(<<>>, n.id, FALSE) /\ w.open
  <2>1. With(<<>>, FreshId, FALSE) \in Waiting
    BY <1>4, RequestTypes, PaneTypes
  <2> QED
    BY <1>3, <2>1 DEF Panes, ListMessage
<1> HIDE DEF n, w, path
<1>8. Grown(Heard, n, Line') /\ Line' \in Seq(Mail) /\ Distinct(Heard)
  BY <1>2, <1>5, <1>6, DroppedDistinct
<1>9. \A i \in DOMAIN Heard : Heard[i].id # n.id
  BY <1>2, <1>4, <1>5, DroppedPlaces
<1>10. LineOk(Line', w) /\ Truthful(Line', w, dirs[w.path])
  <2>1. n.path = w.path
    BY <1>5, <1>7
  <2> QED
    BY <1>2, <1>5, <1>7, <1>8, <1>9, <2>1, RefreshedKnown
<1>11. FileTypes' /\ WireTypes'
  BY <1>5, <1>6, <1>7, DeliverTypes
<1> QED
  BY <1>1, <1>6, <1>10, <1>11 DEF WorkInv

\* An answer of a listing fails it; another error, and all other answers, say
\* nothing about what is shown.
LEMMA OtherKeeps ==
  ASSUME WorkInv, Deliver, UNCHANGED inbox,
         \/ ~pane.open /\ UNCHANGED pane
         \/ pane.open /\ Head(outbox).type = "error" /\ OnError(Head(outbox))
         \/ Head(outbox).type \notin {"listed", "changed", "error"} /\ UNCHANGED pane
  PROVE  WorkInv'
<1> DEFINE m == Head(outbox)
           S == dirs[pane.path]
           w == [pane EXCEPT !.requests = Except(@, m.id), !.failed = TRUE]
<1>1. outbox # <<>> /\ outbox' = Tail(outbox) /\ UNCHANGED <<serving, dirs>>
  BY DEF Deliver
<1>2. /\ Dropped(Line, 1, Heard) /\ Heard \in Seq(Mail) /\ Line \in Seq(Mail) /\ Distinct(Line)
      /\ Line[1] = m /\ m \in Answers /\ Line' = Heard
  BY <1>1, HeardOne, LineFacts
<1>3. m \in Mail /\ m.id \in Ids /\ m.type \in {"listed", "changed", "shell-history-result", "error"}
  <2>1. m \in Mail
    BY <1>2 DEF Mail
  <2> QED
    BY <1>2, <2>1, MailFacts
<1>4. /\ pane \in Panes /\ LineOk(Line, pane) /\ Truthful(Line, pane, S) /\ (~pane.open => pane = ClosedPane)
      /\ pane.requests \in Waiting
  BY PaneTypes DEF WorkInv, FileTypes
<1>5. Line[1] = m /\ 1 \in DOMAIN Line
  BY <1>2, DroppedPlaces
<1>6. CASE ~pane.open
  <2>1. UNCHANGED pane /\ pane = ClosedPane
    BY <1>4, <1>6
  <2>2. FileTypes' /\ WireTypes'
    BY <1>4, <2>1, DeliverTypes
  <2>3. Distinct(Line')
    BY <1>2, DroppedDistinct
  <2> QED
    BY <2>1, <2>2, <2>3, ClosedKnown DEF WorkInv
<1>7. CASE UNCHANGED pane /\ ~Asked(Line, pane, 1) /\ m.type \notin {"listed", "changed"}
  <2>1. Line[1].type \notin Lists \cup {"changed"}
    BY <1>3, <1>5, <1>7 DEF Lists
  <2> HIDE DEF m, S
  <2>2. LineOk(Heard, pane) /\ Truthful(Heard, pane, S)
    BY <1>2, <1>4, <1>7, <2>1, DroppedLine
  <2>3. FileTypes' /\ WireTypes'
    BY <1>4, <1>7, DeliverTypes
  <2> QED
    BY <1>1, <1>2, <1>7, <2>2, <2>3 DEF WorkInv, S
<1>8. CASE pane.open /\ m.type = "error" /\ pane' = w
  <2>1. /\ w.requests = Except(pane.requests, m.id) /\ w.open = pane.open /\ w.path = pane.path
        /\ w.failed
    BY <1>4 DEF Panes
  <2>2. w \in Panes
    <3>1. Except(pane.requests, m.id) \in Waiting
      BY <1>3, <1>4, RequestTypes
    <3> QED
      BY <1>4, <3>1 DEF Panes
  <2> HIDE DEF w, m, S
  <2>3. LineOk(Heard, w)
    BY <1>2, <1>4, <2>1, <2>2, HeardKnown
  <2>4. FileTypes' /\ WireTypes'
    BY <1>8, <2>1, <2>2, DeliverTypes
  <2>5. Truthful(Heard, w, dirs'[w.path])
    BY <2>1 DEF Truthful
  <2> QED
    BY <1>2, <1>8, <2>3, <2>4, <2>5 DEF WorkInv
<1>9. CASE pane.open /\ m.type = "error" /\ UNCHANGED pane /\ m.id \notin DOMAIN pane.requests
  BY <1>5, <1>7, <1>9 DEF Asked
<1>10. CASE m.type \notin {"listed", "changed", "error"} /\ UNCHANGED pane
  <2>1. Line[1].type \notin Lists \cup {"error"}
    BY <1>3, <1>5, <1>10 DEF Lists
  <2>2. ~Asked(Line, pane, 1)
    BY <1>2, <1>4, <1>5, <2>1, NotAsked
  <2> QED
    BY <1>7, <1>10, <2>2
<1>11. pane.open /\ m.type = "error" /\ OnError(m) =>
         (pane' = w \/ (UNCHANGED pane /\ m.id \notin DOMAIN pane.requests))
  BY DEF OnError
<1> QED
  BY <1>6, <1>8, <1>9, <1>10, <1>11

LEMMA DeliverKeeps ==
  ASSUME WorkInv, Deliver
  PROVE  WorkInv'
<1> DEFINE m == Head(outbox)
<1>1. \/ ~pane.open /\ UNCHANGED <<pane, inbox>>
      \/ pane.open /\ m.type = "listed" /\ OnListed(m)
      \/ pane.open /\ m.type = "changed" /\ OnChanged(m)
      \/ pane.open /\ m.type = "error" /\ OnError(m)
      \/ pane.open /\ m.type \notin {"listed", "changed", "error"} /\ UNCHANGED <<pane, inbox>>
  BY DEF Deliver
<1>2. OnError(m) => UNCHANGED inbox
  BY DEF OnError
<1> QED
  BY <1>1, <1>2, OnListedKeeps, OnChangedKeeps, OtherKeeps

-----------------------------------------------------------------------------
(* The theorem.                                                            *)

LEMMA WorkStarts ==
  ASSUME WorkInit
  PROVE  WorkInv
<1> DEFINE first == CHOOSE id \in Ids : TRUE
           m == ListMessage(first, Home, 0)
<1>1. /\ serving = <<>> /\ outbox = <<>> /\ bash = NoId /\ clicks = 0 /\ typed = 0
      /\ MaxClicks \in Nat /\ MaxTyped \in Nat
  BY LiveSessionAssumption DEF WorkInit
<1>2. Awaited(Line, bash)
  BY <1>1 DEF Awaited
<1>3. dirs \in [Folders -> SUBSET Entries]
  BY DEF WorkInit, Trees, Folders, Entries
<1>4. NewPane.open /\ ~NewPane.failed /\ NewPane.path = Home /\ NewPane.requests = <<>> /\ NewPane \in Panes
  <2>1. <<>> \in Seq(Entries) /\ Home \in Folders /\ <<>> \in Waiting
    BY PaneTypes DEF Folders
  <2>2. NewPane \in Panes
    BY <2>1 DEF NewPane, Panes
  <2> QED
    BY <2>2 DEF NewPane
<1>5. CASE "files" \in uses
  <2> DEFINE w == [NewPane EXCEPT !.requests = With(<<>>, first, FALSE)]
  <2>1. inbox = <<m>> /\ pane = w
    BY <1>4, <1>5 DEF WorkInit
  <2>2. first \in Ids
    <3>1. Ids # {}
      <4> SUFFICES ASSUME Ids = {} PROVE FALSE
        OBVIOUS
      <4>1. IsFiniteSet(Ids) /\ Cardinality(Ids) = 0
        BY FS_EmptySet
      <4> QED
        BY <1>1, <4>1, LiveSessionAssumption
    <3> QED
      BY <3>1
  <2>3. m \in Messages /\ m.type = "list" /\ m.path = Home /\ m.cursor = 0 /\ m.id = first
    BY <2>2 DEF ListMessage, Messages, Folders
  <2>4. /\ w \in Panes /\ w.requests = With(<<>>, m.id, FALSE) /\ w.path = m.path
        /\ w.open /\ ~w.failed
    <3>1. With(<<>>, first, FALSE) \in Waiting
      BY <2>2, PaneTypes, RequestTypes
    <3> QED
      BY <1>4, <2>3, <3>1 DEF Panes
  <2> HIDE DEF m, w, first
  <2>5. Line = <<m>> /\ Len(Line) = 1
    <3>1. Line = <<>> \o <<>> \o <<m>>
      BY <1>1, <2>1 DEF Line
    <3>2. <<>> \o <<>> = <<>> /\ <<>> \o <<m>> = <<m>>
      OBVIOUS
    <3>3. Line = <<m>>
      BY <3>1, <3>2
    <3>4. Len(<<m>>) = 1
      OBVIOUS
    <3> QED
      BY <3>3, <3>4
  <2>6. Grown(<<>>, m, <<m>>) /\ <<>> \in Seq(Mail) /\ <<m>> \in Seq(Mail) /\ Distinct(<<>>)
        /\ \A i \in DOMAIN <<>> : <<>>[i].id # m.id
    <3>1. m \in Mail
      BY <2>3 DEF Mail
    <3>2. Len(<<>>) = 0 /\ Len(<<m>>) = 1 /\ <<m>>[1] = m
      OBVIOUS
    <3> QED
      BY <3>1, <3>2 DEF Grown, Distinct
  <2>7. LineOk(Line, w) /\ Truthful(Line, w, dirs[w.path])
    BY <2>3, <2>4, <2>5, <2>6, RefreshedKnown
  <2>8. WireTypes
    BY <1>1, <2>1, <2>3 DEF WireTypes
  <2>9. FileTypes
    BY <1>1, <1>2, <1>3, <2>1, <2>4, <2>5 DEF FileTypes
  <2> QED
    BY <2>1, <2>7, <2>8, <2>9 DEF WorkInv
<1>6. CASE "files" \notin uses
  <2> DEFINE w == [NewPane EXCEPT !.shown = Sorted(Paths)]
  <2>1. inbox = <<>> /\ pane = w /\ dirs = [p \in {Home} \cup Paths |-> IF p = Home THEN Paths ELSE {}]
    BY <1>6 DEF WorkInit
  <2>2. Sorted(Paths) \in Seq(Paths) /\ ToSet(Sorted(Paths)) = Paths
    <3>1. Paths \subseteq Nat /\ IsFiniteSet(Paths)
      BY LiveSessionAssumption, FS_Subset
    <3> QED
      BY <3>1, SortedFacts
  <2>3. w \in Panes /\ w.shown = Sorted(Paths) /\ w.requests = <<>> /\ w.path = Home /\ w.open
    <3>1. Sorted(Paths) \in Seq(Entries)
      BY <2>2 DEF Entries
    <3> QED
      BY <1>4, <3>1 DEF Panes
  <2>4. Line = <<>> /\ Len(<<>>) = 0 /\ DOMAIN <<>> = {}
    BY <1>1, <2>1 DEF Line
  <2>5. dirs[w.path] = Paths
    BY <2>1, <2>3
  <2> HIDE DEF w
  <2>6. LineOk(Line, w)
    BY <2>3, <2>4 DEF LineOk, Distinct
  <2>7. Truthful(Line, w, dirs[w.path])
    BY <2>2, <2>3, <2>4, <2>5 DEF Truthful
  <2>8. WireTypes
    BY <1>1, <2>1 DEF WireTypes
  <2>9. FileTypes
    BY <1>1, <1>2, <1>3, <2>1, <2>3, <2>4 DEF FileTypes
  <2> QED
    BY <2>1, <2>6, <2>7, <2>8, <2>9 DEF WorkInv
<1> QED
  BY <1>5, <1>6

LEMMA WorkSteps ==
  ASSUME WorkInv, [WorkNext]_workVars
  PROVE  WorkInv'
<1>1. FreshId \in Ids /\ pane.path \in Folders
  BY FreshFacts, PaneTypes DEF WorkInv, FileTypes
<1>2. CASE ClickRefresh
  <2>1. Counted /\ pane.open /\ Refresh(pane.path) /\ UNCHANGED <<outbox, serving, dirs, bash>>
    BY <1>2 DEF ClickRefresh, Click, Counted, terminal
  <2> QED
    BY <1>1, <2>1, ClickRefreshKeeps
<1>3. CASE ClickDirectory
  <2>1. Counted /\ pane.open /\ UNCHANGED <<outbox, serving, dirs, bash>>
    BY <1>3 DEF ClickDirectory, Click, Counted, terminal
  <2>2. PICK path \in Folders : Refresh(path)
    BY <1>3 DEF ClickDirectory, Folders
  <2> QED
    BY <2>1, <2>2, ClickRefreshKeeps
<1>4. CASE ClickChange
  <2>1. Counted /\ UNCHANGED <<outbox, serving, dirs, pane, bash>>
    BY <1>4 DEF ClickChange, Click, Counted, terminal, files
  <2>2. PICK type \in {"mkdir", "delete"}, name \in Files :
          Send([type |-> type, id |-> FreshId, path |-> pane.path, name |-> name])
    BY <1>4 DEF ClickChange
  <2>3. [type |-> type, id |-> FreshId, path |-> pane.path, name |-> name] \in Messages
    BY <1>1 DEF Messages
  <2> QED
    BY <2>1, <2>2, <2>3, SentKeeps
<1>5. CASE LoadBash
  <2>1. /\ Counted /\ UNCHANGED <<outbox, serving, dirs, pane>> /\ bash' = FreshId
        /\ Send([type |-> "shell-history", id |-> FreshId])
    BY <1>5 DEF LoadBash, Click, Counted, terminal, files
  <2>2. [type |-> "shell-history", id |-> FreshId] \in Messages
    BY <1>1 DEF Messages
  <2> QED
    BY <2>1, <2>2, SentKeeps
<1>6. CASE SendActivity
  <2>1. Counted /\ UNCHANGED <<outbox, serving, dirs, pane, bash>>
    BY <1>6 DEF SendActivity, Click, Counted, terminal, files
  <2>2. PICK on \in BOOLEAN : Send([type |-> "activity", id |-> FreshId, on |-> on])
    BY <1>6 DEF SendActivity
  <2>3. [type |-> "activity", id |-> FreshId, on |-> on] \in Messages
    BY <1>1 DEF Messages
  <2> QED
    BY <2>1, <2>2, <2>3, SentKeeps
<1>7. CASE ClickDisconnect
  BY <1>7, DisconnectKeeps
<1>8. CASE Type
  <2>1. Counted /\ UNCHANGED <<outbox, serving, dirs, pane, bash>>
    BY <1>8 DEF Type, Counted, files
  <2>2. PICK chunk \in Chunks : Send([type |-> "input", id |-> FreshId, data |-> chunk])
    BY <1>8 DEF Type
  <2>3. [type |-> "input", id |-> FreshId, data |-> chunk] \in Messages
    BY <1>1 DEF Messages
  <2> QED
    BY <2>1, <2>2, <2>3, SentKeeps
<1>9. CASE Deliver
  BY <1>9, DeliverKeeps
<1>10. CASE Handle
  <2>1. CASE HandleInput
    BY <2>1, HandledKeeps DEF HandleInput, Takes, files
  <2>2. CASE HandleActivity
    BY <2>2, HandledKeeps DEF HandleActivity, Takes, files, terminal
  <2>3. CASE HandleDisconnect
    BY <2>3, EndedKeeps DEF HandleDisconnect
  <2> QED
    BY <1>10, <2>1, <2>2, <2>3, BeginKeeps DEF Handle
<1>11. CASE Serve
  BY <1>11, OpenKeeps, ServeKeeps DEF Serve
<1>12. CASE SftpEnds
  BY <1>12, SftpEndsKeeps
<1>13. CASE Collect \/ Collected
  BY <1>13, StillWork DEF Collect, Collected, wire, files, terminal
<1>14. CASE TtyReads \/ TtyPrints \/ Show \/ TimePasses
  <2>1. UNCHANGED <<wire, files, bash, clicks, typed>>
    BY <1>14 DEF TtyReads, TtyPrints, Show, TimePasses
  <2> QED
    BY <2>1, StillWork DEF wire, files
<1>15. CASE Lose
  BY <1>15, EndedKeeps DEF Lose
<1>16. CASE UNCHANGED workVars
  BY <1>16, StillWork DEF workVars, wire, files, terminal
<1> QED
  BY <1>2, <1>3, <1>4, <1>5, <1>6, <1>7, <1>8, <1>9, <1>10, <1>11, <1>12, <1>13, <1>14, <1>15,
     <1>16 DEF WorkNext

\* The line of a session at work and its file pane agree in every state.
THEOREM WorkInvariant == WorkSpec => []WorkInv
<1>1. WorkInit => WorkInv
  BY WorkStarts
<1>2. WorkInv /\ [WorkNext]_workVars => WorkInv'
  BY WorkSteps
<1> QED
  BY <1>1, <1>2, PTL DEF WorkSpec

\* When nothing is on its way the file pane shows what is in its directory,
\* whatever pages, changes and moves overlapped before.
THEOREM PaneShowsItsDirectory == WorkSpec => []PaneIsTruthful
<1>1. WorkInv => PaneIsTruthful
  <2> SUFFICES ASSUME WorkInv, pane.open, Quiet, ~pane.failed
               PROVE  ToSet(pane.shown) = dirs[pane.path]
    BY DEF PaneIsTruthful
  <2>1. Line = <<>> /\ DOMAIN <<>> = {}
    BY DEF Quiet, Line
  <2> QED
    BY <2>1 DEF WorkInv, Truthful
<1> QED
  BY <1>1, WorkInvariant, PTL

-----------------------------------------------------------------------------
(* The capture of commands: the characters, and the state of a capture.    *)

Chars == UNION {ToSet(text) : text \in Chunks \cup Texts}
Candidates == [command : Seq(Chars), old : BOOLEAN, from : Nat, minEnd : Nat, entered : Nat]
Captures == [buffer : Seq(Chars), unsafe : BOOLEAN, output : Seq(Chars), pending : Seq(Candidates),
             dropped : Nat]
Records == [command : Seq(Chars), entered : Nat, end : Nat]

\* What the capture holds is the end of s, all that has been shown.
Follows(c, s) ==
  /\ Len(s) = c.dropped + Len(c.output)
  /\ \A i \in 1 .. Len(c.output) : c.output[i] = s[c.dropped + i]

\* In s, command and a newline end at place e.
Here(s, command, e) ==
  /\ e \in Len(command) + 1 .. Len(s) /\ s[e] = Newline
  /\ \A i \in 1 .. Len(command) : s[e - Len(command) - 1 + i] = command[i]

\* The positions of candidate p, in an output that has lost d characters.
Placed(p, d) ==
  /\ p.from = AtLeastZero(p.entered - Len(p.command) - Margin - d)
  /\ p.minEnd = AtLeastZero((p.entered + 1) - d)

\* The candidate has not been shown, as far as can be told from its positions.
Unseen(p, d, s) ==
  \A e \in Nat : Here(s, p.command, e) /\ e - Len(p.command) - 1 >= d
                   /\ e - Len(p.command) - 1 >= p.entered - Len(p.command) - Margin
                 => e =< p.entered

Waits(p, d, s) == Placed(p, d) /\ Unseen(p, d, s)

CaptureOk(c, s) ==
  /\ c \in Captures /\ Follows(c, s)
  /\ \A i \in DOMAIN c.pending : Waits(c.pending[i], c.dropped, s)

\* The commands in r are shown in s, one after the other, by place u at the latest.
RecordsOk(r, u, s) ==
  /\ r \in Seq(Records)
  /\ \A i \in DOMAIN r : /\ r[i].end > r[i].entered /\ r[i].end =< u
                         /\ Here(s, r[i].command, r[i].end)
  /\ \A i, j \in DOMAIN r : i < j => r[i].end < r[j].end - Len(r[j].command)

TerminalInv ==
  /\ screen \in Seq(Chars)
  /\ tty \in [keys : Seq(Chars), echo : BOOLEAN, out : Seq(Chars)]
  /\ CaptureOk(capture, screen)
  /\ RecordsOk(recorded, capture.dropped, screen)

-----------------------------------------------------------------------------
(* Texts.                                                                  *)

LEMMA TextTypes == Chunks \cup Texts \subseteq Seq(Chars)
<1>1. ASSUME NEW text \in Chunks \cup Texts PROVE text \in Seq(Chars)
  <2>1. text \in Seq(ToSet(text))
    BY LiveSessionAssumption
  <2>2. ToSet(text) \subseteq Chars
    BY DEF Chars
  <2> DEFINE T == ToSet(text)
  <2> HIDE DEF T
  <2>3. \A A, B : A \subseteq B => Seq(A) \subseteq Seq(B)
    OBVIOUS
  <2> QED
    BY <2>1, <2>2, <2>3
<1> QED
  BY <1>1

LEMMA CaptureConstants ==
  MaxCommand \in Nat /\ MaxPending \in Nat /\ MaxOutput \in Nat /\ Margin \in Nat
BY CaptureAssumption

\* Two texts of the same length with the same characters are the same.
LEMMA SameText ==
  ASSUME NEW S, NEW s \in Seq(S), NEW u \in Seq(S), Len(s) = Len(u),
         \A i \in 1 .. Len(s) : s[i] = u[i]
  PROVE  s = u
OBVIOUS

\* Where a command ends, from a position on.
LEMMA EndsAre ==
  ASSUME NEW s \in Seq(Chars), NEW command \in Seq(Chars), NEW from \in Nat, NEW e
  PROVE  e \in Ends(s, command, from) <=>
           Here(s, command, e) /\ e \in Nat /\ e >= from + Len(command) + 1
<1> DEFINE L == Len(command)
           C == Chars \cup {Newline}
           a == Append(command, Newline)
           w == SubSeq(s, e - L, e)
<1>1. /\ L \in Nat /\ Len(s) \in Nat /\ s \in Seq(C) /\ a \in Seq(C) /\ Len(a) = L + 1
      /\ a[L + 1] = Newline /\ \A i \in 1 .. L : a[i] = command[i]
  OBVIOUS
<1>2. ASSUME e \in L + 1 .. Len(s)
      PROVE  /\ w \in Seq(C) /\ Len(w) = L + 1
             /\ \A i \in 1 .. L + 1 : w[i] = s[e - L - 1 + i]
  <2> HIDE DEF a, C, L
  <2>1. e - L \in 1 .. Len(s) /\ e \in 1 .. Len(s)
    BY <1>1, <1>2
  <2>2. w \in Seq(C) /\ Len(w) = e - (e - L) + 1 /\ \A i \in 1 .. e - (e - L) + 1 : w[i] = s[(e - L) + i - 1]
    BY <1>1, <2>1
  <2> HIDE DEF w
  <2>3. e - (e - L) + 1 = L + 1 /\ \A i \in 1 .. L + 1 : (e - L) + i - 1 = e - L - 1 + i
    BY <1>1, <2>1
  <2> QED
    BY <2>2, <2>3
<1>3. ASSUME e \in L + 1 .. Len(s) PROVE w = a <=> Here(s, command, e)
  <2>1. e - L - 1 + (L + 1) = e /\ e \in Nat
    BY <1>1, <1>3
  <2>2. ASSUME w = a PROVE Here(s, command, e)
    <3>1. s[e] = Newline
      <4>1. w[L + 1] = s[e - L - 1 + (L + 1)]
        BY <1>1, <1>2, <1>3
      <4> QED
        BY <1>1, <2>1, <2>2, <4>1
    <3>2. ASSUME NEW i \in 1 .. L PROVE s[e - L - 1 + i] = command[i]
      <4>1. w[i] = s[e - L - 1 + i] /\ a[i] = command[i]
        BY <1>1, <1>2, <1>3
      <4> QED
        BY <2>2, <4>1
    <3> QED
      BY <1>3, <3>1, <3>2 DEF Here
  <2>3. ASSUME Here(s, command, e) PROVE w = a
    <3>1. ASSUME NEW i \in 1 .. L + 1 PROVE w[i] = a[i]
      <4>1. w[i] = s[e - L - 1 + i]
        BY <1>2, <1>3
      <4>2. CASE i = L + 1
        BY <1>1, <2>1, <2>3, <4>1, <4>2 DEF Here
      <4>3. CASE i \in 1 .. L
        BY <1>1, <2>3, <4>1, <4>3 DEF Here
      <4> HIDE DEF w, a
      <4> QED
        BY <1>1, <4>2, <4>3
    <3>2. w \in Seq(C) /\ Len(w) = Len(a)
      BY <1>1, <1>2, <1>3
    <3>3. \A i \in 1 .. Len(w) : w[i] = a[i]
      BY <1>1, <3>1, <3>2
    <3> HIDE DEF w, a, C
    <3> QED
      BY <1>1, <3>2, <3>3, SameText
  <2> QED
    BY <2>2, <2>3
<1>4. e \in Ends(s, command, from) <=> e \in from + L + 1 .. Len(s) /\ w = a
  BY DEF Ends
<1>5. e \in from + L + 1 .. Len(s) <=> e \in L + 1 .. Len(s) /\ e \in Nat /\ e >= from + L + 1
  BY <1>1
<1> QED
  BY <1>3, <1>4, <1>5 DEF Here

-----------------------------------------------------------------------------
(* Recursion over a text or a queue of candidates.                         *)

\* Every non-empty set of natural numbers has a least element.
LEMMA Least ==
  ASSUME NEW X, X \subseteq Nat, X # {}
  PROVE  \E k \in X : \A j \in X : k =< j
<1>1. IsWellFoundedOn(OpToRel(<, Nat), Nat)
  BY NatLessThanWellFounded
<1>2. PICK k \in X : \A j \in X : ~(<<j, k>> \in OpToRel(<, Nat))
  BY <1>1, WFMin
<1>3. \A j \in X : ~(j < k)
  BY <1>2 DEF OpToRel
<1> QED
  BY <1>3

LEMMA UpTo ==
  ASSUME NEW n \in Nat, NEW T, 0 \in T, \A i \in 1 .. n : i - 1 \in T => i \in T
  PROVE  0 .. n \subseteq T
<1> DEFINE Bad == (0 .. n) \ T
<1> SUFFICES ASSUME Bad # {} PROVE FALSE
  OBVIOUS
<1>1. Bad \subseteq Nat
  OBVIOUS
<1>2. PICK k \in Bad : \A j \in Bad : k =< j
  <2> HIDE DEF Bad
  <2> QED
    BY <1>1, Least
<1>3. k \in 1 .. n /\ k \notin T /\ k - 1 \in 0 .. n /\ ~(k =< k - 1)
  BY <1>2
<1>4. k - 1 \in T
  <2>1. k - 1 \notin Bad
    <3> HIDE DEF Bad
    <3> QED
      BY <1>2, <1>3
  <2> QED
    BY <1>3, <2>1
<1> QED
  BY <1>3, <1>4

\* f starts with a, and gets f[i] from f[i - 1] by step g[i], in S.
Runs(f, n, S, a, g) ==
  f \in [0 .. n -> S] /\ f[0] = a /\ \A i \in 1 .. n : f[i] = g[i][f[i - 1]]

\* When each step maps S to S there is one.
LEMMA RunExists ==
  ASSUME NEW n \in Nat, NEW S, NEW a \in S, NEW g, g \in [1 .. n -> [S -> S]]
  PROVE  \E f : Runs(f, n, S, a, g)
<1> DEFINE Solves(f, k) == f[0] = a /\ \A i \in 1 .. k : f[i] = g[i][f[i - 1]]
           T == {k \in 0 .. n : \E f \in [0 .. n -> S] : Solves(f, k)}
<1>1. 0 \in T
  <2> DEFINE f == [i \in 0 .. n |-> a]
  <2>1. f \in [0 .. n -> S] /\ f[0] = a /\ 0 \in 0 .. n
    OBVIOUS
  <2> HIDE DEF f
  <2>2. Solves(f, 0)
    BY <2>1
  <2> QED
    BY <2>1, <2>2
<1>2. ASSUME NEW k \in 1 .. n, k - 1 \in T PROVE k \in T
  <2>1. PICK f \in [0 .. n -> S] : Solves(f, k - 1)
    BY <1>2
  <2> DEFINE h == [i \in 0 .. n |-> IF i < k THEN f[i] ELSE g[k][f[k - 1]]]
  <2>2. k - 1 \in 0 .. n /\ f[k - 1] \in S /\ g[k][f[k - 1]] \in S
    BY <2>1
  <2>3. h \in [0 .. n -> S] /\ (\A i \in 0 .. n : i < k => h[i] = f[i]) /\ h[k] = g[k][f[k - 1]]
    BY <2>1, <2>2
  <2> HIDE DEF h
  <2>4. h[0] = a
    BY <2>1, <2>3
  <2>5. ASSUME NEW i \in 1 .. k PROVE h[i] = g[i][h[i - 1]]
    <3>1. h[i - 1] = f[i - 1]
      BY <2>3
    <3>2. CASE i = k
      BY <2>3, <3>1, <3>2
    <3>3. CASE i # k
      <4>1. i \in 1 .. k - 1 /\ i < k /\ i \in 0 .. n
        BY <3>3
      <4>2. f[i] = g[i][f[i - 1]] /\ h[i] = f[i]
        BY <2>1, <2>3, <4>1
      <4> QED
        BY <3>1, <4>2
    <3> QED
      BY <3>2, <3>3
  <2> QED
    BY <2>3, <2>4, <2>5
<1>3. n \in T
  <2> HIDE DEF T
  <2>1. 0 .. n \subseteq T
    BY <1>1, <1>2, UpTo
  <2> QED
    BY <2>1
<1> QED
  BY <1>3 DEF Runs

\* What is left after old candidates have been dropped was there before.
LEMMA PruneOk ==
  ASSUME NEW q \in Seq(Candidates)
  PROVE  /\ Prune(q) \in Seq(Candidates)
         /\ \A j \in DOMAIN Prune(q) : \E i \in DOMAIN q : Prune(q)[j] = q[i]
<1> DEFINE n == Len(q)
           E == {q[i] : i \in DOMAIN q}
           S == Seq(E)
           Left(f) == f = [i \in 0 .. n |-> IF i = 0 THEN <<>>
                             ELSE IF q[i].old THEN f[i - 1] ELSE Append(f[i - 1], q[i])]
           g == [i \in 1 .. n |-> [x \in S |-> IF q[i].old THEN x ELSE Append(x, q[i])]]
<1>1. n \in Nat /\ DOMAIN q = 1 .. n /\ E \subseteq Candidates /\ \A i \in 1 .. n : q[i] \in E
  OBVIOUS
<1>2. <<>> \in S /\ g \in [1 .. n -> [S -> S]]
  <2>1. ASSUME NEW i \in 1 .. n, NEW x \in S PROVE Append(x, q[i]) \in S
    <3>1. q[i] \in E
      BY <1>1
    <3> HIDE DEF E
    <3> QED
      BY <3>1
  <2> HIDE DEF S
  <2>2. \A i \in 1 .. n : [x \in S |-> IF q[i].old THEN x ELSE Append(x, q[i])] \in [S -> S]
    BY <2>1
  <2>3. <<>> \in S
    BY DEF S
  <2> QED
    BY <2>2, <2>3
<1>3. \E f : Left(f)
  <2> HIDE DEF S
  <2>1. PICK f : Runs(f, n, S, <<>>, g)
    <3>1. n \in Nat /\ <<>> \in S /\ g \in [1 .. n -> [S -> S]]
      BY <1>1, <1>2
    <3> HIDE DEF g, n, E
    <3> QED
      BY <3>1, RunExists
  <2>4. f \in [0 .. n -> S] /\ f[0] = <<>> /\ \A i \in 1 .. n : f[i] = g[i][f[i - 1]]
    <3> HIDE DEF g, n, E
    <3> QED
      BY <2>1 DEF Runs
  <2>2. ASSUME NEW i \in 1 .. n PROVE f[i] = IF q[i].old THEN f[i - 1] ELSE Append(f[i - 1], q[i])
    <3>1. i - 1 \in 0 .. n
      BY <1>1
    <3>2. f[i - 1] \in S
      BY <2>4, <3>1
    <3> QED
      BY <2>4, <3>2
  <2>3. f = [i \in 0 .. n |-> IF i = 0 THEN <<>>
                             ELSE IF q[i].old THEN f[i - 1] ELSE Append(f[i - 1], q[i])]
    <3>1. \A i \in 0 .. n : f[i] = IF i = 0 THEN <<>>
                             ELSE IF q[i].old THEN f[i - 1] ELSE Append(f[i - 1], q[i])
      <4>1. \A i \in 0 .. n : i = 0 \/ i \in 1 .. n
        BY <1>1
      <4> HIDE DEF n, g, E
      <4> QED
        BY <2>4, <2>2, <4>1
    <3> QED
      BY <2>4, <3>1
  <2> QED
    BY <2>3
<1>4. PICK f : f = CHOOSE h : Left(h)
  OBVIOUS
<1>5. Left(f) /\ Prune(q) = f[n]
  <2>1. Left(f)
    BY <1>3, <1>4
  <2> QED
    BY <1>4, <2>1 DEF Prune
<1>6. f[0] = <<>> /\ \A i \in 1 .. n : f[i] = IF q[i].old THEN f[i - 1] ELSE Append(f[i - 1], q[i])
  <2>1. 0 \in 0 .. n /\ \A i \in 1 .. n : i \in 0 .. n /\ i # 0
    BY <1>1
  <2>2. \A i \in 0 .. n : f[i] = IF i = 0 THEN <<>>
                             ELSE IF q[i].old THEN f[i - 1] ELSE Append(f[i - 1], q[i])
    BY <1>5
  <2> QED
    BY <2>1, <2>2
<1>7. f[n] \in S
  <2> DEFINE T == {i \in 0 .. n : f[i] \in S}
  <2> HIDE DEF S
  <2>1. 0 \in T
    BY <1>1, <1>2, <1>6
  <2>2. ASSUME NEW i \in 1 .. n, i - 1 \in T PROVE i \in T
    <3>1. f[i - 1] \in S /\ q[i] \in E /\ i \in 0 .. n
      BY <1>1, <2>2
    <3>2. Append(f[i - 1], q[i]) \in S
      <4> HIDE DEF E
      <4> QED
        BY <3>1 DEF S
    <3> QED
      BY <1>6, <3>1, <3>2
  <2> HIDE DEF T
  <2>3. 0 .. n \subseteq T
    <3> HIDE DEF n
    <3> QED
      BY <1>1, <2>1, <2>2, UpTo
  <2> QED
    BY <1>1, <2>3 DEF T
<1> DEFINE r == Prune(q)
<1>8. r \in Seq(E)
  BY <1>5, <1>7
<1> HIDE DEF r
<1>9. ASSUME NEW j \in DOMAIN r PROVE \E i \in DOMAIN q : r[j] = q[i]
  <2>1. r[j] \in E
    <3> HIDE DEF E
    <3> QED
      BY <1>8
  <2> QED
    BY <2>1
<1>10. r \in Seq(Candidates)
  <2> HIDE DEF E
  <2> QED
    BY <1>1, <1>8
<1> QED
  BY <1>9, <1>10 DEF r

-----------------------------------------------------------------------------
(* What is typed.                                                          *)

LEMMA AtLeastZeroIs ==
  ASSUME NEW n \in Int
  PROVE  AtLeastZero(n) \in Nat /\ AtLeastZero(n) >= n /\ (n >= 0 => AtLeastZero(n) = n)
BY DEF AtLeastZero

LEMMA CandidateOk ==
  ASSUME NEW s \in Seq(Chars), NEW c, CaptureOk(c, s)
  PROVE  Candidate(c) \in Candidates /\ Waits(Candidate(c), c.dropped, s)
<1> DEFINE L == Len(c.buffer)
           O == Len(c.output)
           d == c.dropped
           S == Seq(Chars)
           p == Candidate(c)
<1>1. c \in Captures /\ Len(s) = d + O
  BY DEF CaptureOk, Follows
<1>2. c.buffer \in S /\ L \in Nat /\ O \in Nat /\ d \in Nat /\ Margin \in Nat
  BY <1>1, CaptureConstants DEF Captures
<1>3. p = [command |-> c.buffer, old |-> FALSE, from |-> AtLeastZero(O - L - Margin),
           minEnd |-> O + 1, entered |-> d + O]
  BY DEF Candidate
<1>4. Len(p.command) = L
  BY <1>3
<1> HIDE DEF p, L, O, d, S
<1>5. AtLeastZero(O - L - Margin) \in Nat /\ AtLeastZero(O + 1) = O + 1
  <2>1. O - L - Margin \in Int /\ O + 1 \in Int /\ O + 1 >= 0
    BY <1>2
  <2> QED
    BY <2>1, AtLeastZeroIs
<1>6. p \in Candidates
  <2>1. O + 1 \in Nat /\ d + O \in Nat
    BY <1>2
  <2>2. p \in [command : S, old : BOOLEAN, from : Nat, minEnd : Nat, entered : Nat]
    BY <1>2, <1>3, <1>5, <2>1
  <2> QED
    BY <2>2 DEF Candidates, S
<1>7. p.entered = Len(s) /\ Len(s) \in Nat
  BY <1>1, <1>2, <1>3
<1>8. Placed(p, d)
  <2>1. (d + O) - L - Margin - d = O - L - Margin /\ ((d + O) + 1) - d = O + 1
    BY <1>2
  <2> QED
    BY <1>3, <1>4, <1>5, <2>1 DEF Placed
<1>9. Unseen(p, d, s)
  BY <1>7 DEF Unseen, Here
<1>10. p \in Candidates /\ Waits(p, d, s)
  BY <1>6, <1>7, <1>8, <1>9 DEF Waits
<1> QED
  BY <1>10 DEF p, d

LEMMA CaptureParts ==
  ASSUME NEW c \in Captures
  PROVE  /\ c.buffer \in Seq(Chars) /\ c.unsafe \in BOOLEAN /\ c.output \in Seq(Chars)
         /\ c.pending \in Seq(Candidates) /\ c.dropped \in Nat
         /\ Len(c.output) \in Nat /\ Len(c.pending) \in Nat /\ DOMAIN c.pending = 1 .. Len(c.pending)
<1>1. /\ c.buffer \in Seq(Chars) /\ c.unsafe \in BOOLEAN /\ c.output \in Seq(Chars)
      /\ c.pending \in Seq(Candidates) /\ c.dropped \in Nat
  BY DEF Captures
<1> QED
  BY <1>1

\* A capture whose output is the same follows the same.
LEMMA StillOk ==
  ASSUME NEW s, NEW c, CaptureOk(c, s), NEW b, b \in Captures,
         b.output = c.output, b.dropped = c.dropped,
         \A i \in DOMAIN b.pending : Waits(b.pending[i], c.dropped, s)
  PROVE  CaptureOk(b, s) /\ b.dropped >= c.dropped
<1>1. c.dropped \in Nat
  BY CaptureParts DEF CaptureOk
<1> QED
  BY <1>1 DEF CaptureOk, Follows

LEMMA BufferOk ==
  ASSUME NEW s, NEW c, CaptureOk(c, s), NEW text \in Seq(Chars), NEW u \in BOOLEAN
  PROVE  LET b == [c EXCEPT !.buffer = text, !.unsafe = u]
         IN  CaptureOk(b, s) /\ b.dropped >= c.dropped
<1> DEFINE S == Seq(Chars)
           Q == Seq(Candidates)
           b == [c EXCEPT !.buffer = text, !.unsafe = u]
<1>1. c \in [buffer : S, unsafe : BOOLEAN, output : S, pending : Q, dropped : Nat] /\ text \in S
  BY DEF CaptureOk, Captures
<1> HIDE DEF S, Q
<1>2. /\ b \in [buffer : S, unsafe : BOOLEAN, output : S, pending : Q, dropped : Nat]
      /\ b.output = c.output /\ b.dropped = c.dropped /\ b.pending = c.pending
  BY <1>1
<1> HIDE DEF b
<1>3. b \in Captures
  BY <1>2 DEF Captures, S, Q
<1>4. CaptureOk(b, s) /\ b.dropped >= c.dropped
  BY <1>2, <1>3, StillOk DEF CaptureOk
<1> QED
  BY <1>4 DEF b

LEMMA PendingOk ==
  ASSUME NEW s, NEW c, CaptureOk(c, s), NEW q \in Seq(Candidates),
         \A i \in DOMAIN q : Waits(q[i], c.dropped, s)
  PROVE  LET b == [c EXCEPT !.pending = q]
         IN  CaptureOk(b, s) /\ b.dropped = c.dropped
<1> DEFINE S == Seq(Chars)
           Q == Seq(Candidates)
           b == [c EXCEPT !.pending = q]
<1>1. c \in [buffer : S, unsafe : BOOLEAN, output : S, pending : Q, dropped : Nat] /\ q \in Q
  BY DEF CaptureOk, Captures
<1> HIDE DEF S, Q
<1>2. /\ b \in [buffer : S, unsafe : BOOLEAN, output : S, pending : Q, dropped : Nat]
      /\ b.output = c.output /\ b.dropped = c.dropped /\ b.pending = q
  BY <1>1
<1> HIDE DEF b
<1>3. b \in Captures
  BY <1>2 DEF Captures, S, Q
<1>4. CaptureOk(b, s) /\ b.dropped = c.dropped
  BY <1>2, <1>3, StillOk
<1> QED
  BY <1>4 DEF b

LEMMA EnterOk ==
  ASSUME NEW s \in Seq(Chars), NEW c, CaptureOk(c, s)
  PROVE  CaptureOk(Enter(c), s) /\ Enter(c).dropped >= c.dropped
<1> DEFINE left    == Prune(c.pending)
           p       == Candidate(c)
           waiting == Append(left, p)
           kept    == IF Len(waiting) > MaxPending THEN Tail(waiting) ELSE waiting
<1>1. c \in Captures /\ c.pending \in Seq(Candidates) /\ Follows(c, s)
      /\ \A i \in DOMAIN c.pending : Waits(c.pending[i], c.dropped, s)
  BY DEF CaptureOk, Captures
<1>2. left \in Seq(Candidates) /\ \A j \in DOMAIN left : Waits(left[j], c.dropped, s)
  BY <1>1, PruneOk
<1>3. p \in Candidates /\ Waits(p, c.dropped, s)
  BY CandidateOk
<1> HIDE DEF left, p
<1>4. waiting \in Seq(Candidates) /\ \A j \in DOMAIN waiting : Waits(waiting[j], c.dropped, s)
  BY <1>2, <1>3
<1>5. Len(waiting) > 0
  BY <1>2
<1> HIDE DEF waiting
<1>6. kept \in Seq(Candidates) /\ \A j \in DOMAIN kept : Waits(kept[j], c.dropped, s)
  <2>1. Tail(waiting) \in Seq(Candidates) /\ \A j \in DOMAIN Tail(waiting) :
          j + 1 \in DOMAIN waiting /\ Tail(waiting)[j] = waiting[j + 1]
    BY <1>4, <1>5
  <2> QED
    BY <1>4, <2>1
<1> HIDE DEF kept
<1>7. Enter(c) = ResetLine(c) \/ Enter(c) = ResetLine([c EXCEPT !.pending = kept])
  BY DEF kept, waiting, left, p, Enter
<1>8. ASSUME NEW b, CaptureOk(b, s), b.dropped = c.dropped
      PROVE  CaptureOk(ResetLine(b), s) /\ ResetLine(b).dropped >= c.dropped
  <2>1. <<>> \in Seq(Chars) /\ FALSE \in BOOLEAN
    OBVIOUS
  <2> QED
    BY <1>8, <2>1, BufferOk DEF ResetLine
<1>9. /\ CaptureOk([c EXCEPT !.pending = kept], s)
      /\ [c EXCEPT !.pending = kept].dropped = c.dropped
  BY <1>6, PendingOk
<1> QED
  BY <1>7, <1>8, <1>9

LEMMA ResetOk ==
  ASSUME NEW s, NEW c, CaptureOk(c, s)
  PROVE  CaptureOk(Reset(c), s) /\ Reset(c).dropped >= c.dropped
<1> DEFINE d == c.dropped + Len(c.output)
           S == Seq(Chars)
           Q == Seq(Candidates)
           none == <<>>
           b == [EmptyCapture EXCEPT !.dropped = d]
<1>1. c.dropped \in Nat /\ d \in Nat /\ d >= c.dropped /\ Len(s) = d
  <2>1. c.dropped \in Nat /\ Len(c.output) \in Nat
    BY CaptureParts DEF CaptureOk
  <2> QED
    BY <2>1 DEF CaptureOk, Follows
<1>2. Reset(c) = b
  BY DEF Reset
<1>3. none \in S /\ none \in Q /\ Len(none) = 0
  OBVIOUS
<1>4. EmptyCapture = [buffer |-> none, unsafe |-> FALSE, output |-> none, pending |-> none,
                      dropped |-> 0]
  BY DEF EmptyCapture
<1> HIDE DEF d, S, Q, none
<1>5. /\ b \in [buffer : S, unsafe : BOOLEAN, output : S, pending : Q, dropped : Nat]
      /\ b.output = none /\ b.pending = none /\ b.dropped = d
  BY <1>1, <1>3, <1>4
<1> HIDE DEF b
<1>6. b \in Captures
  BY <1>5 DEF Captures, S, Q
<1>7. Follows(b, s)
  BY <1>1, <1>3, <1>5 DEF Follows
<1>8. DOMAIN b.pending = {}
  BY <1>5 DEF none
<1> QED
  BY <1>1, <1>2, <1>5, <1>6, <1>7, <1>8 DEF CaptureOk

LEMMA KeyOk ==
  ASSUME NEW s \in Seq(Chars), NEW c, CaptureOk(c, s), NEW k \in Chars
  PROVE  CaptureOk(Key(c, k), s) /\ Key(c, k).dropped >= c.dropped
<1>1. c \in Captures /\ c.buffer \in Seq(Chars) /\ c.unsafe \in BOOLEAN /\ c.dropped \in Nat
  BY CaptureParts DEF CaptureOk
<1> DEFINE front  == IF c.buffer = <<>> THEN c.buffer ELSE Front(c.buffer)
           longer == Append(c.buffer, k)
<1>2. front \in Seq(Chars) /\ longer \in Seq(Chars)
  BY <1>1 DEF Front
<1>3. \/ Key(c, k) = [c EXCEPT !.buffer = front]
      \/ Key(c, k) = [c EXCEPT !.buffer = longer]
      \/ Key(c, k) = [c EXCEPT !.unsafe = TRUE]
      \/ Key(c, k) = Enter(c) \/ Key(c, k) = Reset(c)
  BY DEF Key
<1> HIDE DEF front, longer
<1>4. ASSUME NEW text \in Seq(Chars)
      PROVE  [c EXCEPT !.buffer = text] = [c EXCEPT !.buffer = text, !.unsafe = c.unsafe]
  BY <1>1 DEF Captures
<1>5. [c EXCEPT !.unsafe = TRUE] = [c EXCEPT !.buffer = c.buffer, !.unsafe = TRUE]
  BY <1>1 DEF Captures
<1>6. ASSUME NEW text \in Seq(Chars), Key(c, k) = [c EXCEPT !.buffer = text]
      PROVE  CaptureOk(Key(c, k), s) /\ Key(c, k).dropped >= c.dropped
  <2> DEFINE b == [c EXCEPT !.buffer = text, !.unsafe = c.unsafe]
  <2>1. CaptureOk(b, s) /\ b.dropped >= c.dropped
    BY <1>1, <1>6, BufferOk
  <2>2. Key(c, k) = b
    BY <1>4, <1>6
  <2> QED
    BY <2>1, <2>2
<1>7. CASE Key(c, k) = [c EXCEPT !.unsafe = TRUE]
  <2> DEFINE b == [c EXCEPT !.buffer = c.buffer, !.unsafe = TRUE]
  <2>1. CaptureOk(b, s) /\ b.dropped >= c.dropped
    BY <1>1, BufferOk
  <2>2. Key(c, k) = b
    BY <1>5, <1>7
  <2> QED
    BY <2>1, <2>2
<1>8. CASE Key(c, k) = Enter(c)
  BY <1>8, EnterOk
<1>9. CASE Key(c, k) = Reset(c)
  BY <1>9, ResetOk
<1> QED
  BY <1>2, <1>3, <1>6, <1>7, <1>8, <1>9

LEMMA FedOk ==
  ASSUME NEW s \in Seq(Chars), NEW c, CaptureOk(c, s), NEW chunk \in Seq(Chars)
  PROVE  CaptureOk(Feed(c, chunk), s) /\ Feed(c, chunk).dropped >= c.dropped
<1> DEFINE n == Len(chunk)
           S == {b \in Captures : CaptureOk(b, s) /\ b.dropped >= c.dropped}
           Fed(f) == f = [i \in 0 .. n |-> IF i = 0 THEN c ELSE Key(f[i - 1], chunk[i])]
           g == [i \in 1 .. n |-> [x \in S |-> Key(x, chunk[i])]]
<1>1. n \in Nat /\ \A i \in 1 .. n : chunk[i] \in Chars
  OBVIOUS
<1>2. c \in S
  BY CaptureParts DEF CaptureOk
<1>3. ASSUME NEW i \in 1 .. n, NEW x \in S PROVE Key(x, chunk[i]) \in S
  <2> DEFINE y == Key(x, chunk[i])
  <2>1. CaptureOk(x, s) /\ x.dropped >= c.dropped /\ x.dropped \in Nat /\ c.dropped \in Nat
    BY <1>2, <1>3, CaptureParts DEF CaptureOk
  <2>2. CaptureOk(y, s) /\ y.dropped >= x.dropped
    BY <1>1, <1>3, <2>1, KeyOk
  <2> HIDE DEF y
  <2>3. y \in Captures /\ y.dropped \in Nat
    BY <2>2, CaptureParts DEF CaptureOk
  <2>4. y \in S
    BY <2>1, <2>2, <2>3
  <2> QED
    BY <2>4 DEF y
<1>4. g \in [1 .. n -> [S -> S]]
  <2> HIDE DEF S, n
  <2>1. \A i \in 1 .. n : [x \in S |-> Key(x, chunk[i])] \in [S -> S]
    BY <1>3
  <2> QED
    BY <2>1
<1>5. \E f : Fed(f)
  <2> HIDE DEF S
  <2>1. PICK f : Runs(f, n, S, c, g)
    <3> HIDE DEF g, n
    <3> QED
      BY <1>1, <1>2, <1>4, RunExists
  <2>2. f \in [0 .. n -> S] /\ f[0] = c /\ \A i \in 1 .. n : f[i] = g[i][f[i - 1]]
    <3> HIDE DEF g, n
    <3> QED
      BY <2>1 DEF Runs
  <2>3. ASSUME NEW i \in 1 .. n PROVE f[i] = Key(f[i - 1], chunk[i])
    <3>1. f[i - 1] \in S
      BY <1>1, <2>2
    <3> QED
      BY <2>2, <3>1
  <2>4. \A i \in 0 .. n : f[i] = IF i = 0 THEN c ELSE Key(f[i - 1], chunk[i])
    <3>1. \A i \in 0 .. n : i = 0 \/ i \in 1 .. n
      BY <1>1
    <3> HIDE DEF n, g
    <3> QED
      BY <2>2, <2>3, <3>1
  <2>5. Fed(f)
    <3> HIDE DEF n, g
    <3> QED
      BY <2>2, <2>4
  <2> QED
    BY <2>5
<1>6. PICK f : f = CHOOSE h : Fed(h)
  OBVIOUS
<1>7. Fed(f)
  BY <1>5, <1>6
<1>8. f[0] = c /\ \A i \in 1 .. n : f[i] = Key(f[i - 1], chunk[i])
  <2>1. 0 \in 0 .. n /\ \A i \in 1 .. n : i \in 0 .. n /\ i # 0
    BY <1>1
  <2>2. \A i \in 0 .. n : f[i] = IF i = 0 THEN c ELSE Key(f[i - 1], chunk[i])
    BY <1>7
  <2> QED
    BY <2>1, <2>2
<1>9. f[n] \in S
  <2> DEFINE T == {i \in 0 .. n : f[i] \in S}
  <2> HIDE DEF S
  <2>1. 0 \in T
    BY <1>1, <1>2, <1>8
  <2>2. ASSUME NEW i \in 1 .. n, i - 1 \in T PROVE i \in T
    <3>1. f[i - 1] \in S /\ i \in 0 .. n
      BY <1>1, <2>2
    <3> QED
      BY <1>3, <1>8, <3>1
  <2> HIDE DEF T
  <2>3. 0 .. n \subseteq T
    <3> HIDE DEF n
    <3> QED
      BY <1>1, <2>1, <2>2, UpTo
  <2> QED
    BY <1>1, <2>3 DEF T
<1>10. Feed(c, chunk) = ResetLine(c) \/ Feed(c, chunk) = f[n]
  BY <1>6 DEF Feed
<1>11. CaptureOk(ResetLine(c), s) /\ ResetLine(c).dropped >= c.dropped
  <2>1. <<>> \in Seq(Chars) /\ FALSE \in BOOLEAN
    OBVIOUS
  <2> QED
    BY <2>1, BufferOk DEF ResetLine
<1> HIDE DEF n
<1> QED
  BY <1>9, <1>10, <1>11

-----------------------------------------------------------------------------
(* What is shown.                                                          *)

\* The positions of a candidate after n more characters have left.
LEMMA MovedOk ==
  ASSUME NEW p \in Candidates, NEW d \in Nat, NEW n \in Nat, Placed(p, d)
  PROVE  LET q == Moved(p, n)
         IN  q \in Candidates /\ Placed(q, d + n) /\ q.command = p.command /\ q.entered = p.entered
<1> DEFINE q == Moved(p, n)
           S == Seq(Chars)
<1>1. /\ p \in [command : S, old : BOOLEAN, from : Nat, minEnd : Nat, entered : Nat]
      /\ Len(p.command) \in Nat /\ Margin \in Nat
  BY CaptureConstants DEF Candidates
<1> HIDE DEF S
<1>2. AtLeastZero(p.from - n) \in Nat /\ AtLeastZero(p.minEnd - n) \in Nat
  BY <1>1, AtLeastZeroIs
<1>3. /\ q \in [command : S, old : BOOLEAN, from : Nat, minEnd : Nat, entered : Nat]
      /\ q.command = p.command /\ q.entered = p.entered
      /\ q.from = AtLeastZero(p.from - n) /\ q.minEnd = AtLeastZero(p.minEnd - n)
  BY <1>1, <1>2 DEF Moved
<1> HIDE DEF q
<1>4. ASSUME NEW x \in Int PROVE AtLeastZero(AtLeastZero(x - d) - n) = AtLeastZero(x - (d + n))
  BY DEF AtLeastZero
<1>5. PICK x \in Int : x = p.entered - Len(p.command) - Margin
  BY <1>1
<1>6. PICK z \in Int : z = p.entered + 1
  BY <1>1
<1>7. p.from = AtLeastZero(x - d) /\ p.minEnd = AtLeastZero(z - d)
  BY <1>5, <1>6, Zenon DEF Placed
<1>8. q.from = AtLeastZero(x - (d + n)) /\ q.minEnd = AtLeastZero(z - (d + n))
  <2>1. /\ AtLeastZero(AtLeastZero(x - d) - n) = AtLeastZero(x - (d + n))
        /\ AtLeastZero(AtLeastZero(z - d) - n) = AtLeastZero(z - (d + n))
    BY <1>4
  <2> QED
    BY <1>3, <1>7, <2>1
<1>9. Placed(q, d + n)
  BY <1>3, <1>5, <1>6, <1>8, Zenon DEF Placed
<1>10. q \in Candidates /\ Placed(q, d + n) /\ q.command = p.command /\ q.entered = p.entered
  BY <1>3, <1>9 DEF Candidates, S
<1> QED
  BY <1>10 DEF q

\* The capture after n more characters have left.
LEMMA ShiftOk ==
  ASSUME NEW s \in Seq(Chars), NEW c \in Captures, NEW n \in 0 .. Len(c.output), Follows(c, s),
         \A i \in DOMAIN c.pending : Placed(c.pending[i], c.dropped)
  PROVE  LET b == Shift(c, n)
         IN  /\ b \in Captures /\ Follows(b, s) /\ b.dropped = c.dropped + n
             /\ DOMAIN b.pending = DOMAIN c.pending
             /\ \A i \in DOMAIN b.pending : /\ Placed(b.pending[i], b.dropped)
                                            /\ b.pending[i].command = c.pending[i].command
                                            /\ b.pending[i].entered = c.pending[i].entered
<1> DEFINE b == Shift(c, n)
           out == SubSeq(c.output, n + 1, Len(c.output))
           moved == [i \in DOMAIN c.pending |-> Moved(c.pending[i], n)]
           S == Seq(Chars)
           Q == Seq(Candidates)
           m == Len(c.pending)
           O == Len(c.output)
<1>1. /\ c.output \in S /\ c.pending \in Q /\ c.dropped \in Nat
      /\ O \in Nat /\ m \in Nat /\ DOMAIN c.pending = 1 .. m
  BY CaptureParts
<1>2. out \in S /\ Len(out) = O - n /\ \A i \in 1 .. O - n : out[i] = c.output[n + i]
  BY <1>1
<1>3. /\ moved \in Q /\ DOMAIN moved = DOMAIN c.pending
      /\ \A i \in DOMAIN moved : /\ Placed(moved[i], c.dropped + n)
                                 /\ moved[i].command = c.pending[i].command
                                 /\ moved[i].entered = c.pending[i].entered
  <2>1. \A i \in 1 .. m : c.pending[i] \in Candidates
    BY <1>1
  <2>2. n \in Nat
    BY <1>1
  <2>3. ASSUME NEW i \in 1 .. m
        PROVE  LET q == Moved(c.pending[i], n)
               IN  /\ q \in Candidates /\ Placed(q, c.dropped + n)
                   /\ q.command = c.pending[i].command /\ q.entered = c.pending[i].entered
    BY <1>1, <2>1, <2>2, MovedOk
  <2> HIDE DEF m
  <2>4. DOMAIN moved = 1 .. m /\ \A i \in 1 .. m : moved[i] = Moved(c.pending[i], n)
    BY <1>1
  <2>5. moved \in Seq(Candidates)
    BY <1>1, <2>3, <2>4
  <2> HIDE DEF moved
  <2> QED
    BY <1>1, <2>3, <2>4, <2>5
<1> HIDE DEF moved, out, S, Q, O
<1>4. /\ b \in [buffer : S, unsafe : BOOLEAN, output : S, pending : Q, dropped : Nat]
      /\ b.output = out /\ b.dropped = c.dropped + n /\ b.pending = moved
  <2>1. c \in [buffer : S, unsafe : BOOLEAN, output : S, pending : Q, dropped : Nat]
    BY DEF Captures, S, Q
  <2>2. b = [c EXCEPT !.output = out, !.dropped = c.dropped + n, !.pending = moved]
    BY DEF Shift, out, moved
  <2>3. c.dropped + n \in Nat
    BY <1>1
  <2> HIDE DEF b
  <2> QED
    BY <1>2, <1>3, <2>1, <2>2, <2>3
<1> HIDE DEF b
<1>5. b \in Captures
  BY <1>4 DEF Captures, S, Q
<1>6. Follows(b, s)
  <2>1. Len(s) = c.dropped + O /\ \A i \in 1 .. O : c.output[i] = s[c.dropped + i]
    BY DEF Follows, O
  <2>2. ASSUME NEW i \in 1 .. O - n PROVE b.output[i] = s[b.dropped + i]
    <3>1. n + i \in 1 .. O /\ c.dropped + (n + i) = (c.dropped + n) + i
      BY <1>1
    <3> QED
      BY <1>2, <1>4, <2>1, <3>1
  <2>3. Len(s) = (c.dropped + n) + (O - n)
    BY <1>1, <2>1
  <2> QED
    BY <1>2, <1>4, <2>2, <2>3 DEF Follows
<1>7. /\ b \in Captures /\ Follows(b, s) /\ b.dropped = c.dropped + n
      /\ DOMAIN b.pending = DOMAIN c.pending
      /\ \A i \in DOMAIN b.pending : /\ Placed(b.pending[i], b.dropped)
                                     /\ b.pending[i].command = c.pending[i].command
                                     /\ b.pending[i].entered = c.pending[i].entered
  BY <1>3, <1>4, <1>5, <1>6
<1> QED
  BY <1>7 DEF b

\* What the capture holds shows a command where the screen does.
LEMMA HereFollows ==
  ASSUME NEW s \in Seq(Chars), NEW c \in Captures, Follows(c, s), NEW command \in Seq(Chars),
         NEW e \in Nat, e >= Len(command) + 1
  PROVE  Here(c.output, command, e) <=> Here(s, command, c.dropped + e)
<1> DEFINE L == Len(command)
           O == Len(c.output)
           d == c.dropped
<1>1. L \in Nat /\ O \in Nat /\ d \in Nat /\ e >= L + 1
  BY CaptureParts
<1>2. Len(s) = d + O /\ \A i \in 1 .. O : c.output[i] = s[d + i]
  BY DEF Follows
<1>3. Here(c.output, command, e) <=>
        /\ e \in L + 1 .. O /\ c.output[e] = Newline
        /\ \A i \in 1 .. L : c.output[e - L - 1 + i] = command[i]
  BY DEF Here
<1>4. Here(s, command, d + e) <=>
        /\ d + e \in L + 1 .. Len(s) /\ s[d + e] = Newline
        /\ \A i \in 1 .. L : s[(d + e) - L - 1 + i] = command[i]
  BY DEF Here
<1> HIDE DEF L, O, d
<1>5. e \in L + 1 .. O <=> d + e \in L + 1 .. Len(s)
  BY <1>1, <1>2
<1>6. ASSUME e \in L + 1 .. O PROVE c.output[e] = s[d + e]
  BY <1>1, <1>2, <1>6
<1>7. ASSUME e \in L + 1 .. O, NEW i \in 1 .. L
      PROVE  c.output[e - L - 1 + i] = s[(d + e) - L - 1 + i]
  <2>1. e - L - 1 + i \in 1 .. O /\ d + (e - L - 1 + i) = (d + e) - L - 1 + i
    BY <1>1, <1>7
  <2> QED
    BY <1>2, <2>1
<1>8. ASSUME e \in L + 1 .. O
      PROVE  (\A i \in 1 .. L : c.output[e - L - 1 + i] = command[i]) <=>
               (\A i \in 1 .. L : s[(d + e) - L - 1 + i] = command[i])
  BY <1>7, <1>8
<1>9. Here(c.output, command, e) <=> Here(s, command, d + e)
  BY <1>3, <1>4, <1>5, <1>6, <1>8
<1> QED
  BY <1>9 DEF d

\* What has been looked at so far: the screen shows s, the capture is c.
Looks == [used : Nat, left : Seq(Candidates), confirmed : Seq(Records)]

LookOk(acc, c, s) ==
  /\ acc \in Looks /\ acc.used =< Len(c.output)
  /\ \A i \in DOMAIN acc.left : /\ Placed(acc.left[i], c.dropped)
                                /\ Unseen(acc.left[i], c.dropped + acc.used, s)
  /\ RecordsOk(acc.confirmed, c.dropped + acc.used, s)
  /\ \A i \in DOMAIN acc.confirmed :
       acc.confirmed[i].end - Len(acc.confirmed[i].command) > c.dropped

\* The ends that count for a candidate are places of the screen.
LEMMA MatchesAre ==
  ASSUME NEW s \in Seq(Chars), NEW c \in Captures, Follows(c, s), NEW p \in Candidates,
         Placed(p, c.dropped), NEW used \in Nat, NEW e \in Nat
  PROVE  e \in Matches(c.output, p, used) <=>
           /\ Here(s, p.command, c.dropped + e) /\ c.dropped + e > p.entered
           /\ e - Len(p.command) - 1 >= used
           /\ (c.dropped + e) - Len(p.command) - 1 >= p.entered - Len(p.command) - Margin
<1> DEFINE L == Len(p.command)
           d == c.dropped
           E == p.entered
           from == IF p.from > used THEN p.from ELSE used
<1>1. p.command \in Seq(Chars) /\ p.from \in Nat /\ p.minEnd \in Nat /\ p.entered \in Nat
  BY DEF Candidates
<1>2. L \in Nat /\ d \in Nat /\ E \in Nat /\ Margin \in Nat /\ c.output \in Seq(Chars)
  BY <1>1, CaptureConstants, CaptureParts
<1>3. from \in Nat
  BY <1>1
<1>4. e \in Matches(c.output, p, used) <=> e \in Ends(c.output, p.command, from) /\ e >= p.minEnd
  BY DEF Matches
<1>5. e \in Ends(c.output, p.command, from) <=>
        Here(c.output, p.command, e) /\ e >= from + L + 1
  <2> HIDE DEF from
  <2> QED
    BY <1>1, <1>2, <1>3, EndsAre
<1>6. e >= L + 1 => (Here(c.output, p.command, e) <=> Here(s, p.command, d + e))
  BY <1>1, HereFollows
<1>7. p.from = AtLeastZero(E - L - Margin - d) /\ p.minEnd = AtLeastZero((E + 1) - d)
  BY DEF Placed
<1> HIDE DEF L, d, E, from
<1>8. e >= from + L + 1 <=> e >= p.from + L + 1 /\ e >= used + L + 1
  BY <1>1, <1>2 DEF from
<1>9. e >= p.from + L + 1 <=> e >= L + 1 /\ (d + e) - L - 1 >= E - L - Margin
  BY <1>2, <1>7 DEF AtLeastZero
<1>10. e >= p.minEnd <=> d + e > E
  BY <1>2, <1>7 DEF AtLeastZero
<1>11. /\ e >= used + L + 1 => e >= L + 1
       /\ e >= used + L + 1 <=> e - L - 1 >= used
  BY <1>2
<1>12. e \in Matches(c.output, p, used) <=>
         /\ Here(s, p.command, d + e) /\ d + e > E
         /\ e - L - 1 >= used
         /\ (d + e) - L - 1 >= E - L - Margin
  BY <1>4, <1>5, <1>6, <1>8, <1>9, <1>10, <1>11
<1> QED
  BY <1>12 DEF L, d, E

LEMMA LookKeepsLeft ==
  ASSUME NEW s \in Seq(Chars), NEW c \in Captures, Follows(c, s), NEW p \in Candidates,
         Placed(p, c.dropped), NEW used \in Nat, Matches(c.output, p, used) = {}
  PROVE  Unseen(p, c.dropped + used, s)
<1> SUFFICES ASSUME NEW e \in Nat, Here(s, p.command, e),
                    e - Len(p.command) - 1 >= c.dropped + used,
                    e - Len(p.command) - 1 >= p.entered - Len(p.command) - Margin,
                    e > p.entered
             PROVE  FALSE
  <2>1. p.entered \in Nat
    BY DEF Candidates
  <2> QED
    BY <2>1 DEF Unseen
<1> DEFINE L == Len(p.command)
           d == c.dropped
<1>1. L \in Nat /\ d \in Nat /\ e - L - 1 >= d + used
  BY CaptureParts DEF Candidates
<1> HIDE DEF L
<1>2. PICK x \in Nat : e = d + x
  <2> HIDE DEF d
  <2>1. e - d \in Nat /\ e = d + (e - d)
    BY <1>1
  <2> QED
    BY <2>1
<1>3. x - L - 1 >= used
  <2> HIDE DEF d
  <2> QED
    BY <1>1, <1>2
<1>4. x \in Matches(c.output, p, used)
  BY <1>2, <1>3, MatchesAre DEF L
<1> QED
  BY <1>4

LEMMA FirstIs ==
  ASSUME NEW s \in Seq(Chars), NEW p \in Candidates, NEW used \in Nat, Matches(s, p, used) # {}
  PROVE  First(Matches(s, p, used)) \in Matches(s, p, used) /\ Matches(s, p, used) \subseteq Nat
<1> DEFINE ends == Matches(s, p, used)
<1>1. ends \subseteq Nat
  <2>1. p.command \in Seq(Chars) /\ (IF p.from > used THEN p.from ELSE used) \in Nat
    BY DEF Candidates
  <2> DEFINE from == IF p.from > used THEN p.from ELSE used
  <2>2. ends \subseteq Ends(s, p.command, from)
    BY DEF Matches
  <2> HIDE DEF from, ends
  <2>3. \A e \in Ends(s, p.command, from) : e \in Nat
    BY <2>1, EndsAre DEF from
  <2> QED
    BY <2>2, <2>3
<1> HIDE DEF ends
<1>2. PICK k \in ends : \A j \in ends : k =< j
  BY <1>1, Least DEF ends
<1>3. First(ends) \in ends
  BY <1>2 DEF First
<1> QED
  BY <1>1, <1>3 DEF ends

\* A record that ends after the others joins them.
LEMMA RecordsJoin ==
  ASSUME NEW s \in Seq(Chars), NEW r, NEW u \in Nat, RecordsOk(r, u, s),
         NEW q \in Records, q.end > q.entered, Here(s, q.command, q.end),
         q.end - Len(q.command) > u
  PROVE  RecordsOk(Append(r, q), q.end, s)
<1> DEFINE a == Append(r, q)
           n == Len(r)
<1>1. r \in Seq(Records) /\ n \in Nat /\ DOMAIN r = 1 .. n
  BY DEF RecordsOk
<1>2. /\ a \in Seq(Records) /\ Len(a) = n + 1 /\ DOMAIN a = 1 .. n + 1
      /\ a[n + 1] = q /\ \A i \in 1 .. n : a[i] = r[i]
  BY <1>1
<1>3. q.end \in Nat /\ Len(q.command) \in Nat /\ u < q.end
  BY DEF Records
<1>4. \A i \in 1 .. n : /\ r[i] \in Records /\ r[i].end \in Nat
                        /\ r[i].end > r[i].entered /\ r[i].end =< u /\ Here(s, r[i].command, r[i].end)
  <2>1. \A i \in 1 .. n : r[i] \in Records
    BY <1>1
  <2> QED
    BY <1>1, <2>1 DEF RecordsOk, Records
<1> HIDE DEF a, n
<1>5. ASSUME NEW i \in DOMAIN a
      PROVE  a[i].end > a[i].entered /\ a[i].end =< q.end /\ Here(s, a[i].command, a[i].end)
  <2>1. CASE i = n + 1
    BY <1>2, <1>3, <2>1
  <2>2. CASE i \in 1 .. n
    BY <1>2, <1>3, <1>4, <2>2
  <2> QED
    BY <1>1, <1>2, <2>1, <2>2
<1>6. ASSUME NEW i \in DOMAIN a, NEW j \in DOMAIN a, i < j
      PROVE  a[i].end < a[j].end - Len(a[j].command)
  <2>1. i \in 1 .. n /\ j \in 1 .. n + 1
    BY <1>1, <1>2, <1>6
  <2>2. CASE j = n + 1
    BY <1>2, <1>3, <1>4, <2>1, <2>2
  <2>3. CASE j \in 1 .. n
    BY <1>1, <1>2, <1>6, <2>1, <2>3 DEF RecordsOk
  <2> QED
    BY <1>1, <2>1, <2>2, <2>3
<1> QED
  BY <1>2, <1>5, <1>6 DEF RecordsOk, a

LEMMA LookKeeps ==
  ASSUME NEW s \in Seq(Chars), NEW c \in Captures, Follows(c, s), NEW p \in Candidates,
         Placed(p, c.dropped), NEW acc, LookOk(acc, c, s)
  PROVE  LookOk(Look(c, acc, p), c, s)
<1> DEFINE d == c.dropped
           ends == Matches(c.output, p, acc.used)
           first == First(ends)
           Q == Seq(Candidates)
           R == Seq(Records)
<1>1. /\ acc \in [used : Nat, left : Q, confirmed : R]
      /\ d \in Nat /\ Len(c.output) \in Nat /\ c.output \in Seq(Chars)
      /\ p.command \in Seq(Chars) /\ Len(p.command) \in Nat /\ p.entered \in Nat
  BY CaptureParts DEF LookOk, Looks, Candidates
<1>2. CASE ends = {}
  <2> DEFINE left == Append(acc.left, p)
             now == [acc EXCEPT !.left = left]
  <2>1. Look(c, acc, p) = now
    BY <1>2 DEF Look
  <2>2. /\ acc.left \in Seq(Candidates) /\ left \in Q
        /\ \A i \in DOMAIN left : (i \in DOMAIN acc.left /\ left[i] = acc.left[i]) \/ left[i] = p
    BY <1>1
  <2> HIDE DEF left, Q, R
  <2>3. /\ now \in [used : Nat, left : Q, confirmed : R]
        /\ now.used = acc.used /\ now.confirmed = acc.confirmed /\ now.left = left
    BY <1>1, <2>2
  <2>4. Unseen(p, d + acc.used, s)
    BY <1>1, <1>2, LookKeepsLeft
  <2> HIDE DEF now, ends
  <2>5. \A i \in DOMAIN left : Placed(left[i], d) /\ Unseen(left[i], d + acc.used, s)
    BY <2>2, <2>4 DEF LookOk
  <2>6. LookOk(now, c, s)
    BY <2>3, <2>5 DEF LookOk, Looks, Q, R
  <2> QED
    BY <2>1, <2>6
<1>3. CASE ends # {}
  <2> DEFINE q == [command |-> p.command, entered |-> p.entered, end |-> d + first]
             confirmed == Append(acc.confirmed, q)
             now == [acc EXCEPT !.used = first, !.confirmed = confirmed]
  <2>1. Look(c, acc, p) = now
    BY <1>3 DEF Look
  <2>2. first \in ends /\ first \in Nat
    BY <1>1, <1>3, FirstIs
  <2>3. /\ Here(s, p.command, d + first) /\ d + first > p.entered
        /\ first - Len(p.command) - 1 >= acc.used
    BY <1>1, <2>2, MatchesAre
  <2> HIDE DEF first, ends
  <2>4. q \in Records /\ q.command = p.command /\ q.entered = p.entered /\ q.end = d + first
    <3>1. d + first \in Nat
      BY <1>1, <2>2
    <3> QED
      BY <1>1, <3>1 DEF Records
  <2> HIDE DEF q
  <2>5. /\ q.end - Len(q.command) > d + acc.used
        /\ q.end - Len(q.command) > d
        /\ first > acc.used /\ d + first > d + acc.used
    BY <1>1, <2>2, <2>3, <2>4
  <2>6. RecordsOk(confirmed, d + first, s)
    <3>1. d + acc.used \in Nat /\ RecordsOk(acc.confirmed, d + acc.used, s)
      BY <1>1 DEF LookOk
    <3> QED
      BY <2>3, <2>4, <2>5, <3>1, RecordsJoin
  <2>7. \A i \in DOMAIN confirmed : confirmed[i].end - Len(confirmed[i].command) > d
    <3>1. /\ acc.confirmed \in Seq(Records)
          /\ \A i \in DOMAIN confirmed :
               (i \in DOMAIN acc.confirmed /\ confirmed[i] = acc.confirmed[i]) \/ confirmed[i] = q
      BY <1>1
    <3> HIDE DEF confirmed
    <3> QED
      BY <2>5, <3>1 DEF LookOk
  <2> HIDE DEF confirmed
  <2>8. confirmed \in R
    BY <2>6 DEF RecordsOk
  <2> HIDE DEF Q, R
  <2>9. /\ now \in [used : Nat, left : Q, confirmed : R]
        /\ now.used = first /\ now.confirmed = confirmed /\ now.left = acc.left
    BY <1>1, <2>2, <2>8
  <2> HIDE DEF now
  <2>10. first =< Len(c.output)
    <3>1. d + first =< Len(s)
      BY <2>3 DEF Here
    <3> QED
      BY <1>1, <2>2, <3>1 DEF Follows
  <2>11. \A i \in DOMAIN acc.left : Placed(acc.left[i], d) /\ Unseen(acc.left[i], d + first, s)
    <3> SUFFICES ASSUME NEW i \in DOMAIN acc.left PROVE Unseen(acc.left[i], d + first, s)
      BY DEF LookOk
    <3> DEFINE l == acc.left[i]
    <3>1. Unseen(l, d + acc.used, s)
      BY DEF LookOk
    <3>2. l.command \in Seq(Chars) /\ Len(l.command) \in Nat
      <4>1. acc.left \in Seq(Candidates)
        BY <1>1 DEF Q
      <4>2. l \in Candidates
        BY <4>1
      <4> QED
        BY <4>2 DEF Candidates
    <3> HIDE DEF l
    <3>3. ASSUME NEW e \in Nat, e - Len(l.command) - 1 >= d + first
          PROVE  e - Len(l.command) - 1 >= d + acc.used
      BY <1>1, <2>2, <2>5, <3>2, <3>3
    <3>4. Unseen(l, d + first, s)
      BY <3>1, <3>3 DEF Unseen
    <3> QED
      BY <3>4 DEF l
  <2>12. LookOk(now, c, s)
    BY <2>6, <2>7, <2>9, <2>10, <2>11 DEF LookOk, Looks, Q, R
  <2> QED
    BY <2>1, <2>12
<1> QED
  BY <1>2, <1>3

\* The candidates in waiting are looked at one after the other.
LEMMA LookedOk ==
  ASSUME NEW s \in Seq(Chars), NEW c \in Captures, Follows(c, s),
         NEW waiting \in Seq(Candidates), \A i \in DOMAIN waiting : Placed(waiting[i], c.dropped)
  PROVE  LET seen[n \in 0 .. Len(waiting)] ==
               IF n = 0 THEN Unlooked ELSE Look(c, seen[n - 1], waiting[n])
         IN  LookOk(seen[Len(waiting)], c, s)
<1> DEFINE n == Len(waiting)
           S == {acc \in Looks : LookOk(acc, c, s)}
           Seen(f) == f = [i \in 0 .. n |-> IF i = 0 THEN Unlooked ELSE Look(c, f[i - 1], waiting[i])]
           g == [i \in 1 .. n |-> [x \in S |-> Look(c, x, waiting[i])]]
           seen == CHOOSE f : Seen(f)
<1>1. n \in Nat /\ \A i \in 1 .. n : waiting[i] \in Candidates /\ Placed(waiting[i], c.dropped)
  OBVIOUS
<1>2. Unlooked \in S
  <2> DEFINE Q == Seq(Candidates)
             R == Seq(Records)
             none == <<>>
  <2>1. /\ none \in Q /\ none \in R /\ DOMAIN none = {}
        /\ c.dropped \in Nat /\ Len(c.output) \in Nat
    BY CaptureParts
  <2>2. Unlooked = [used |-> 0, left |-> none, confirmed |-> none]
    BY DEF Unlooked
  <2>3. RecordsOk(none, c.dropped + 0, s)
    <3>1. none \in Seq(Records) /\ DOMAIN none = {}
      BY <2>1
    <3> HIDE DEF none
    <3> QED
      BY <3>1 DEF RecordsOk
  <2> HIDE DEF Q, R, none
  <2>4. /\ Unlooked \in [used : Nat, left : Q, confirmed : R]
        /\ Unlooked.used = 0 /\ Unlooked.left = none /\ Unlooked.confirmed = none
    BY <2>1, <2>2
  <2>5. LookOk(Unlooked, c, s)
    BY <2>1, <2>3, <2>4 DEF LookOk, Looks, Q, R
  <2> QED
    BY <2>5 DEF LookOk
<1>3. ASSUME NEW i \in 1 .. n, NEW x \in S PROVE Look(c, x, waiting[i]) \in S
  <2>1. LookOk(Look(c, x, waiting[i]), c, s)
    <3>1. LookOk(x, c, s) /\ waiting[i] \in Candidates /\ Placed(waiting[i], c.dropped)
      BY <1>1, <1>3
    <3> QED
      BY <3>1, LookKeeps
  <2> QED
    BY <2>1 DEF LookOk
<1>4. g \in [1 .. n -> [S -> S]]
  <2> HIDE DEF S, n
  <2>1. \A i \in 1 .. n : [x \in S |-> Look(c, x, waiting[i])] \in [S -> S]
    BY <1>3
  <2> QED
    BY <2>1
<1>5. \E f : Seen(f)
  <2> HIDE DEF S
  <2>1. PICK f : Runs(f, n, S, Unlooked, g)
    <3> HIDE DEF g, n
    <3> QED
      BY <1>1, <1>2, <1>4, RunExists
  <2>2. f \in [0 .. n -> S] /\ f[0] = Unlooked /\ \A i \in 1 .. n : f[i] = g[i][f[i - 1]]
    <3> HIDE DEF g, n
    <3> QED
      BY <2>1 DEF Runs
  <2>3. ASSUME NEW i \in 1 .. n PROVE f[i] = Look(c, f[i - 1], waiting[i])
    <3>1. f[i - 1] \in S
      BY <1>1, <2>2
    <3> QED
      BY <2>2, <3>1
  <2>4. \A i \in 0 .. n : f[i] = IF i = 0 THEN Unlooked ELSE Look(c, f[i - 1], waiting[i])
    <3>1. \A i \in 0 .. n : i = 0 \/ i \in 1 .. n
      BY <1>1
    <3> HIDE DEF n, g
    <3> QED
      BY <2>2, <2>3, <3>1
  <2>5. Seen(f)
    <3> HIDE DEF n, g
    <3> QED
      BY <2>2, <2>4
  <2> QED
    BY <2>5
<1>6. PICK f : f = seen
  OBVIOUS
<1>7. Seen(f)
  BY <1>5, <1>6
<1>8. f[0] = Unlooked /\ \A i \in 1 .. n : f[i] = Look(c, f[i - 1], waiting[i])
  <2>1. 0 \in 0 .. n /\ \A i \in 1 .. n : i \in 0 .. n /\ i # 0
    BY <1>1
  <2>2. \A i \in 0 .. n : f[i] = IF i = 0 THEN Unlooked ELSE Look(c, f[i - 1], waiting[i])
    BY <1>7
  <2> QED
    BY <2>1, <2>2
<1>9. f[n] \in S
  <2> DEFINE T == {i \in 0 .. n : f[i] \in S}
  <2> HIDE DEF S
  <2>1. 0 \in T
    BY <1>1, <1>2, <1>8
  <2>2. ASSUME NEW i \in 1 .. n, i - 1 \in T PROVE i \in T
    <3>1. f[i - 1] \in S /\ i \in 0 .. n
      BY <1>1, <2>2
    <3> QED
      BY <1>3, <1>8, <3>1
  <2> HIDE DEF T
  <2>3. 0 .. n \subseteq T
    <3> HIDE DEF n
    <3> QED
      BY <1>1, <2>1, <2>2, UpTo
  <2> QED
    BY <1>1, <2>3 DEF T
<1>10. LookOk(seen[n], c, s)
  <2> HIDE DEF seen
  <2> QED
    BY <1>6, <1>9
<1> QED
  BY <1>10

LEMMA HereGrows ==
  ASSUME NEW s \in Seq(Chars), NEW text \in Seq(Chars), NEW command \in Seq(Chars), NEW e,
         Here(s, command, e)
  PROVE  Here(s \o text, command, e)
<1> DEFINE t == s \o text
           L == Len(command)
<1>1. /\ Len(s) \in Nat /\ Len(text) \in Nat /\ L \in Nat /\ Len(t) = Len(s) + Len(text)
      /\ \A i \in 1 .. Len(s) : t[i] = s[i]
  OBVIOUS
<1>2. /\ e \in L + 1 .. Len(s) /\ s[e] = Newline
      /\ \A i \in 1 .. L : s[e - L - 1 + i] = command[i]
  BY DEF Here
<1> HIDE DEF t
<1>3. e \in L + 1 .. Len(t) /\ t[e] = Newline
  <2> HIDE DEF L
  <2> QED
    BY <1>1, <1>2
<1>4. ASSUME NEW i \in 1 .. L PROVE t[e - L - 1 + i] = command[i]
  <2>1. e - L - 1 + i \in 1 .. Len(s)
    <3> HIDE DEF L
    <3> QED
      BY <1>1, <1>2
  <2> QED
    BY <1>1, <1>2, <2>1
<1>5. Here(t, command, e)
  BY <1>3, <1>4 DEF Here
<1> QED
  BY <1>5 DEF t

\* Records of the screen before, and then those of what has been shown since.
LEMMA RecordsAppend ==
  ASSUME NEW s \in Seq(Chars), NEW text \in Seq(Chars), NEW r, NEW q,
         NEW u \in Nat, NEW d \in Nat, NEW v \in Nat, u =< d, d =< v,
         RecordsOk(r, u, s), RecordsOk(q, v, s \o text),
         \A i \in DOMAIN q : q[i].end - Len(q[i].command) > d
  PROVE  RecordsOk(r \o q, v, s \o text)
<1> DEFINE a == r \o q
           n == Len(r)
           m == Len(q)
           t == s \o text
<1>1. r \in Seq(Records) /\ q \in Seq(Records) /\ n \in Nat /\ m \in Nat
      /\ DOMAIN r = 1 .. n /\ DOMAIN q = 1 .. m
  BY DEF RecordsOk
<1>2. /\ a \in Seq(Records) /\ Len(a) = n + m /\ DOMAIN a = 1 .. n + m
      /\ \A i \in 1 .. n : a[i] = r[i]
      /\ \A i \in 1 .. m : a[n + i] = q[i]
  BY <1>1
<1>3. \A i \in 1 .. n : /\ r[i] \in Records /\ r[i].end \in Nat
                        /\ r[i].end > r[i].entered /\ r[i].end =< u /\ Here(t, r[i].command, r[i].end)
  <2> TAKE i \in 1 .. n
  <2>1. r[i] \in Records
    BY <1>1
  <2>2. r[i].end > r[i].entered /\ r[i].end =< u /\ Here(s, r[i].command, r[i].end)
    BY <1>1 DEF RecordsOk
  <2>3. r[i].command \in Seq(Chars) /\ r[i].end \in Nat
    BY <2>1 DEF Records
  <2>4. Here(t, r[i].command, r[i].end)
    BY <2>2, <2>3, HereGrows
  <2> HIDE DEF t
  <2> QED
    BY <2>1, <2>2, <2>3, <2>4
<1>4. \A i \in 1 .. m : /\ q[i] \in Records /\ q[i].end \in Nat /\ q[i].end - Len(q[i].command) > d
                        /\ q[i].end > q[i].entered /\ q[i].end =< v /\ Here(t, q[i].command, q[i].end)
  <2> TAKE i \in 1 .. m
  <2>1. q[i] \in Records
    BY <1>1
  <2>2. q[i].end > q[i].entered /\ q[i].end =< v /\ Here(t, q[i].command, q[i].end)
    BY <1>1 DEF RecordsOk
  <2> HIDE DEF t
  <2> QED
    BY <1>1, <2>1, <2>2 DEF Records
<1> HIDE DEF a, n, m, t
<1>5. \A i \in DOMAIN a : i \in 1 .. n \/ \E k \in 1 .. m : i = n + k
  <2> TAKE i \in DOMAIN a
  <2>1. i \in 1 .. n \/ (i - n \in 1 .. m /\ i = n + (i - n))
    BY <1>1, <1>2
  <2> QED
    BY <2>1
<1>6. ASSUME NEW i \in DOMAIN a
      PROVE  a[i].end > a[i].entered /\ a[i].end =< v /\ Here(t, a[i].command, a[i].end)
  <2>1. CASE i \in 1 .. n
    BY <1>2, <1>3, <2>1
  <2>2. ASSUME NEW k \in 1 .. m, i = n + k
        PROVE  a[i].end > a[i].entered /\ a[i].end =< v /\ Here(t, a[i].command, a[i].end)
    BY <1>2, <1>4, <2>2
  <2> QED
    BY <1>5, <2>1, <2>2
<1>7. ASSUME NEW i \in DOMAIN a, NEW j \in DOMAIN a, i < j
      PROVE  a[i].end < a[j].end - Len(a[j].command)
  <2>1. CASE i \in 1 .. n /\ j \in 1 .. n
    BY <1>1, <1>2, <1>7, <2>1 DEF RecordsOk
  <2>2. ASSUME i \in 1 .. n, NEW k \in 1 .. m, j = n + k
        PROVE  a[i].end < a[j].end - Len(a[j].command)
    <3>1. a[i].end \in Nat /\ a[i].end =< u
      BY <1>2, <1>3, <2>2
    <3>2. a[j].end - Len(a[j].command) > d /\ a[j].end \in Nat /\ Len(a[j].command) \in Nat
      <4>1. a[j] = q[k] /\ q[k] \in Records
        BY <1>2, <1>4, <2>2
      <4>2. Len(q[k].command) \in Nat
        BY <4>1 DEF Records
      <4> QED
        BY <1>4, <4>1, <4>2
    <3> QED
      BY <3>1, <3>2
  <2>3. ASSUME NEW k \in 1 .. m, i = n + k, NEW l \in 1 .. m, j = n + l
        PROVE  a[i].end < a[j].end - Len(a[j].command)
    <3>1. k < l
      BY <1>1, <1>7, <2>3
    <3> QED
      BY <1>1, <1>2, <2>3, <3>1 DEF RecordsOk
  <2>4. j \in 1 .. n => i \in 1 .. n
    BY <1>1, <1>2, <1>7
  <2> QED
    BY <1>5, <2>1, <2>2, <2>3, <2>4
<1>8. RecordsOk(a, v, t)
  BY <1>2, <1>6, <1>7 DEF RecordsOk
<1> QED
  BY <1>8 DEF a, t

LEMMA GrownOk ==
  ASSUME NEW s \in Seq(Chars), NEW text \in Seq(Chars), NEW c \in Captures, Follows(c, s)
  PROVE  LET b == [c EXCEPT !.output = @ \o text]
         IN  /\ b \in Captures /\ Follows(b, s \o text) /\ b.dropped = c.dropped
             /\ b.pending = c.pending
<1> DEFINE S == Seq(Chars)
           Q == Seq(Candidates)
           out == c.output \o text
           b == [c EXCEPT !.output = out]
           O == Len(c.output)
           d == c.dropped
           t == s \o text
<1>1. c \in [buffer : S, unsafe : BOOLEAN, output : S, pending : Q, dropped : Nat]
  BY DEF Captures
<1>2. /\ out \in S /\ Len(out) = O + Len(text) /\ O \in Nat /\ Len(text) \in Nat /\ d \in Nat
      /\ \A i \in 1 .. O : out[i] = c.output[i]
      /\ \A i \in 1 .. Len(text) : out[O + i] = text[i]
  BY <1>1
<1>3. /\ Len(t) = Len(s) + Len(text) /\ \A i \in 1 .. Len(s) : t[i] = s[i]
      /\ \A i \in 1 .. Len(text) : t[Len(s) + i] = text[i]
  OBVIOUS
<1>4. Len(s) = d + O /\ \A i \in 1 .. O : c.output[i] = s[d + i]
  BY DEF Follows
<1> HIDE DEF S, Q, out, t
<1>5. /\ b \in [buffer : S, unsafe : BOOLEAN, output : S, pending : Q, dropped : Nat]
      /\ b.output = out /\ b.dropped = d /\ b.pending = c.pending
  BY <1>1, <1>2
<1> HIDE DEF b, O, d
<1>6. ASSUME NEW i \in 1 .. O + Len(text) PROVE out[i] = t[d + i]
  <2>1. CASE i \in 1 .. O
    <3>1. d + i \in 1 .. Len(s)
      BY <1>2, <1>4, <2>1
    <3> QED
      BY <1>2, <1>3, <1>4, <2>1, <3>1
  <2>2. CASE i \notin 1 .. O
    <3>1. i - O \in 1 .. Len(text) /\ i = O + (i - O) /\ d + i = Len(s) + (i - O)
      BY <1>2, <1>4, <2>2
    <3> QED
      BY <1>2, <1>3, <3>1
  <2> QED
    BY <2>1, <2>2
<1>7. Follows(b, t)
  <2>1. Len(t) = d + Len(out)
    BY <1>2, <1>3, <1>4
  <2> QED
    BY <1>2, <1>5, <1>6, <2>1 DEF Follows
<1>8. b \in Captures
  BY <1>5 DEF Captures, S, Q
<1> QED
  BY <1>5, <1>7, <1>8 DEF b, out, t, d

\* After an output event the capture is as it should be, and so are the records.
LEMMA ObservedOk ==
  ASSUME NEW s \in Seq(Chars), NEW text \in Seq(Chars), NEW c, CaptureOk(c, s),
         NEW r, RecordsOk(r, c.dropped, s)
  PROVE  LET o == Observed(c, text)
         IN  /\ CaptureOk(o.capture, s \o text)
             /\ RecordsOk(r \o o.confirmed, o.capture.dropped, s \o text)
<1> DEFINE t       == s \o text
           grown   == [c EXCEPT !.output = @ \o text]
           n       == AtLeastZero(Len(grown.output) - MaxOutput)
           kept    == Shift(grown, n)
           waiting == Prune(kept.pending)
           seen    == CHOOSE seen : seen =
                        [i \in 0 .. Len(waiting) |->
                           IF i = 0 THEN Unlooked ELSE Look(kept, seen[i - 1], waiting[i])]
           over    == seen[Len(waiting)]
           looked  == [kept EXCEPT !.pending = over.left]
           after   == Shift(looked, over.used)
<1>1. /\ Observed(c, text).capture = after
      /\ Observed(c, text).confirmed = over.confirmed
  BY DEF Observed
<1>2. /\ c \in Captures /\ Follows(c, s) /\ c.dropped \in Nat
      /\ \A i \in DOMAIN c.pending : Placed(c.pending[i], c.dropped)
  BY CaptureParts DEF CaptureOk, Waits
<1>3. t \in Seq(Chars)
  OBVIOUS
<1>4. /\ grown \in Captures /\ Follows(grown, t) /\ grown.dropped = c.dropped
      /\ grown.pending = c.pending
  BY <1>2, GrownOk
<1> HIDE DEF t, grown
<1>5. n \in 0 .. Len(grown.output)
  <2>1. Len(grown.output) \in Nat /\ MaxOutput \in Nat
    BY <1>4, CaptureConstants, CaptureParts
  <2> QED
    BY <2>1 DEF AtLeastZero
<1>6. /\ kept \in Captures /\ Follows(kept, t) /\ kept.dropped = c.dropped + n
      /\ \A i \in DOMAIN kept.pending : Placed(kept.pending[i], kept.dropped)
  <2> HIDE DEF n
  <2>1. \A i \in DOMAIN grown.pending : Placed(grown.pending[i], grown.dropped)
    BY <1>2, <1>4
  <2> QED
    BY <1>3, <1>4, <1>5, <2>1, ShiftOk
<1>7. n \in Nat /\ kept.dropped \in Nat /\ c.dropped =< kept.dropped
  <2>1. Len(grown.output) \in Nat
    BY <1>4, CaptureParts
  <2>2. n \in Nat
    BY <1>5, <2>1
  <2> HIDE DEF n, kept
  <2> QED
    BY <1>2, <1>6, <2>2
<1> HIDE DEF kept
<1>8. /\ waiting \in Seq(Candidates)
      /\ \A j \in DOMAIN waiting : Placed(waiting[j], kept.dropped)
  <2>1. kept.pending \in Seq(Candidates)
    BY <1>6, CaptureParts
  <2> QED
    BY <1>6, <2>1, PruneOk
<1> HIDE DEF waiting
<1>9. LookOk(over, kept, t)
  BY <1>3, <1>6, <1>8, LookedOk
<1> HIDE DEF over
<1>10. /\ over.used \in Nat /\ over.used =< Len(kept.output) /\ over.left \in Seq(Candidates)
       /\ \A i \in DOMAIN over.left : /\ Placed(over.left[i], kept.dropped)
                                      /\ Unseen(over.left[i], kept.dropped + over.used, t)
       /\ RecordsOk(over.confirmed, kept.dropped + over.used, t)
       /\ \A i \in DOMAIN over.confirmed :
            over.confirmed[i].end - Len(over.confirmed[i].command) > kept.dropped
  BY <1>9 DEF LookOk, Looks
<1>11. /\ looked \in Captures /\ Follows(looked, t) /\ looked.dropped = kept.dropped
       /\ looked.pending = over.left /\ looked.output = kept.output
  <2> DEFINE S == Seq(Chars)
             Q == Seq(Candidates)
  <2>1. /\ kept \in [buffer : S, unsafe : BOOLEAN, output : S, pending : Q, dropped : Nat]
        /\ over.left \in Q
    BY <1>6, <1>10 DEF Captures
  <2> HIDE DEF S, Q
  <2>2. /\ looked \in [buffer : S, unsafe : BOOLEAN, output : S, pending : Q, dropped : Nat]
        /\ looked.output = kept.output /\ looked.dropped = kept.dropped
        /\ looked.pending = over.left
    BY <2>1
  <2> HIDE DEF looked
  <2>3. Follows(looked, t)
    BY <1>6, <2>2 DEF Follows
  <2> QED
    BY <2>2, <2>3 DEF Captures, S, Q
<1> HIDE DEF looked
<1>12. /\ after \in Captures /\ Follows(after, t) /\ after.dropped = kept.dropped + over.used
       /\ DOMAIN after.pending = DOMAIN over.left
       /\ \A i \in DOMAIN after.pending : /\ Placed(after.pending[i], after.dropped)
                                          /\ after.pending[i].command = over.left[i].command
                                          /\ after.pending[i].entered = over.left[i].entered
  <2>1. /\ over.used \in 0 .. Len(looked.output)
        /\ \A i \in DOMAIN looked.pending : Placed(looked.pending[i], looked.dropped)
    <3>1. Len(kept.output) \in Nat
      BY <1>6, CaptureParts
    <3> QED
      BY <1>10, <1>11, <3>1
  <2>2. LET b == Shift(looked, over.used)
        IN  /\ b \in Captures /\ Follows(b, t) /\ b.dropped = looked.dropped + over.used
            /\ DOMAIN b.pending = DOMAIN looked.pending
            /\ \A i \in DOMAIN b.pending : /\ Placed(b.pending[i], b.dropped)
                                           /\ b.pending[i].command = looked.pending[i].command
                                           /\ b.pending[i].entered = looked.pending[i].entered
    BY <1>3, <1>11, <2>1, ShiftOk
  <2> QED
    BY <1>11, <2>2
<1> HIDE DEF after
<1>13. CaptureOk(after, t)
  <2>1. ASSUME NEW i \in DOMAIN after.pending PROVE Unseen(after.pending[i], after.dropped, t)
    BY <1>10, <1>12, <2>1 DEF Unseen
  <2> QED
    BY <1>12, <2>1 DEF CaptureOk, Waits
<1>14. RecordsOk(r \o over.confirmed, after.dropped, t)
  <2>1. kept.dropped + over.used \in Nat /\ kept.dropped =< kept.dropped + over.used
    BY <1>7, <1>10
  <2>2. RecordsOk(r \o over.confirmed, kept.dropped + over.used, t)
    BY <1>2, <1>7, <1>10, <2>1, RecordsAppend DEF t
  <2> QED
    BY <1>12, <2>2
<1> QED
  BY <1>1, <1>13, <1>14 DEF t

LEMMA AgedOk ==
  ASSUME NEW s \in Seq(Chars), NEW c, CaptureOk(c, s)
  PROVE  CaptureOk(Aged(c), s) /\ Aged(c).dropped = c.dropped
<1> DEFINE q == [i \in DOMAIN c.pending |-> [c.pending[i] EXCEPT !.old = TRUE]]
           m == Len(c.pending)
           S == Seq(Chars)
<1>1. /\ c.pending \in Seq(Candidates) /\ m \in Nat /\ DOMAIN c.pending = 1 .. m
      /\ \A i \in 1 .. m : c.pending[i] \in Candidates /\ Waits(c.pending[i], c.dropped, s)
  <2>1. c.pending \in Seq(Candidates) /\ m \in Nat /\ DOMAIN c.pending = 1 .. m
    BY CaptureParts DEF CaptureOk
  <2>2. \A i \in 1 .. m : c.pending[i] \in Candidates
    BY <2>1
  <2> QED
    BY <2>1, <2>2 DEF CaptureOk
<1>2. ASSUME NEW i \in 1 .. m PROVE q[i] \in Candidates /\ Waits(q[i], c.dropped, s)
  <2> DEFINE p == c.pending[i]
             a == [p EXCEPT !.old = TRUE]
  <2>1. q[i] = a
    BY <1>1
  <2>2. p \in [command : S, old : BOOLEAN, from : Nat, minEnd : Nat, entered : Nat]
    BY <1>1 DEF Candidates
  <2>3. Waits(p, c.dropped, s)
    BY <1>1
  <2> HIDE DEF S, p
  <2>4. /\ a \in [command : S, old : BOOLEAN, from : Nat, minEnd : Nat, entered : Nat]
        /\ a.command = p.command /\ a.from = p.from /\ a.minEnd = p.minEnd /\ a.entered = p.entered
    BY <2>2
  <2> HIDE DEF a, q
  <2>5. Waits(a, c.dropped, s)
    BY <2>3, <2>4 DEF Waits, Placed, Unseen
  <2> QED
    BY <2>1, <2>4, <2>5 DEF Candidates, S
<1>3. q \in Seq(Candidates) /\ DOMAIN q = 1 .. m
  <2> HIDE DEF m
  <2> QED
    BY <1>1, <1>2
<1>4. Aged(c) = [c EXCEPT !.pending = q]
  BY DEF Aged
<1> HIDE DEF q, m
<1>5. q \in Seq(Candidates) /\ \A i \in DOMAIN q : Waits(q[i], c.dropped, s)
  BY <1>2, <1>3
<1>6. CaptureOk([c EXCEPT !.pending = q], s) /\ [c EXCEPT !.pending = q].dropped = c.dropped
  BY <1>5, PendingOk
<1> QED
  BY <1>4, <1>6

LEMMA RecordsWait ==
  ASSUME NEW s, NEW r, NEW u \in Nat, NEW v \in Nat, u =< v, RecordsOk(r, u, s)
  PROVE  RecordsOk(r, v, s)
<1>1. ASSUME NEW i \in DOMAIN r PROVE r[i].end =< v
  <2>1. r[i] \in Records /\ r[i].end =< u
    BY DEF RecordsOk
  <2> QED
    BY <2>1 DEF Records
<1> QED
  BY <1>1 DEF RecordsOk

-----------------------------------------------------------------------------
(* The terminal of a session at work.                                      *)

\* A step that keeps the screen, the capture, the records and the terminal.
LEMMA TerminalStays ==
  ASSUME TerminalInv, UNCHANGED <<capture, tty, screen, recorded>>
  PROVE  TerminalInv'
BY ZenonT(40) DEF TerminalInv, CaptureOk, Follows, Waits, Placed, Unseen, RecordsOk, Here

\* A step that keeps the screen and the records, and whose capture is still right.
LEMMA CaptureStays ==
  ASSUME TerminalInv, CaptureOk(capture', screen), capture'.dropped >= capture.dropped,
         tty' \in [keys : Seq(Chars), echo : BOOLEAN, out : Seq(Chars)],
         UNCHANGED <<screen, recorded>>
  PROVE  TerminalInv'
<1>1. capture.dropped \in Nat /\ capture'.dropped \in Nat
  <2>1. capture \in Captures /\ capture' \in Captures
    BY DEF TerminalInv, CaptureOk
  <2> QED
    BY <2>1, CaptureParts
<1>2. RecordsOk(recorded, capture'.dropped, screen)
  BY <1>1, RecordsWait DEF TerminalInv
<1> QED
  BY <1>2 DEF TerminalInv

LEMMA TerminalTypes ==
  ASSUME TerminalInv
  PROVE  /\ tty.keys \in Seq(Chars) /\ tty.out \in Seq(Chars) /\ tty.echo \in BOOLEAN
         /\ screen \in Seq(Chars)
BY DEF TerminalInv

LEMMA TtyTypes ==
  ASSUME TerminalInv, NEW k \in Seq(Chars), NEW o \in Seq(Chars)
  PROVE  /\ [tty EXCEPT !.keys = k] \in [keys : Seq(Chars), echo : BOOLEAN, out : Seq(Chars)]
         /\ [tty EXCEPT !.out = o] \in [keys : Seq(Chars), echo : BOOLEAN, out : Seq(Chars)]
         /\ [tty EXCEPT !.keys = k, !.out = o] \in [keys : Seq(Chars), echo : BOOLEAN, out : Seq(Chars)]
<1> DEFINE S == Seq(Chars)
<1>1. tty \in [keys : S, echo : BOOLEAN, out : S] /\ k \in S /\ o \in S
  BY DEF TerminalInv
<1> HIDE DEF S
<1>2. /\ [tty EXCEPT !.keys = k] \in [keys : S, echo : BOOLEAN, out : S]
      /\ [tty EXCEPT !.out = o] \in [keys : S, echo : BOOLEAN, out : S]
      /\ [tty EXCEPT !.keys = k, !.out = o] \in [keys : S, echo : BOOLEAN, out : S]
  BY <1>1
<1> QED
  BY <1>2 DEF S

LEMMA InputKeeps ==
  ASSUME WorkInv, TerminalInv, HandleInput
  PROVE  TerminalInv'
<1> DEFINE chunk == Head(inbox).data
<1>1. chunk \in Seq(Chars)
  <2>1. inbox \in Seq(Messages) /\ inbox # <<>> /\ Head(inbox).type = "input"
    BY DEF WorkInv, WireTypes, HandleInput, Takes
  <2>2. Head(inbox) \in Messages
    BY <2>1
  <2>3. Head(inbox).data \in Chunks
    BY <2>1, <2>2 DEF Messages
  <2> QED
    BY <2>3, TextTypes
<1>2. /\ capture' = Feed(capture, chunk) /\ UNCHANGED <<screen, recorded>>
      /\ tty' = [tty EXCEPT !.keys = tty.keys \o chunk]
  BY DEF HandleInput
<1> HIDE DEF chunk
<1>3. CaptureOk(capture', screen) /\ capture'.dropped >= capture.dropped
  BY <1>1, <1>2, FedOk DEF TerminalInv
<1>4. tty' \in [keys : Seq(Chars), echo : BOOLEAN, out : Seq(Chars)]
  <2>1. tty.keys \o chunk \in Seq(Chars)
    BY <1>1, TerminalTypes
  <2> QED
    BY <1>2, <2>1, TtyTypes
<1> QED
  BY <1>2, <1>3, <1>4, CaptureStays

LEMMA ShowKeeps ==
  ASSUME TerminalInv, Show
  PROVE  TerminalInv'
<1>1. PICK n \in 1 .. Len(tty.out) :
        LET text == SubSeq(tty.out, 1, n)
            seen == Observed(capture, text)
        IN  /\ tty' = [tty EXCEPT !.out = SubSeq(@, n + 1, Len(@))]
            /\ screen' = screen \o text
            /\ capture' = seen.capture
            /\ recorded' = recorded \o seen.confirmed
  BY DEF Show
<1> DEFINE text == SubSeq(tty.out, 1, n)
           rest == SubSeq(tty.out, n + 1, Len(tty.out))
<1>2. text \in Seq(Chars) /\ rest \in Seq(Chars)
  BY TerminalTypes
<1>3. tty' = [tty EXCEPT !.out = rest]
  BY <1>1
<1>4. /\ screen' = screen \o text /\ capture' = Observed(capture, text).capture
      /\ recorded' = recorded \o Observed(capture, text).confirmed
  BY <1>1
<1> HIDE DEF text, rest
<1>5. tty' \in [keys : Seq(Chars), echo : BOOLEAN, out : Seq(Chars)]
  BY <1>2, <1>3, TtyTypes
<1>6. screen' \in Seq(Chars)
  BY <1>2, <1>4, TerminalTypes
<1>7. CaptureOk(capture', screen') /\ RecordsOk(recorded', capture'.dropped, screen')
  <2>1. /\ CaptureOk(Observed(capture, text).capture, screen \o text)
        /\ RecordsOk(recorded \o Observed(capture, text).confirmed,
                     Observed(capture, text).capture.dropped, screen \o text)
    BY <1>2, ObservedOk DEF TerminalInv
  <2> QED
    BY <1>4, <2>1
<1> QED
  BY <1>5, <1>6, <1>7 DEF TerminalInv

LEMMA TtyKeeps ==
  ASSUME TerminalInv, TtyReads \/ TtyPrints
  PROVE  TerminalInv'
<1>1. UNCHANGED <<capture, screen, recorded>>
  BY DEF TtyReads, TtyPrints
<1>2. CASE TtyReads
  <2> DEFINE k == Head(tty.keys)
             out == IF k = Newline \/ tty.echo THEN Append(tty.out, k) ELSE tty.out
  <2>1. tty.keys # <<>>
    BY <1>2 DEF TtyReads
  <2>2. PICK echo \in BOOLEAN : tty' = [keys |-> Tail(tty.keys), echo |-> echo, out |-> out]
    <3>1. PICK echo \in IF k \in {Newline, Interrupt} THEN BOOLEAN ELSE {tty.echo} :
            tty' = [keys |-> Tail(tty.keys), echo |-> echo, out |-> out]
      BY <1>2 DEF TtyReads
    <3>2. echo \in BOOLEAN
      BY TerminalTypes
    <3> QED
      BY <3>1, <3>2
  <2>3. k \in Chars /\ Tail(tty.keys) \in Seq(Chars)
    BY <2>1, TerminalTypes
  <2>4. out \in Seq(Chars)
    BY <2>3, TerminalTypes
  <2> HIDE DEF out, k
  <2>5. tty' \in [keys : Seq(Chars), echo : BOOLEAN, out : Seq(Chars)]
    BY <2>2, <2>3, <2>4
  <2> QED
    BY <1>1, <2>5 DEF TerminalInv
<1>3. CASE TtyPrints
  <2>1. PICK text \in Texts : tty' = [tty EXCEPT !.out = tty.out \o text]
    BY <1>3 DEF TtyPrints
  <2>2. tty.out \o text \in Seq(Chars)
    BY TerminalTypes, TextTypes
  <2>3. tty' \in [keys : Seq(Chars), echo : BOOLEAN, out : Seq(Chars)]
    BY <2>1, <2>2, TtyTypes
  <2> QED
    BY <1>1, <2>3 DEF TerminalInv
<1> QED
  BY <1>2, <1>3

LEMMA EndKeeps ==
  ASSUME TerminalInv, Ended
  PROVE  TerminalInv'
<1>1. /\ capture' = Reset(capture) /\ tty' = [tty EXCEPT !.keys = <<>>, !.out = <<>>]
      /\ UNCHANGED <<screen, recorded>>
  BY DEF Ended
<1>2. CaptureOk(capture', screen) /\ capture'.dropped >= capture.dropped
  BY <1>1, ResetOk DEF TerminalInv
<1>3. tty' \in [keys : Seq(Chars), echo : BOOLEAN, out : Seq(Chars)]
  <2>1. <<>> \in Seq(Chars)
    OBVIOUS
  <2> QED
    BY <1>1, <2>1, TtyTypes
<1> QED
  BY <1>1, <1>2, <1>3, CaptureStays

LEMMA TerminalStarts == WorkInit => TerminalInv
<1> SUFFICES ASSUME WorkInit PROVE TerminalInv
  OBVIOUS
<1> DEFINE S == Seq(Chars)
           Q == Seq(Candidates)
           none == <<>>
<1>1. /\ capture = EmptyCapture /\ tty = [keys |-> none, echo |-> TRUE, out |-> none]
      /\ screen = none /\ recorded = none
  BY DEF WorkInit
<1>2. none \in S /\ none \in Q /\ none \in Seq(Records) /\ Len(none) = 0 /\ DOMAIN none = {}
  OBVIOUS
<1>3. EmptyCapture = [buffer |-> none, unsafe |-> FALSE, output |-> none, pending |-> none,
                      dropped |-> 0]
  BY DEF EmptyCapture
<1> HIDE DEF S, Q, none
<1>4. /\ capture \in [buffer : S, unsafe : BOOLEAN, output : S, pending : Q, dropped : Nat]
      /\ capture.output = none /\ capture.pending = none /\ capture.dropped = 0
  BY <1>1, <1>2, <1>3
<1>5. CaptureOk(capture, screen)
  <2>1. Follows(capture, screen)
    BY <1>1, <1>2, <1>4 DEF Follows
  <2> QED
    BY <1>2, <1>4, <2>1 DEF CaptureOk, Captures, S, Q
<1>6. RecordsOk(recorded, capture.dropped, screen)
  BY <1>1, <1>2 DEF RecordsOk
<1>7. tty \in [keys : S, echo : BOOLEAN, out : S]
  BY <1>1, <1>2
<1> QED
  BY <1>1, <1>2, <1>5, <1>6, <1>7 DEF TerminalInv, S

LEMMA TerminalSteps ==
  ASSUME WorkInv, TerminalInv, [WorkNext]_workVars
  PROVE  TerminalInv'
<1>1. CASE ClickRefresh \/ ClickDirectory \/ ClickChange \/ LoadBash \/ SendActivity
  BY <1>1, TerminalStays
     DEF ClickRefresh, ClickDirectory, ClickChange, LoadBash, SendActivity, terminal
<1>2. CASE ClickDisconnect \/ Type \/ Deliver
  BY <1>2, TerminalStays DEF ClickDisconnect, Type, Deliver, terminal
<1>3. CASE Handle
  <2>1. CASE HandleActivity \/ Begin
    BY <2>1, TerminalStays DEF HandleActivity, Begin, terminal
  <2>2. CASE HandleDisconnect
    BY <2>2, EndKeeps DEF HandleDisconnect
  <2> QED
    BY <1>3, <2>1, <2>2, InputKeeps DEF Handle
<1>4. CASE Serve \/ SftpEnds
  BY <1>4, TerminalStays DEF Serve, OpenSftp, ServeList, ServeChange, ServeBash, SftpEnds, terminal
<1>5. CASE Collect \/ Collected
  BY <1>5, TerminalStays DEF Collect, Collected, terminal
<1>6. CASE TtyReads \/ TtyPrints
  BY <1>6, TtyKeeps
<1>7. CASE Show
  BY <1>7, ShowKeeps
<1>8. CASE TimePasses
  <2>1. capture' = Aged(capture) /\ UNCHANGED <<tty, screen, recorded>>
    BY <1>8 DEF TimePasses
  <2>2. CaptureOk(capture', screen) /\ capture'.dropped = capture.dropped
    BY <2>1, AgedOk DEF TerminalInv
  <2>3. capture.dropped \in Nat
    BY CaptureParts DEF TerminalInv, CaptureOk
  <2> QED
    BY <2>1, <2>2, <2>3, CaptureStays DEF TerminalInv
<1>9. CASE Lose
  BY <1>9, EndKeeps DEF Lose
<1>10. CASE UNCHANGED workVars
  BY <1>10, TerminalStays DEF workVars, terminal
<1> QED
  BY <1>1, <1>2, <1>3, <1>4, <1>5, <1>6, <1>7, <1>8, <1>9, <1>10 DEF WorkNext

LEMMA MaxOfTwo ==
  ASSUME NEW a \in Int, NEW b \in Int
  PROVE  Max({a, b}) \in {a, b} /\ Max({a, b}) >= a /\ Max({a, b}) >= b
<1>1. \E x \in {a, b} : \A y \in {a, b} : x >= y
  <2>1. CASE a >= b
    BY <2>1
  <2>2. CASE b >= a
    BY <2>2
  <2> QED
    BY <2>1, <2>2
<1> QED
  BY <1>1 DEF Max

LEMMA TerminalIsExact == TerminalInv => CaptureIsExact
<1> SUFFICES ASSUME TerminalInv PROVE CaptureIsExact
  OBVIOUS
<1>1. /\ screen \in Seq(Chars) /\ recorded \in Seq(Records)
      /\ capture \in Captures /\ capture.dropped \in Nat /\ capture.pending \in Seq(Candidates)
  <2>1. capture \in Captures /\ screen \in Seq(Chars) /\ recorded \in Seq(Records)
    BY DEF TerminalInv, CaptureOk, RecordsOk
  <2> QED
    BY <2>1, CaptureParts
<1>2. ASSUME NEW r \in ToSet(recorded)
      PROVE  r.end > r.entered /\ r.end \in Ends(screen, r.command, 0)
  <2>1. PICK i \in DOMAIN recorded : r = recorded[i]
    BY <1>1 DEF ToSet
  <2>2. r.end > r.entered /\ Here(screen, r.command, r.end)
    BY <2>1 DEF TerminalInv, RecordsOk
  <2>3. r.command \in Seq(Chars) /\ r.end \in Nat /\ Len(r.command) \in Nat
    <3>1. r \in Records
      BY <1>1, <2>1
    <3>2. r.command \in Seq(Chars) /\ r.end \in Nat
      BY <3>1 DEF Records
    <3> QED
      BY <3>2
  <2>4. r.end >= 0 + Len(r.command) + 1
    BY <2>2, <2>3 DEF Here
  <2> QED
    BY <1>1, <2>2, <2>3, <2>4, EndsAre
<1>3. ASSUME NEW p \in ToSet(capture.pending),
             NEW end \in Ends(screen, p.command,
                              Max({capture.dropped, p.entered - Len(p.command) - Margin}))
      PROVE  end <= p.entered
  <2> DEFINE x == p.entered - Len(p.command) - Margin
             d == capture.dropped
             L == Len(p.command)
             from == Max({d, x})
  <2>1. PICK i \in DOMAIN capture.pending : p = capture.pending[i]
    BY <1>1 DEF ToSet
  <2>2. Unseen(p, capture.dropped, screen)
    BY <2>1 DEF TerminalInv, CaptureOk, Waits
  <2>3. p.command \in Seq(Chars) /\ p.entered \in Nat
    <3>1. p \in Candidates
      BY <1>1, <2>1
    <3> QED
      BY <3>1 DEF Candidates
  <2>4. x \in Int /\ L \in Nat /\ d \in Nat
    BY <1>1, <2>3, CaptureConstants
  <2> HIDE DEF x, d
  <2>5. from \in Nat /\ from >= d /\ from >= x
    <3>1. from \in {d, x} /\ from >= d /\ from >= x
      <4>1. d \in Int /\ x \in Int
        BY <2>4
      <4> QED
        BY <4>1, MaxOfTwo, Zenon
    <3> QED
      BY <2>4, <3>1
  <2>6. end \in Ends(screen, p.command, from)
    BY <1>3 DEF x, d
  <2> HIDE DEF from
  <2>7. Here(screen, p.command, end) /\ end \in Nat /\ end >= from + L + 1
    BY <1>1, <2>3, <2>5, <2>6, EndsAre
  <2> HIDE DEF L
  <2>8. end - L - 1 >= d /\ end - L - 1 >= x
    BY <2>4, <2>5, <2>7
  <2> QED
    BY <2>2, <2>7, <2>8 DEF Unseen, x, d, L
<1>4. \A i, j \in DOMAIN recorded :
        i < j => recorded[i].end < recorded[j].end - Len(recorded[j].command)
  BY DEF TerminalInv, RecordsOk
<1> QED
  BY <1>2, <1>3, <1>4 DEF CaptureIsExact

\* However keys, echoes, programs that print, interrupts and time fall together:
\* a command is recorded only after the terminal has shown it, later than it was
\* entered; no two by one line; and one that still waits has not been shown.
THEOREM RecordedWasShown == WorkSpec => []CaptureIsExact
<1>1. WorkInit => TerminalInv
  BY TerminalStarts
<1>2. WorkInv /\ TerminalInv /\ [WorkNext]_workVars => TerminalInv'
  BY TerminalSteps
<1>3. TerminalInv => CaptureIsExact
  BY TerminalIsExact
<1> QED
  BY <1>1, <1>2, <1>3, WorkInvariant, PTL DEF WorkSpec

-----------------------------------------------------------------------------
(* Requests, and the collection of metrics.                                *)

\* When nothing is on its way, neither the file pane nor the history panel waits
\* for an answer.
THEOREM QuietMeansAnswered == WorkSpec => [](Quiet => pane.requests = <<>> /\ bash = NoId)
<1>1. WorkInv => (Quiet => pane.requests = <<>> /\ bash = NoId)
  <2> SUFFICES ASSUME WorkInv, Quiet PROVE pane.requests = <<>> /\ bash = NoId
    OBVIOUS
  <2>1. Line = <<>> /\ DOMAIN <<>> = {}
    BY DEF Quiet, Line
  <2>2. bash = NoId
    BY <2>1 DEF WorkInv, FileTypes, Awaited
  <2>3. pane.requests \in Waiting /\ DOMAIN pane.requests = {}
    BY <2>1 DEF WorkInv, FileTypes, Panes, LineOk
  <2>4. pane.requests = [r \in {} |-> pane.requests[r]]
    BY <2>3 DEF Waiting
  <2>5. pane.requests = <<>>
    BY <2>4
  <2> QED
    BY <2>2, <2>5
<1> QED
  BY <1>1, WorkInvariant, PTL

\* A session that has ended has nothing on its way, and collects nothing new; of
\* one that lives, the collection under way is the one that runs.
MetricsInv ==
  /\ live \in BOOLEAN
  /\ metrics \in [timer : BOOLEAN, inFlight : BOOLEAN, on : BOOLEAN, execs : 0 .. 1]
  /\ metrics.timer => live /\ ~metrics.inFlight
  /\ live => (metrics.inFlight <=> metrics.execs = 1)
  /\ ~live => Quiet /\ ~metrics.inFlight

LEMMA MetricsStay ==
  ASSUME MetricsInv, UNCHANGED <<live, metrics>>, live \/ UNCHANGED wire
  PROVE  MetricsInv'
BY DEF MetricsInv, Quiet, wire

\* What comes of the metrics of a session that lives.
LEMMA Scheduled ==
  ASSUME NEW m \in [timer : BOOLEAN, inFlight : BOOLEAN, on : BOOLEAN, execs : 0 .. 1],
         m.inFlight <=> m.execs = 1
  PROVE  LET n == Schedule(m)
         IN  /\ n \in [timer : BOOLEAN, inFlight : BOOLEAN, on : BOOLEAN, execs : 0 .. 1]
             /\ n.timer => ~n.inFlight
             /\ n.inFlight <=> n.execs = 1
BY DEF Schedule

LEMMA MetricsSteps ==
  ASSUME WorkInv, MetricsInv, [WorkNext]_workVars
  PROVE  MetricsInv'
<1> DEFINE M == [timer : BOOLEAN, inFlight : BOOLEAN, on : BOOLEAN, execs : 0 .. 1]
<1>1. /\ metrics \in M /\ live \in BOOLEAN
      /\ metrics.timer => live /\ ~metrics.inFlight
      /\ live => (metrics.inFlight <=> metrics.execs = 1)
      /\ ~live => ~metrics.inFlight
  BY DEF MetricsInv
<1>2. inbox # <<>> \/ serving # <<>> \/ outbox # <<>> => live
  BY DEF MetricsInv, Quiet
<1>3. CASE ClickRefresh \/ ClickDirectory \/ ClickChange \/ LoadBash \/ ClickDisconnect \/ Type
  BY <1>3, MetricsStay
     DEF ClickRefresh, ClickDirectory, ClickChange, LoadBash, ClickDisconnect, Type, Click
<1>4. CASE SendActivity
  BY <1>4, MetricsStay DEF SendActivity, Click
<1>5. CASE Deliver
  BY <1>2, <1>5, MetricsStay DEF Deliver
<1>6. CASE HandleInput \/ Begin
  BY <1>2, <1>6, MetricsStay DEF HandleInput, Begin, Takes
<1>7. CASE HandleActivity
  <2> DEFINE on == Head(inbox).on
             m  == [metrics EXCEPT !.on = on]
  <2>1. live /\ live' = live /\ metrics' = Schedule(m)
    BY <1>2, <1>7 DEF HandleActivity, Takes
  <2>2. on \in BOOLEAN
    <3>1. inbox \in Seq(Messages) /\ inbox # <<>> /\ Head(inbox).type = "activity"
      BY <1>7 DEF WorkInv, WireTypes, HandleActivity, Takes
    <3>2. Head(inbox) \in Messages
      BY <3>1
    <3> QED
      BY <3>1, <3>2 DEF Messages
  <2> HIDE DEF on
  <2>3. m \in M /\ (m.inFlight <=> m.execs = 1)
    BY <1>1, <2>1, <2>2
  <2> HIDE DEF m
  <2>4. metrics' \in M /\ (metrics'.timer => ~metrics'.inFlight)
        /\ (metrics'.inFlight <=> metrics'.execs = 1)
    BY <2>1, <2>3, Scheduled
  <2> QED
    BY <2>1, <2>4 DEF MetricsInv
<1>8. CASE Serve
  BY <1>2, <1>8, MetricsStay DEF Serve, OpenSftp, ServeList, ServeChange, ServeBash
<1>9. CASE SftpEnds
  BY <1>2, <1>9, MetricsStay DEF SftpEnds, wire
<1>10. CASE Collect
  <2>1. /\ live /\ ~metrics.inFlight /\ metrics.execs = 0 /\ live' = live
        /\ metrics' = [metrics EXCEPT !.timer = FALSE, !.inFlight = TRUE, !.execs = 1]
    <3>1. /\ live /\ ~metrics.inFlight /\ metrics.execs = 0 /\ live' = live
          /\ metrics' = [metrics EXCEPT !.timer = FALSE, !.inFlight = TRUE, !.execs = metrics.execs + 1]
      BY <1>1, <1>10 DEF Collect
    <3>2. metrics.execs + 1 = 1
      BY <3>1
    <3> QED
      BY <3>1, <3>2, Zenon
  <2>2. metrics' \in M /\ ~metrics'.timer /\ metrics'.inFlight /\ metrics'.execs = 1
    <3> DEFINE E == 0 .. 1
    <3>1. metrics \in [timer : BOOLEAN, inFlight : BOOLEAN, on : BOOLEAN, execs : E] /\ 1 \in E
      BY <1>1
    <3> HIDE DEF E
    <3>2. /\ metrics' \in [timer : BOOLEAN, inFlight : BOOLEAN, on : BOOLEAN, execs : E]
          /\ ~metrics'.timer /\ metrics'.inFlight /\ metrics'.execs = 1
      BY <2>1, <3>1
    <3> QED
      BY <3>2 DEF E
  <2> QED
    BY <2>1, <2>2 DEF MetricsInv
<1>11. CASE Collected
  <2> DEFINE over == [metrics EXCEPT !.inFlight = FALSE, !.execs = 0]
  <2>1. metrics.execs = 1 /\ UNCHANGED <<live, wire>>
        /\ metrics' = IF live THEN Schedule(over) ELSE over
    <3>1. metrics.execs = 1 /\ UNCHANGED <<live, wire>>
      BY <1>1, <1>11 DEF Collected
    <3>2. [metrics EXCEPT !.inFlight = FALSE, !.execs = metrics.execs - 1] = over
      <4>1. metrics.execs - 1 = 0
        BY <3>1
      <4> QED
        BY <4>1, Zenon
    <3>3. metrics' = IF live THEN Schedule(over) ELSE over
      BY <1>11, <3>2 DEF Collected
    <3> QED
      BY <3>1, <3>3
  <2>2. over \in M /\ ~over.inFlight /\ over.execs = 0 /\ over.timer = metrics.timer
    <3> DEFINE E == 0 .. 1
    <3>1. metrics \in [timer : BOOLEAN, inFlight : BOOLEAN, on : BOOLEAN, execs : E] /\ 0 \in E
      BY <1>1
    <3> HIDE DEF E
    <3>2. /\ over \in [timer : BOOLEAN, inFlight : BOOLEAN, on : BOOLEAN, execs : E]
          /\ ~over.inFlight /\ over.execs = 0 /\ over.timer = metrics.timer
      BY <3>1
    <3> QED
      BY <3>2 DEF E
  <2> HIDE DEF over
  <2>3. CASE live
    <3>1. metrics' \in M /\ (metrics'.timer => ~metrics'.inFlight)
          /\ (metrics'.inFlight <=> metrics'.execs = 1)
      BY <2>1, <2>2, <2>3, Scheduled
    <3> QED
      BY <2>1, <2>3, <3>1 DEF MetricsInv
  <2>4. CASE ~live
    BY <1>1, <2>1, <2>2, <2>4 DEF MetricsInv, Quiet, wire
  <2> QED
    BY <2>3, <2>4
<1>12. CASE TtyReads \/ TtyPrints \/ Show \/ TimePasses
  BY <1>12, MetricsStay DEF TtyReads, TtyPrints, Show, TimePasses
<1>13. CASE HandleDisconnect \/ Lose
  <2>1. /\ live' = FALSE /\ inbox' = <<>> /\ serving' = <<>> /\ outbox' = <<>>
        /\ metrics' = [metrics EXCEPT !.timer = FALSE, !.inFlight = FALSE]
    BY <1>13 DEF HandleDisconnect, Lose, Ended
  <2>2. metrics' \in M /\ ~metrics'.timer /\ ~metrics'.inFlight
    BY <1>1, <2>1
  <2> QED
    BY <2>1, <2>2 DEF MetricsInv, Quiet
<1>14. CASE UNCHANGED workVars
  BY <1>14, MetricsStay DEF workVars
<1> QED
  BY <1>3, <1>4, <1>5, <1>6, <1>7, <1>8, <1>9, <1>10, <1>11, <1>12, <1>13, <1>14 DEF WorkNext, Handle

\* However often the timer, an activity message, the end of a command and the end
\* of the session meet, one collection of metrics runs at a time, and none is due
\* in a session that has ended.
THEOREM CollectionsAreSingle ==
  WorkSpec => [](metrics.execs <= 1 /\ (metrics.timer => live))
<1>1. WorkInit => MetricsInv
  BY DEF WorkInit, MetricsInv
<1>2. WorkInv /\ MetricsInv /\ [WorkNext]_workVars => MetricsInv'
  BY MetricsSteps
<1>3. MetricsInv => metrics.execs <= 1 /\ (metrics.timer => live)
  BY DEF MetricsInv
<1> QED
  BY <1>1, <1>2, <1>3, WorkInvariant, PTL DEF WorkSpec

=============================================================================
