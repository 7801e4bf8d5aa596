------------------------ MODULE SessionLifecycle_proofs ------------------------
(***************************************************************************)
(* Proofs about SessionLifecycle, for every number of token pairs, every   *)
(* set of settings values and, where a theorem does not say otherwise,     *)
(* every combination of faults.                                            *)
(***************************************************************************)
EXTENDS SessionLifecycle, TLAPS

(* Each step of Next by name: what a case proof splits on. *)
LEMMA StepCases ==
    ASSUME Next
    PROVE  \/ OpenForWriteFails \/ TruncateConfig \/ WriteConfig \/ FlushFails
           \/ SessionStillFresh \/ SessionRefreshed \/ RestoreError \/ RefreshReplyLost
           \/ DataDirsUnavailable \/ LoadSavedSession \/ NoLoginTxt \/ ReadLoginTxt
           \/ SessionCreated \/ NullSessionCreated \/ CreateSessionFails
           \/ OperationEnds \/ StartOperation \/ ChangeSettings \/ SignOut
           \/ Recheck \/ Launch \/ Exit \/ Crash \/ UserWritesLoginTxt \/ ServerRevokes
  BY DEF Next, AppStep, SaveStep, RestoreStep, BootstrapStep, UserStep, Environment

(***************************************************************************)
(* Type correctness                                                        *)
(***************************************************************************)

LEMMA InitialValuesTyped ==
    /\ EmptyConfig \in Configs
    /\ \A n \in Nat : NoBoot \in [state : BootStates, session : 0..n]
  <1>1. EmptyConfig \in Configs
    BY SettingsAssumption DEF Configs, EmptyConfig, Sessions
  <1>2. ASSUME NEW n \in Nat
        PROVE  NoBoot \in [state : BootStates, session : 0..n]
    BY DEF NoBoot, BootStates, NoSession
  <1>3. QED
    BY <1>1, <1>2

(* config_open returns well-formed contents, and so does a torn write. *)
LEMMA ContentsTyped ==
    ASSUME TypeOK
    PROVE  /\ ReadConfig \subseteq Configs
           /\ Torn(pending) \subseteq Configs
           /\ EmptyConfig \in Configs
  BY SettingsAssumption
     DEF TypeOK, ReadConfig, Torn, Configs, EmptyConfig, Sessions, NoSession,
         Damaged, HasSession

LEMMA BeginSaveTyped ==
    ASSUME TypeOK, NEW who \in Savers, NEW session \in Sessions,
           NEW v \in SettingsValues, BeginSave(who, session, v)
    PROVE  pending' \in Configs /\ after' \in Savers /\ phase' \in Phases
  BY ContentsTyped DEF BeginSave, Configs, Phases

LEMMA ReturnFromSaveTyped ==
    ASSUME TypeOK, ReturnFromSave, config' \in Configs, written' \in Configs
    PROVE  TypeOK'
  <1>1. boot' \in [state : BootStates, session : 0..issued]
    BY DEF TypeOK, ReturnFromSave, Savers, BootStates, NoBoot, NoSession
  <1>2. phase' \in Phases /\ feedOpen' \in BOOLEAN /\ pending' \in Configs
    BY ContentsTyped DEF TypeOK, ReturnFromSave, Phases
  <1>3. QED
    BY <1>1, <1>2 DEF TypeOK, ReturnFromSave, server

(* A refresh issues the next generation and only forgets the one it used. *)
LEMMA RotationTyped ==
    ASSUME TypeOK, NEW t, ServerRotates(t)
    PROVE  /\ issued' = issued + 1
           /\ issued' \in 0..MaxTokens
           /\ accepts' \subseteq 1..issued'
           /\ t \in 1..issued
  BY TokensAssumption DEF TypeOK, ServerRotates

LEMMA RestoreSucceedsTyped ==
    ASSUME TypeOK, NEW s, RestoreSucceeds(s),
           issued' \in 0..MaxTokens, issued <= issued',
           accepts' \subseteq 1..issued', s \in 1..issued'
    PROVE  TypeOK'
  <1>0. s \in Sessions
    BY TokensAssumption DEF Sessions, Tokens
  <1>1. CASE phase = "restore"
    <2>1. BeginSave("restored", s, settings)
      BY <1>1 DEF RestoreSucceeds
    <2>2. pending' \in Configs /\ after' \in Savers /\ phase' \in Phases
      BY <2>1, <1>0, BeginSaveTyped DEF TypeOK, Savers
    <2>3. QED
      BY <2>2 DEF history, TypeOK, RestoreSucceeds, appVars
  <1>2. CASE phase # "restore"
    BY <1>2 DEF history, TypeOK, RestoreSucceeds, appVars, saveVars, Phases
  <1>3. QED
    BY <1>1, <1>2

LEMMA RestoreFailsTyped ==
    ASSUME TypeOK, NEW transient \in BOOLEAN, RestoreFails(transient),
           issued' \in 0..MaxTokens, issued <= issued', accepts' \subseteq 1..issued'
    PROVE  TypeOK'
  <1>1. attempt' \in 1..MaxAttempts /\ phase' \in Phases
    BY DEF TypeOK, RestoreFails, MaxAttempts, Phases
  <1>2. boot' = boot /\ boot' \in [state : BootStates, session : 0..issued']
    BY DEF TypeOK, RestoreFails, appVars
  <1>3. QED
    BY <1>1, <1>2 DEF history, TypeOK, RestoreFails, appVars, saveVars

LEMMA ProcessEndsTyped ==
    ASSUME TypeOK, ProcessEnds, config' \in Configs, written' \in Configs,
           UNCHANGED <<server, loginTxt, signedOut>>
    PROVE  TypeOK'
  <1>1. boot' \in [state : BootStates, session : 0..issued] /\ pending' \in Configs
    BY InitialValuesTyped DEF TypeOK, ProcessEnds
  <1>2. attempt' \in 1..MaxAttempts /\ delivered' \in 0..issued /\ saved' \in Sessions
    BY DEF TypeOK, ProcessEnds, MaxAttempts, NoSession, Sessions
  <1>3. phase' \in Phases /\ after' \in Savers /\ feedOpen' \in BOOLEAN
    BY DEF ProcessEnds, Phases, Savers
  <1>4. settings' \in SettingsValues
    BY SettingsAssumption DEF ProcessEnds
  <1>5. QED
    BY <1>1, <1>2, <1>3, <1>4 DEF TypeOK, server

LEMMA TypeStep == TypeOK /\ [Next]_vars => TypeOK'
  <1> SUFFICES ASSUME TypeOK, [Next]_vars
               PROVE  TypeOK'
    OBVIOUS
  <1>1. CASE OpenForWriteFails
    BY <1>1, ReturnFromSaveTyped DEF OpenForWriteFails, TypeOK
  <1>2. CASE TruncateConfig
    BY <1>2, ContentsTyped DEF TruncateConfig, TypeOK, server, saveVars, appVars, Phases
  <1>3. CASE WriteConfig
    <2>1. config' \in Configs /\ written' \in Configs
      BY <1>3 DEF WriteConfig, TypeOK, Configs
    <2>2. QED
      BY <1>3, <2>1, ReturnFromSaveTyped DEF WriteConfig
  <1>4. CASE FlushFails
    BY <1>4, ReturnFromSaveTyped, ContentsTyped DEF FlushFails, TypeOK
  <1>5. CASE SessionStillFresh
    BY <1>5, RestoreSucceedsTyped DEF SessionStillFresh, TypeOK, server
  <1>6. CASE SessionRefreshed
    <2>1. issued' = issued + 1 /\ issued' \in 0..MaxTokens /\ accepts' \subseteq 1..issued'
      BY <1>6, RotationTyped DEF SessionRefreshed
    <2>2. issued + 1 \in 1..issued' /\ issued <= issued'
      BY <2>1 DEF TypeOK
    <2>3. QED
      BY <1>6, <2>1, <2>2, RestoreSucceedsTyped DEF SessionRefreshed
  <1>7. CASE RestoreError
    BY <1>7, RestoreFailsTyped DEF RestoreError, TypeOK, server
  <1>8. CASE RefreshReplyLost
    <2>1. issued' = issued + 1 /\ issued' \in 0..MaxTokens /\ accepts' \subseteq 1..issued'
      BY <1>8, RotationTyped DEF RefreshReplyLost
    <2>2. issued <= issued'
      BY <2>1 DEF TypeOK
    <2>3. QED
      BY <1>8, <2>1, <2>2, RestoreFailsTyped DEF RefreshReplyLost
  <1>9. CASE DataDirsUnavailable \/ NoLoginTxt \/ CreateSessionFails
    <2>1. phase' = "idle" /\ boot' \in [state : BootStates, session : 0..issued]
      BY <1>9 DEF DataDirsUnavailable, NoLoginTxt, CreateSessionFails, BootstrapReturns,
                  TypeOK, BootStates, NoSession
    <2>2. UNCHANGED <<server, config, loginTxt, attempt, saved, delivered, saveVars,
                      settings, feedOpen, history>>
      BY <1>9 DEF DataDirsUnavailable, NoLoginTxt, CreateSessionFails
    <2>3. QED
      BY <2>1, <2>2 DEF history, TypeOK, server, saveVars, Phases
  <1>10. CASE LoadSavedSession
    <2>1. saved' \in Sessions
      BY <1>10, ContentsTyped DEF LoadSavedSession, Configs
    <2>2. QED
      BY <1>10, <2>1 DEF history, LoadSavedSession, TypeOK, server, saveVars, appVars, Phases, MaxAttempts
  <1>11. CASE ReadLoginTxt
    BY <1>11 DEF history, ReadLoginTxt, BootstrapReturns, TypeOK, server, saveVars, BootStates,
                 Phases, NoSession
  <1>12. CASE SessionCreated
    <2>1. issued' \in 0..MaxTokens /\ issued + 1 \in Sessions /\ issued' = issued + 1
      BY <1>12, TokensAssumption DEF SessionCreated, TypeOK, Sessions, Tokens
    <2>2. pending' \in Configs /\ after' \in Savers /\ phase' \in Phases
      BY <1>12, <2>1, BeginSaveTyped DEF SessionCreated, TypeOK, Savers
    <2>3. accepts' \subseteq 1..issued' /\ delivered' \in 0..issued'
      BY <1>12, <2>1 DEF SessionCreated, TypeOK
    <2>4. boot' \in [state : BootStates, session : 0..issued']
      BY <1>12, <2>1 DEF SessionCreated, TypeOK, appVars
    <2>5. QED
      BY <1>12, <2>1, <2>2, <2>3, <2>4 DEF SessionCreated, TypeOK, appVars
  <1>13. CASE NullSessionCreated
    BY <1>13 DEF history, NullSessionCreated, BootstrapReturns, TypeOK, server, saveVars,
                 BootStates, Phases, NoSession
  <1>14. CASE OperationEnds
    <2>1. delivered \in Sessions
      BY TokensAssumption DEF TypeOK, Sessions, Tokens, NoSession
    <2>2. pending' \in Configs /\ after' \in Savers /\ phase' \in Phases
      BY <1>14, <2>1, BeginSaveTyped DEF OperationEnds, TypeOK, Savers, saveVars, Phases
    <2>3. QED
      BY <1>14, <2>2 DEF history, OperationEnds, TypeOK, server
  <1>15. CASE ChangeSettings
    <2>1. PICK v \in SettingsValues : settings' = v /\ BeginSave("settings", NoSession, v)
      BY <1>15 DEF ChangeSettings
    <2>2. pending' \in Configs /\ after' \in Savers /\ phase' \in Phases
      BY <2>1, BeginSaveTyped DEF Savers, Sessions
    <2>3. QED
      BY <1>15, <2>1, <2>2 DEF history, ChangeSettings, TypeOK, server
  <1>16. CASE SignOut
    <2>1. pending' \in Configs /\ after' \in Savers /\ phase' \in Phases
      BY <1>16, BeginSaveTyped DEF SignOut, TypeOK, Savers, Sessions
    <2>2. QED
      BY <1>16, <2>1 DEF history, SignOut, TypeOK, server, appVars
  <1>17. CASE StartOperation \/ Recheck
    <2>1. phase' \in Phases /\ attempt' \in 1..MaxAttempts
      BY <1>17 DEF StartOperation, Recheck, TypeOK, Phases, MaxAttempts
    <2>2. UNCHANGED <<server, config, loginTxt, saved, delivered, saveVars, appVars, history>>
      BY <1>17 DEF StartOperation, Recheck
    <2>3. QED
      BY <2>1, <2>2 DEF history, TypeOK, server, saveVars, appVars
  <1>18. CASE Launch
    <2>1. settings' \in SettingsValues
      BY <1>18, ContentsTyped DEF Launch, Configs
    <2>2. QED
      BY <1>18, <2>1 DEF history, Launch, TypeOK, server, saveVars, Phases
  <1>19. CASE Exit
    BY <1>19, ProcessEndsTyped DEF history, Exit, TypeOK
  <1>20. CASE Crash
    <2>1. config' \in Configs /\ written' \in Configs
      BY <1>20, ContentsTyped DEF Crash, TypeOK
    <2>2. QED
      BY <1>20, <2>1, ProcessEndsTyped DEF Crash
  <1>21. CASE UserWritesLoginTxt
    BY <1>21 DEF history, UserWritesLoginTxt, TypeOK, server, saveVars, appVars
  <1>22. CASE ServerRevokes
    BY <1>22 DEF history, ServerRevokes, TypeOK, saveVars, appVars
  <1>23. CASE UNCHANGED vars
    BY <1>23 DEF history, TypeOK, vars
  <1>24. QED
    BY <1>1, <1>2, <1>3, <1>4, <1>5, <1>6, <1>7, <1>8, <1>9, <1>10, <1>11, <1>12,
       <1>13, <1>14, <1>15, <1>16, <1>17, <1>18, <1>19, <1>20, <1>21, <1>22, <1>23,
       StepCases

LEMMA InitTyped == Init => TypeOK
  <1> SUFFICES ASSUME Init
               PROVE  TypeOK
    OBVIOUS
  <1>1. config \in Configs /\ pending \in Configs
    BY InitialValuesTyped DEF Init
  <1>2. boot \in [state : BootStates, session : 0..issued]
    BY InitialValuesTyped DEF Init
  <1>3. phase \in Phases /\ after \in Savers /\ attempt \in 1..MaxAttempts
    BY DEF Init, Phases, Savers, MaxAttempts
  <1>4. saved \in Sessions /\ delivered \in 0..issued /\ settings \in SettingsValues
    BY SettingsAssumption DEF Init, Sessions, NoSession
  <1>5. issued \in 0..MaxTokens /\ accepts \subseteq 1..issued
    BY TokensAssumption DEF Init
  <1>6. QED
    BY <1>1, <1>2, <1>3, <1>4, <1>5 DEF Init, TypeOK

(* Every reachable state is well-typed: in particular no refresh or login  *)
(* leaves the application with a session the server never issued.          *)
THEOREM TypeCorrect == Spec => []TypeOK
  <1>1. QED
    BY InitTyped, TypeStep, PTL DEF Spec

(***************************************************************************)
(* No delivered session is dropped                                         *)
(***************************************************************************)

SessionSavers == {"restored", "created", "operation"}

SavingFor(S) == phase \in {"saving", "truncated"} /\ after \in S

(* The main loop has control, or only a save that leaves app.bootstrap     *)
(* alone, or the restore in front of an operation, is under way.           *)
InMainLoop == phase \in {"idle", "op_restore"} \/ SavingFor({"settings", "sign_out"})

AdoptInv == Authenticated /\ InMainLoop => boot.session = delivered

(* Returning from a save installs what the save was called for. *)
LEMMA ReturnFromSaveAdopts ==
    ASSUME TypeOK, AdoptInv, ReturnFromSave, phase \in {"saving", "truncated"}
    PROVE  /\ phase' \in {"idle", "load"}
           /\ Authenticated' => boot'.session = delivered /\ delivered' = delivered
           /\ after = "settings" => boot' = boot
           /\ after = "sign_out" => boot' = NoBoot /\ phase' = "load"
  <1>1. CASE after = "settings"
    BY <1>1 DEF TypeOK, AdoptInv, ReturnFromSave, Authenticated, InMainLoop, SavingFor
  <1>2. CASE after = "sign_out"
    BY <1>2 DEF ReturnFromSave, Authenticated, NoBoot
  <1>3. CASE after = "operation"
    BY <1>3 DEF TypeOK, ReturnFromSave
  <1>4. CASE after = "restored" \/ after = "created"
    BY <1>4 DEF ReturnFromSave
  <1>5. QED
    BY <1>1, <1>2, <1>3, <1>4 DEF TypeOK, Savers

LEMMA AdoptStep == TypeOK /\ AdoptInv /\ [Next]_vars => AdoptInv'
  <1> SUFFICES ASSUME TypeOK, AdoptInv, [Next]_vars
               PROVE  AdoptInv'
    OBVIOUS
  <1> USE DEF AdoptInv, Authenticated, InMainLoop, SavingFor
  <1>1. CASE OpenForWriteFails \/ WriteConfig \/ FlushFails
    <2>1. ReturnFromSave /\ phase \in {"saving", "truncated"}
      BY <1>1 DEF OpenForWriteFails, WriteConfig, FlushFails
    <2>2. QED
      BY <2>1, ReturnFromSaveAdopts
  <1>2. CASE TruncateConfig
    BY <1>2 DEF TruncateConfig, saveVars, appVars
  <1>3. CASE SessionStillFresh \/ SessionRefreshed
    <2>1. phase' = "operation" \/ (phase' = "saving" /\ after' = "restored")
      BY <1>3 DEF SessionStillFresh, SessionRefreshed, RestoreSucceeds, BeginSave
    <2>2. QED
      BY <2>1
  <1>4. CASE RestoreError \/ RefreshReplyLost
    BY <1>4 DEF RestoreError, RefreshReplyLost, RestoreFails, saveVars, appVars
  <1>5. CASE DataDirsUnavailable \/ NoLoginTxt \/ CreateSessionFails \/ NullSessionCreated
    BY <1>5 DEF DataDirsUnavailable, NoLoginTxt, CreateSessionFails, NullSessionCreated,
                BootstrapReturns
  <1>6. CASE ReadLoginTxt
    BY <1>6 DEF ReadLoginTxt, BootstrapReturns
  <1>7. CASE LoadSavedSession
    BY <1>7 DEF LoadSavedSession
  <1>8. CASE SessionCreated
    BY <1>8 DEF SessionCreated, BeginSave
  <1>9. CASE OperationEnds
    BY <1>9 DEF OperationEnds, BeginSave
  <1>10. CASE ChangeSettings
    BY <1>10 DEF ChangeSettings, BeginSave
  <1>11. CASE SignOut
    BY <1>11 DEF SignOut, BeginSave, appVars
  <1>12. CASE StartOperation \/ Recheck
    BY <1>12 DEF StartOperation, Recheck, appVars
  <1>13. CASE Launch
    BY <1>13 DEF Launch
  <1>14. CASE Exit \/ Crash
    BY <1>14 DEF Exit, Crash, ProcessEnds
  <1>15. CASE UserWritesLoginTxt \/ ServerRevokes
    BY <1>15 DEF UserWritesLoginTxt, ServerRevokes, saveVars, appVars
  <1>16. CASE UNCHANGED vars
    BY <1>16 DEF vars
  <1>17. QED
    BY <1>1, <1>2, <1>3, <1>4, <1>5, <1>6, <1>7, <1>8, <1>9, <1>10, <1>11, <1>12,
       <1>13, <1>14, <1>15, <1>16, StepCases

LEMMA AdoptInvariant == Spec => []AdoptInv
  <1>1. Init => AdoptInv
    BY DEF Init, AdoptInv, Authenticated, NoBoot
  <1>2. QED
    BY <1>1, AdoptStep, TypeCorrect, PTL DEF Spec

(* Whatever fails -- reads, writes, replies, the process -- an idle and    *)
(* authenticated application goes on with the session that the last        *)
(* success callback delivered: no refreshed token pair is dropped.         *)
THEOREM DeliveredAdopted == Spec => []AdoptsDelivered
  <1>1. AdoptInv => AdoptsDelivered
    BY DEF AdoptInv, AdoptsDelivered, InMainLoop
  <1>2. QED
    BY <1>1, AdoptInvariant, PTL

(***************************************************************************)
(* With reliable storage the file and the memory agree                     *)
(***************************************************************************)

(* What each kind of save is about to write, what the bootstrap read, and  *)
(* the property itself.  Only the last conjunct is of interest; the others *)
(* carry it across the window in which the file is truncated.              *)
SavesDelivered == SavingFor(SessionSavers) => pending.session = delivered

SettingsSaveKeepsSession ==
    SavingFor({"settings"}) /\ Authenticated /\ HasSession(boot.session)
        => pending.session = delivered

CurrentOnDisk ==
    (/\ phase \notin {"off", "truncated"}
     /\ Authenticated
     /\ HasSession(boot.session)
     /\ boot.session = delivered)
        => config.session = delivered

DiskInv ==
    /\ phase = "off" => ~Authenticated
    /\ phase \in {"restore", "login", "create"} => saved = config.session
    /\ SavesDelivered
    /\ SettingsSaveKeepsSession
    /\ CurrentOnDisk

LEMMA BeginSaveContents ==
    ASSUME TypeOK, ReliableStorage, NEW who, NEW session, NEW v, BeginSave(who, session, v)
    PROVE  /\ phase' = "saving" /\ after' = who
           /\ who = "settings" => pending'.session = config.session /\ pending'.settings = v
           /\ who # "settings" => pending'.session = session /\ pending'.settings = config.settings
  <1>1. ReadConfig = {config}
    BY DEF ReliableStorage, ReadConfig
  <1>2. pending' = IF who = "settings" THEN [config EXCEPT !.settings = v]
                                       ELSE [config EXCEPT !.session = session]
    BY <1>1 DEF BeginSave
  <1>3. QED
    BY <1>2 DEF TypeOK, Configs, BeginSave

(* Nothing happens to a write but that it completes, or is cut by a crash. *)
LEMMA ReliableSaves ==
    ASSUME ReliableStorage
    PROVE  ~OpenForWriteFails /\ ~FlushFails /\ ~DataDirsUnavailable
  BY DEF ReliableStorage, OpenForWriteFails, FlushFails, DataDirsUnavailable

(***************************************************************************)
(* Each writer's keys are kept by the other                                *)
(***************************************************************************)

(* The file says what its writers wrote, and a save under way carries what *)
(* the other writer had written.                                           *)
WrittenInv ==
    /\ phase # "truncated" => config = written
    /\ SavingFor({"settings"}) => pending.session = written.session
    /\ SavingFor(Savers \ {"settings"}) => pending.settings = written.settings

LEMMA WrittenSaveBegins ==
    ASSUME ReliableStorage, TypeOK, WrittenInv, NEW who \in Savers, NEW session, NEW v,
           BeginSave(who, session, v), UNCHANGED <<config, written>>, phase # "truncated"
    PROVE  WrittenInv'
  <1>1. phase' = "saving" /\ after' = who /\ config = written
    BY DEF BeginSave, WrittenInv
  <1>2. CASE who = "settings"
    BY <1>1, <1>2, BeginSaveContents DEF WrittenInv, SavingFor
  <1>3. CASE who # "settings"
    BY <1>1, <1>3, BeginSaveContents DEF WrittenInv, SavingFor
  <1>4. QED
    BY <1>2, <1>3

LEMMA WrittenWriteStep ==
    ASSUME TypeOK, WrittenInv, WriteConfig
    PROVE  WrittenInv'
  <1>1. config' = pending /\ phase = "truncated" /\ phase' \in {"idle", "load"}
    BY DEF WriteConfig, ReturnFromSave
  <1>2. pending = [session |-> pending.session, settings |-> pending.settings]
        /\ written = [session |-> written.session, settings |-> written.settings]
    BY DEF TypeOK, Configs
  <1>3. CASE after = "settings"
    <2>1. pending.session = written.session
      BY <1>1, <1>3 DEF WrittenInv, SavingFor
    <2>2. written' = [written EXCEPT !.settings = pending.settings]
      BY <1>3 DEF WriteConfig
    <2>3. QED
      BY <1>1, <1>2, <2>1, <2>2 DEF WrittenInv, SavingFor
  <1>4. CASE after # "settings"
    <2>1. pending.settings = written.settings
      BY <1>1, <1>4 DEF TypeOK, WrittenInv, SavingFor
    <2>2. written' = [written EXCEPT !.session = pending.session]
      BY <1>4 DEF WriteConfig
    <2>3. QED
      BY <1>1, <1>2, <2>1, <2>2 DEF WrittenInv, SavingFor
  <1>5. QED
    BY <1>3, <1>4

LEMMA WrittenStep == ReliableStorage /\ TypeOK /\ WrittenInv /\ [Next]_vars => WrittenInv'
  <1> SUFFICES ASSUME ReliableStorage, TypeOK, WrittenInv, [Next]_vars
               PROVE  WrittenInv'
    OBVIOUS
  <1>1. CASE TruncateConfig
    BY <1>1 DEF TruncateConfig, WrittenInv, SavingFor, saveVars
  <1>2. CASE WriteConfig
    BY <1>2, WrittenWriteStep
  <1>3. CASE SessionStillFresh \/ SessionRefreshed
    <2>1. PICK s : RestoreSucceeds(s) /\ phase \in {"restore", "op_restore"}
      BY <1>3 DEF SessionStillFresh, SessionRefreshed
    <2>2. UNCHANGED <<config, written>>
      BY <2>1 DEF RestoreSucceeds, history
    <2>3. CASE phase = "restore"
      BY <2>1, <2>2, <2>3, WrittenSaveBegins DEF RestoreSucceeds, Savers
    <2>4. CASE phase = "op_restore"
      BY <2>1, <2>2, <2>4 DEF RestoreSucceeds, WrittenInv, SavingFor
    <2>5. QED
      BY <2>1, <2>3, <2>4
  <1>4. CASE SessionCreated
    BY <1>4, WrittenSaveBegins DEF SessionCreated, Savers
  <1>5. CASE OperationEnds
    <2>1. UNCHANGED <<config, written>> /\ phase = "operation"
      BY <1>5 DEF OperationEnds, history
    <2>2. CASE BeginSave("operation", delivered, settings)
      BY <2>1, <2>2, WrittenSaveBegins DEF Savers
    <2>3. CASE phase' = "idle"
      BY <2>1, <2>3 DEF WrittenInv, SavingFor
    <2>4. QED
      BY <1>5, <2>2, <2>3 DEF OperationEnds
  <1>6. CASE ChangeSettings
    <2>1. PICK v : BeginSave("settings", NoSession, v)
      BY <1>6 DEF ChangeSettings
    <2>2. QED
      BY <1>6, <2>1, WrittenSaveBegins DEF ChangeSettings, Savers, history
  <1>7. CASE SignOut
    BY <1>7, WrittenSaveBegins DEF SignOut, Savers, history
  <1>8. CASE Crash
    <2>1. phase' = "off" /\ (phase # "truncated" => config' = config)
          /\ written' = IF phase = "truncated" THEN config' ELSE written
      BY <1>8 DEF Crash, ProcessEnds
    <2>2. QED
      BY <2>1 DEF WrittenInv, SavingFor
  <1>9. CASE RestoreError \/ RefreshReplyLost
    <2>1. /\ UNCHANGED <<config, written>>
          /\ phase \in {"restore", "op_restore"} /\ phase' \in {phase, "login", "idle"}
      BY <1>9 DEF RestoreError, RefreshReplyLost, RestoreFails, history
    <2>2. QED
      BY <2>1 DEF WrittenInv, SavingFor
  <1>10. CASE \/ NoLoginTxt \/ ReadLoginTxt \/ NullSessionCreated \/ CreateSessionFails
              \/ LoadSavedSession \/ StartOperation \/ Recheck \/ Launch \/ Exit
    <2>1. /\ UNCHANGED <<config, written>> /\ phase # "truncated"
          /\ phase' \notin {"saving", "truncated"}
      BY <1>10 DEF NoLoginTxt, ReadLoginTxt, NullSessionCreated, CreateSessionFails, BootstrapReturns,
                   LoadSavedSession, StartOperation, Recheck, Launch, Exit, ProcessEnds, history
    <2>2. QED
      BY <2>1 DEF WrittenInv, SavingFor
  <1>11. CASE UserWritesLoginTxt \/ ServerRevokes \/ UNCHANGED vars
    BY <1>11 DEF UserWritesLoginTxt, ServerRevokes, vars, saveVars, history, WrittenInv, SavingFor
  <1>12. QED
    BY <1>1, <1>2, <1>3, <1>4, <1>5, <1>6, <1>7, <1>8, <1>9, <1>10, <1>11, StepCases, ReliableSaves

LEMMA WrittenInvariant ==
    ASSUME ReliableStorage
    PROVE  Spec => []WrittenInv
  <1>1. Init => WrittenInv
    BY DEF Init, WrittenInv, SavingFor
  <1>2. TypeOK /\ WrittenInv /\ [Next]_vars => WrittenInv'
    BY WrittenStep
  <1>3. QED
    BY <1>1, <1>2, TypeCorrect, PTL DEF Spec

(***************************************************************************)
(* The session in the file is the one in memory                            *)
(***************************************************************************)

LEMMA DiskWriteStep ==
    ASSUME TypeOK, AdoptInv, DiskInv, WriteConfig
    PROVE  DiskInv'
  <1>1. config' = pending /\ phase \in {"saving", "truncated"}
    BY DEF WriteConfig
  <1>2. /\ phase' \in {"idle", "load"}
        /\ Authenticated' => boot'.session = delivered /\ delivered' = delivered
        /\ after = "settings" => boot' = boot
        /\ after = "sign_out" => boot' = NoBoot /\ phase' = "load"
    BY <1>1, ReturnFromSaveAdopts DEF WriteConfig
  <1>3. CurrentOnDisk'
    <2>1. CASE after \in SessionSavers
      BY <1>1, <1>2, <2>1 DEF DiskInv, SavesDelivered, SavingFor, CurrentOnDisk
    <2>2. CASE after = "settings"
      BY <1>1, <1>2, <2>2 DEF DiskInv, SettingsSaveKeepsSession, SavingFor, CurrentOnDisk,
                              Authenticated
    <2>3. CASE after = "sign_out"
      BY <1>2, <2>3 DEF CurrentOnDisk, Authenticated, NoBoot
    <2>4. QED
      BY <2>1, <2>2, <2>3 DEF TypeOK, Savers, SessionSavers
  <1>4. QED
    BY <1>2, <1>3 DEF DiskInv, SavesDelivered, SettingsSaveKeepsSession, SavingFor

LEMMA DiskRestoreStep ==
    ASSUME TypeOK, AdoptInv, DiskInv, ReliableStorage, SessionStillFresh \/ SessionRefreshed
    PROVE  DiskInv'
  <1>1. PICK s : /\ RestoreSucceeds(s)
                 /\ phase \in {"restore", "op_restore"}
                 /\ s = RestoringSession \/ s = issued + 1
    BY DEF SessionStillFresh, SessionRefreshed
  <1>2. config' = config /\ boot' = boot /\ delivered' = s
    BY <1>1 DEF RestoreSucceeds, appVars
  <1>3. CASE phase = "restore"
    <2>1. /\ phase' = "saving" /\ after' = "restored"
          /\ pending'.session = s
      BY <1>1, <1>3, BeginSaveContents DEF RestoreSucceeds
    <2>2. boot.session # issued + 1
      BY DEF TypeOK
    <2>3. CurrentOnDisk'
      BY <1>1, <1>2, <1>3, <2>2 DEF DiskInv, CurrentOnDisk, RestoringSession
    <2>4. QED
      BY <1>2, <2>1, <2>3 DEF DiskInv, SavesDelivered, SettingsSaveKeepsSession, SavingFor
  <1>4. CASE phase = "op_restore"
    <2>1. phase' = "operation"
      BY <1>1, <1>4 DEF RestoreSucceeds
    <2>2. boot.session # issued + 1
      BY DEF TypeOK
    <2>3. CurrentOnDisk'
      BY <1>1, <1>2, <1>4, <2>2
         DEF DiskInv, AdoptInv, InMainLoop, CurrentOnDisk, RestoringSession, Authenticated
    <2>4. QED
      BY <2>1, <2>3 DEF DiskInv, SavesDelivered, SettingsSaveKeepsSession, SavingFor
  <1>5. QED
    BY <1>1, <1>3, <1>4

LEMMA DiskStep == ReliableStorage /\ TypeOK /\ AdoptInv /\ DiskInv /\ [Next]_vars => DiskInv'
  <1> SUFFICES ASSUME ReliableStorage, TypeOK, AdoptInv, DiskInv, [Next]_vars
               PROVE  DiskInv'
    OBVIOUS
  <1>1. CASE TruncateConfig
    BY <1>1 DEF TruncateConfig, DiskInv, SavesDelivered, SettingsSaveKeepsSession, SavingFor,
                CurrentOnDisk, Authenticated, saveVars, appVars
  <1>2. CASE WriteConfig
    BY <1>2, DiskWriteStep
  <1>3. CASE SessionStillFresh \/ SessionRefreshed
    BY <1>3, DiskRestoreStep
  <1>4. CASE RestoreError \/ RefreshReplyLost
    <2>1. /\ UNCHANGED <<config, saved, delivered, boot>>
          /\ phase' \in {phase, "login", "idle"} /\ phase' # "saving"
          /\ phase \in {"restore", "op_restore"}
          /\ phase = "op_restore" => phase' \in {"op_restore", "idle"}
          /\ phase = "restore" => phase' \in {"restore", "login"}
      BY <1>4 DEF RestoreError, RefreshReplyLost, RestoreFails, appVars
    <2>2. QED
      BY <2>1 DEF DiskInv, SavesDelivered, SettingsSaveKeepsSession, SavingFor,
                  CurrentOnDisk, Authenticated
  <1>5. CASE NoLoginTxt \/ CreateSessionFails \/ NullSessionCreated
    <2>1. phase' = "idle" /\ boot'.session = NoSession
      BY <1>5 DEF NoLoginTxt, CreateSessionFails, NullSessionCreated, BootstrapReturns
    <2>2. QED
      BY <2>1 DEF DiskInv, SavesDelivered, SettingsSaveKeepsSession, SavingFor,
                  CurrentOnDisk, HasSession
  <1>6. CASE ReadLoginTxt
    <2>1. /\ phase = "login" /\ UNCHANGED <<config, saved, delivered>>
          /\ \/ phase' = "create" /\ boot' = boot
             \/ phase' = "idle" /\ boot'.session = NoSession
      BY <1>6 DEF ReadLoginTxt, BootstrapReturns
    <2>2. QED
      BY <2>1 DEF DiskInv, SavesDelivered, SettingsSaveKeepsSession, SavingFor,
                  CurrentOnDisk, HasSession, Authenticated
  <1>7. CASE LoadSavedSession
    <2>1. /\ phase = "load" /\ phase' \in {"restore", "login"}
          /\ saved' = config.session /\ UNCHANGED <<config, delivered, boot>>
      BY <1>7 DEF LoadSavedSession, ReadConfig, ReliableStorage, appVars
    <2>2. QED
      BY <2>1 DEF DiskInv, SavesDelivered, SettingsSaveKeepsSession, SavingFor,
                  CurrentOnDisk, Authenticated
  <1>8. CASE SessionCreated
    <2>1. /\ phase' = "saving" /\ after' = "created" /\ pending'.session = issued + 1
      BY <1>8, BeginSaveContents DEF SessionCreated
    <2>2. delivered' = issued + 1 /\ boot' = boot /\ boot.session # issued + 1
      BY <1>8 DEF SessionCreated, appVars, TypeOK
    <2>3. QED
      BY <2>1, <2>2 DEF DiskInv, SavesDelivered, SettingsSaveKeepsSession, SavingFor,
                        CurrentOnDisk
  <1>9. CASE OperationEnds
    <2>1. UNCHANGED <<config, delivered, boot>> /\ phase = "operation"
      BY <1>9 DEF OperationEnds
    <2>2. \/ phase' = "saving" /\ after' = "operation" /\ pending'.session = delivered
          \/ phase' = "idle"
      BY <1>9, BeginSaveContents DEF OperationEnds
    <2>3. QED
      BY <2>1, <2>2 DEF DiskInv, SavesDelivered, SettingsSaveKeepsSession, SavingFor,
                        CurrentOnDisk, Authenticated, SessionSavers
  <1>10. CASE ChangeSettings
    <2>1. UNCHANGED <<config, delivered, boot>> /\ phase = "idle"
      BY <1>10 DEF ChangeSettings
    <2>2. phase' = "saving" /\ after' = "settings" /\ pending'.session = config.session
      BY <1>10, BeginSaveContents DEF ChangeSettings
    <2>3. QED
      BY <2>1, <2>2 DEF DiskInv, AdoptInv, InMainLoop, SavesDelivered, SettingsSaveKeepsSession,
                        SavingFor, CurrentOnDisk, Authenticated, SessionSavers
  <1>11. CASE SignOut
    <2>1. UNCHANGED <<config, delivered, boot>> /\ phase = "idle"
      BY <1>11 DEF SignOut, appVars
    <2>2. phase' = "saving" /\ after' = "sign_out"
      BY <1>11 DEF SignOut, BeginSave
    <2>3. QED
      BY <2>1, <2>2 DEF DiskInv, SavesDelivered, SettingsSaveKeepsSession, SavingFor,
                        CurrentOnDisk, Authenticated, SessionSavers
  <1>12. CASE StartOperation \/ Recheck
    <2>1. UNCHANGED <<config, delivered, boot>> /\ phase = "idle"
      BY <1>12 DEF StartOperation, Recheck, appVars
    <2>2. phase' \in {"op_restore", "load"}
      BY <1>12 DEF StartOperation, Recheck
    <2>3. QED
      BY <2>1, <2>2 DEF DiskInv, SavesDelivered, SettingsSaveKeepsSession, SavingFor,
                        CurrentOnDisk, Authenticated
  <1>13. CASE Launch
    <2>1. ~Authenticated' /\ phase' = "load"
      BY <1>13 DEF Launch, DiskInv, Authenticated
    <2>2. QED
      BY <2>1 DEF DiskInv, SavesDelivered, SettingsSaveKeepsSession, SavingFor, CurrentOnDisk
  <1>14. CASE Exit \/ Crash
    <2>1. ~Authenticated' /\ phase' = "off"
      BY <1>14 DEF Exit, Crash, ProcessEnds, Authenticated, NoBoot
    <2>2. QED
      BY <2>1 DEF DiskInv, SavesDelivered, SettingsSaveKeepsSession, SavingFor, CurrentOnDisk
  <1>15. CASE UserWritesLoginTxt \/ ServerRevokes
    <2>1. UNCHANGED <<config, phase, saved, delivered, pending, after, boot>>
      BY <1>15 DEF UserWritesLoginTxt, ServerRevokes, saveVars, appVars
    <2>2. QED
      BY <2>1 DEF DiskInv, SavesDelivered, SettingsSaveKeepsSession, SavingFor,
                  CurrentOnDisk, Authenticated
  <1>16. CASE UNCHANGED vars
    BY <1>16 DEF vars, DiskInv, SavesDelivered, SettingsSaveKeepsSession, SavingFor,
                 CurrentOnDisk, Authenticated
  <1>17. QED
    BY <1>1, <1>2, <1>3, <1>4, <1>5, <1>6, <1>7, <1>8, <1>9, <1>10, <1>11, <1>12,
       <1>13, <1>14, <1>15, <1>16, StepCases, ReliableSaves

LEMMA DiskInvariant ==
    ASSUME ReliableStorage
    PROVE  Spec => []DiskInv
  <1>1. Init => DiskInv
    BY DEF Init, DiskInv, SavesDelivered, SettingsSaveKeepsSession, SavingFor,
           CurrentOnDisk, Authenticated, NoBoot
  <1>2. TypeOK /\ AdoptInv /\ DiskInv /\ [Next]_vars => DiskInv'
    BY DiskStep
  <1>3. QED
    BY <1>1, <1>2, TypeCorrect, AdoptInvariant, PTL DEF Spec

(* As long as storage neither refuses a read nor a write, a crash between  *)
(* any two steps finds in config.ini the session that was written last,    *)
(* and that is the application's: neither saving settings, nor a failed    *)
(* Recheck, nor a relaunch costs the login.  The one exception is a crash  *)
(* after the file was emptied for a write and before it is complete, be it *)
(* a write of the settings only: what is left of the session then is what  *)
(* counts as written.                                                      *)
THEOREM SessionDurable ==
    ASSUME ReliableStorage
    PROVE  Spec => []SessionOnDisk
  <1>1. DiskInv /\ WrittenInv => SessionOnDisk
    BY DEF DiskInv, CurrentOnDisk, WrittenInv, SessionOnDisk
  <1>2. QED
    BY <1>1, DiskInvariant, WrittenInvariant, PTL

(***************************************************************************)
(* Settings survive the session's saves                                    *)
(***************************************************************************)

(* The file has the settings of memory, except while it is truncated and   *)
(* while changed settings wait for their save; every save carries them.    *)
SettingsInv ==
    /\ phase \notin {"off", "truncated"} /\ ~(phase = "saving" /\ after = "settings")
         => config.settings = settings
    /\ phase \in {"saving", "truncated"} => pending.settings = settings

LEMMA SettingsSaveBegins ==
    ASSUME ReliableStorage, TypeOK, SettingsInv, NEW who, NEW session, NEW v,
           BeginSave(who, session, v), config' = config,
           IF who = "settings" THEN settings' = v
           ELSE settings' = settings /\ phase \notin {"off", "saving", "truncated"}
    PROVE  SettingsInv'
  <1>1. phase' = "saving" /\ after' = who
    BY DEF BeginSave
  <1>2. CASE who = "settings"
    BY <1>1, <1>2, BeginSaveContents DEF SettingsInv
  <1>3. CASE who # "settings"
    BY <1>1, <1>3, BeginSaveContents DEF SettingsInv
  <1>4. QED
    BY <1>2, <1>3

LEMMA SettingsStep == ReliableStorage /\ TypeOK /\ SettingsInv /\ [Next]_vars => SettingsInv'
  <1> SUFFICES ASSUME ReliableStorage, TypeOK, SettingsInv, [Next]_vars
               PROVE  SettingsInv'
    OBVIOUS
  <1>1. CASE TruncateConfig
    BY <1>1 DEF TruncateConfig, SettingsInv, saveVars, appVars
  <1>2. CASE WriteConfig
    BY <1>2 DEF WriteConfig, ReturnFromSave, SettingsInv
  <1>3. CASE SessionStillFresh \/ SessionRefreshed
    <2>1. PICK s : RestoreSucceeds(s) /\ phase \in {"restore", "op_restore"}
      BY <1>3 DEF SessionStillFresh, SessionRefreshed
    <2>2. config' = config /\ settings' = settings
      BY <2>1 DEF RestoreSucceeds, appVars
    <2>3. CASE phase = "restore"
      BY <2>1, <2>2, <2>3, SettingsSaveBegins DEF RestoreSucceeds
    <2>4. CASE phase = "op_restore"
      BY <2>1, <2>2, <2>4 DEF RestoreSucceeds, SettingsInv
    <2>5. QED
      BY <2>1, <2>3, <2>4
  <1>4. CASE RestoreError \/ RefreshReplyLost
    <2>1. /\ UNCHANGED <<config, settings>>
          /\ phase \in {"restore", "op_restore"} /\ phase' \in {phase, "login", "idle"}
      BY <1>4 DEF RestoreError, RefreshReplyLost, RestoreFails, appVars
    <2>2. QED
      BY <2>1 DEF SettingsInv
  <1>5. CASE NoLoginTxt \/ ReadLoginTxt \/ NullSessionCreated \/ CreateSessionFails
    <2>1. /\ UNCHANGED <<config, settings>>
          /\ phase \in {"login", "create"} /\ phase' \in {"create", "idle"}
      BY <1>5 DEF NoLoginTxt, ReadLoginTxt, NullSessionCreated, CreateSessionFails,
                  BootstrapReturns
    <2>2. QED
      BY <2>1 DEF SettingsInv
  <1>6. CASE LoadSavedSession
    <2>1. UNCHANGED <<config, settings>> /\ phase = "load" /\ phase' \in {"restore", "login"}
      BY <1>6 DEF LoadSavedSession, appVars
    <2>2. QED
      BY <2>1 DEF SettingsInv
  <1>7. CASE SessionCreated
    BY <1>7, SettingsSaveBegins DEF SessionCreated, appVars
  <1>8. CASE OperationEnds
    <2>1. UNCHANGED <<config, settings>> /\ phase = "operation"
      BY <1>8 DEF OperationEnds
    <2>2. CASE BeginSave("operation", delivered, settings)
      BY <2>1, <2>2, SettingsSaveBegins
    <2>3. CASE phase' = "idle"
      BY <2>1, <2>3 DEF SettingsInv
    <2>4. QED
      BY <1>8, <2>2, <2>3 DEF OperationEnds
  <1>9. CASE ChangeSettings
    <2>1. PICK v : settings' = v /\ BeginSave("settings", NoSession, v)
      BY <1>9 DEF ChangeSettings
    <2>2. QED
      BY <1>9, <2>1, SettingsSaveBegins DEF ChangeSettings
  <1>10. CASE SignOut
    BY <1>10, SettingsSaveBegins DEF SignOut, appVars
  <1>11. CASE StartOperation \/ Recheck
    <2>1. UNCHANGED <<config, settings>> /\ phase = "idle" /\ phase' \in {"op_restore", "load"}
      BY <1>11 DEF StartOperation, Recheck, appVars
    <2>2. QED
      BY <2>1 DEF SettingsInv
  <1>12. CASE Launch
    <2>1. config' = config /\ settings' = config.settings /\ phase' = "load"
      BY <1>12 DEF Launch, ReadConfig, ReliableStorage
    <2>2. QED
      BY <2>1 DEF SettingsInv
  <1>13. CASE Exit \/ Crash
    BY <1>13 DEF Exit, Crash, ProcessEnds, SettingsInv
  <1>14. CASE UserWritesLoginTxt \/ ServerRevokes
    BY <1>14 DEF UserWritesLoginTxt, ServerRevokes, saveVars, appVars, SettingsInv
  <1>15. CASE UNCHANGED vars
    BY <1>15 DEF vars, SettingsInv
  <1>16. QED
    BY <1>1, <1>2, <1>3, <1>4, <1>5, <1>6, <1>7, <1>8, <1>9, <1>10, <1>11, <1>12,
       <1>13, <1>14, <1>15, StepCases, ReliableSaves

(* As long as storage neither refuses a read nor a write, the file holds   *)
(* the settings that were saved last, and the idle application uses them:  *)
(* no refresh, login or sign-out, each of which rewrites the file that     *)
(* holds both, and no crash between two steps changes them.  The one       *)
(* exception is a crash after the file was emptied for a write and before  *)
(* it is complete, be it a write of the session only: the settings that    *)
(* are left then, or their defaults, are what the next launch takes.       *)
THEOREM SettingsDurable ==
    ASSUME ReliableStorage
    PROVE  Spec => []SettingsOnDisk
  <1>1. Init => SettingsInv
    BY DEF Init, SettingsInv
  <1>2. TypeOK /\ SettingsInv /\ [Next]_vars => SettingsInv'
    BY SettingsStep
  <1>3. SettingsInv /\ WrittenInv => SettingsOnDisk
    BY DEF SettingsInv, WrittenInv, SettingsOnDisk
  <1>4. QED
    BY <1>1, <1>2, <1>3, TypeCorrect, WrittenInvariant, PTL DEF Spec

(***************************************************************************)
(* A failed bootstrap keeps the session                                    *)
(***************************************************************************)

BootFailed == boot.state = "error"

(* After a failed bootstrap there is no session in memory, so that nothing *)
(* can be restored with it; only settings are saved, with the session that *)
(* the bootstrap had read.                                                 *)
KeepInv ==
    BootFailed =>
        /\ boot.session = NoSession
        /\ phase # "operation" /\ ~SavingFor({"operation"})
        /\ phase \in {"idle", "op_restore"} \/ (phase = "saving" /\ after = "settings")
             => config.session = saved
        /\ SavingFor({"settings"}) => pending.session = saved

LEMMA KeepStep ==
    ReliableStorage /\ TypeOK /\ DiskInv /\ KeepInv /\ [Next]_vars => KeepInv'
  <1> SUFFICES ASSUME ReliableStorage, TypeOK, DiskInv, KeepInv, [Next]_vars, BootFailed'
               PROVE  KeepInv'
    BY DEF KeepInv
  <1> USE DEF KeepInv, BootFailed, SavingFor
  <1>1. CASE TruncateConfig
    BY <1>1 DEF TruncateConfig, saveVars, appVars
  <1>2. CASE WriteConfig
    BY <1>2 DEF WriteConfig, ReturnFromSave, NoBoot, TypeOK, Savers
  <1>3. CASE SessionStillFresh \/ SessionRefreshed
    <2>1. PICK s : /\ RestoreSucceeds(s) /\ phase \in {"restore", "op_restore"}
                   /\ RestoringSession \in accepts
      BY <1>3 DEF SessionStillFresh, SessionRefreshed, ServerRotates
    <2>2. boot' = boot
      BY <2>1 DEF RestoreSucceeds, appVars
    <2>3. phase = "restore"
      BY <2>1, <2>2 DEF RestoringSession, TypeOK, NoSession
    <2>4. phase' = "saving" /\ after' = "restored"
      BY <2>1, <2>3 DEF RestoreSucceeds, BeginSave
    <2>5. QED
      BY <2>2, <2>4
  <1>4. CASE RestoreError \/ RefreshReplyLost
    <2>1. /\ UNCHANGED <<config, saved, boot>>
          /\ phase = "op_restore" => phase' \in {"op_restore", "idle"}
          /\ phase = "restore" => phase' \in {"restore", "login"}
          /\ phase \in {"restore", "op_restore"}
      BY <1>4 DEF RestoreError, RefreshReplyLost, RestoreFails, appVars
    <2>2. QED
      BY <2>1
  <1>5. CASE NoLoginTxt \/ CreateSessionFails \/ NullSessionCreated \/ ReadLoginTxt
    <2>1. /\ UNCHANGED <<config, saved>> /\ phase \in {"login", "create"}
          /\ \/ phase' = "idle" /\ boot'.session = NoSession
             \/ phase' = "create" /\ boot' = boot
      BY <1>5 DEF NoLoginTxt, CreateSessionFails, NullSessionCreated, ReadLoginTxt,
                  BootstrapReturns
    <2>2. QED
      BY <2>1 DEF DiskInv
  <1>6. CASE LoadSavedSession
    BY <1>6 DEF LoadSavedSession, appVars
  <1>7. CASE SessionCreated
    BY <1>7 DEF SessionCreated, BeginSave, appVars
  <1>8. CASE OperationEnds
    BY <1>8 DEF OperationEnds
  <1>9. CASE ChangeSettings
    <2>1. UNCHANGED <<config, saved, boot>> /\ phase = "idle"
      BY <1>9 DEF ChangeSettings
    <2>2. phase' = "saving" /\ after' = "settings" /\ pending'.session = config.session
      BY <1>9, BeginSaveContents DEF ChangeSettings
    <2>3. QED
      BY <2>1, <2>2
  <1>10. CASE SignOut
    BY <1>10 DEF SignOut, BeginSave, appVars
  <1>11. CASE StartOperation \/ Recheck
    BY <1>11 DEF StartOperation, Recheck, appVars
  <1>12. CASE Launch
    BY <1>12 DEF Launch
  <1>13. CASE Exit \/ Crash
    BY <1>13 DEF Exit, Crash, ProcessEnds, NoBoot
  <1>14. CASE UserWritesLoginTxt \/ ServerRevokes
    BY <1>14 DEF UserWritesLoginTxt, ServerRevokes, saveVars, appVars
  <1>15. CASE UNCHANGED vars
    BY <1>15 DEF vars
  <1>16. QED
    BY <1>1, <1>2, <1>3, <1>4, <1>5, <1>6, <1>7, <1>8, <1>9, <1>10, <1>11, <1>12,
       <1>13, <1>14, <1>15, StepCases, ReliableSaves

(* As long as storage neither refuses a read nor a write, a bootstrap that *)
(* failed leaves the saved session in the file, and so does everything     *)
(* that can be done in the views that stay open after it.                  *)
THEOREM FailedBootHarmless ==
    ASSUME ReliableStorage
    PROVE  Spec => []FailedBootKeepsSession
  <1>1. Init => KeepInv
    BY DEF Init, KeepInv, BootFailed, NoBoot
  <1>2. TypeOK /\ DiskInv /\ KeepInv /\ [Next]_vars => KeepInv'
    BY KeepStep
  <1>3. KeepInv => FailedBootKeepsSession
    BY DEF KeepInv, BootFailed, FailedBootKeepsSession
  <1>4. QED
    BY <1>1, <1>2, <1>3, TypeCorrect, DiskInvariant, PTL DEF Spec

(***************************************************************************)
(* The server still accepts what an idle application holds                 *)
(***************************************************************************)

AnsweredAndUnrevoked == Faults \cap {"lost_reply", "revoke"} = {}

UsableInv ==
    /\ Authenticated /\ HasSession(boot.session) /\ InMainLoop => boot.session \in accepts
    /\ phase = "operation" \/ SavingFor(SessionSavers) => delivered \in accepts

LEMMA UsableStep ==
    AnsweredAndUnrevoked /\ TypeOK /\ AdoptInv /\ UsableInv /\ [Next]_vars => UsableInv'
  <1> SUFFICES ASSUME AnsweredAndUnrevoked, TypeOK, AdoptInv, UsableInv, [Next]_vars
               PROVE  UsableInv'
    OBVIOUS
  <1> USE DEF UsableInv, SavingFor, SessionSavers, InMainLoop, Authenticated
  <1>1. CASE OpenForWriteFails \/ WriteConfig \/ FlushFails
    <2>1. ReturnFromSave /\ phase \in {"saving", "truncated"} /\ accepts' = accepts
      BY <1>1 DEF OpenForWriteFails, WriteConfig, FlushFails, ReturnFromSave, server
    <2>2. /\ phase' \in {"idle", "load"}
          /\ Authenticated' => boot'.session = delivered
          /\ after = "settings" => boot' = boot
          /\ after = "sign_out" => boot' = NoBoot
      BY <2>1, ReturnFromSaveAdopts
    <2>3. CASE after \in SessionSavers
      BY <2>1, <2>2, <2>3
    <2>4. CASE after \in {"settings", "sign_out"}
      BY <2>1, <2>2, <2>4 DEF NoBoot
    <2>5. QED
      BY <2>3, <2>4 DEF TypeOK, Savers
  <1>2. CASE TruncateConfig
    BY <1>2 DEF TruncateConfig, saveVars, appVars, server
  <1>3. CASE SessionStillFresh
    <2>1. /\ delivered' = RestoringSession /\ RestoringSession \in accepts
          /\ accepts' = accepts
          /\ phase' = "operation" \/ (phase' = "saving" /\ after' = "restored")
      BY <1>3 DEF SessionStillFresh, RestoreSucceeds, BeginSave, server
    <2>2. QED
      BY <2>1
  <1>4. CASE SessionRefreshed
    <2>1. /\ delivered' = issued + 1 /\ issued + 1 \in accepts'
          /\ phase' = "operation" \/ (phase' = "saving" /\ after' = "restored")
      BY <1>4 DEF SessionRefreshed, ServerRotates, RestoreSucceeds, BeginSave
    <2>2. QED
      BY <2>1
  <1>5. CASE RestoreError
    <2>1. /\ UNCHANGED <<accepts, delivered, boot, after>>
          /\ phase = "op_restore" => phase' \in {"op_restore", "idle"}
          /\ phase = "restore" => phase' \in {"restore", "login"}
          /\ phase \in {"restore", "op_restore"}
      BY <1>5 DEF RestoreError, RestoreFails, server, saveVars, appVars
    <2>2. QED
      BY <2>1
  <1>6. CASE DataDirsUnavailable \/ NoLoginTxt \/ CreateSessionFails \/ NullSessionCreated
    <2>1. phase' = "idle" /\ boot'.session = NoSession
      BY <1>6 DEF DataDirsUnavailable, NoLoginTxt, CreateSessionFails, NullSessionCreated,
                  BootstrapReturns
    <2>2. QED
      BY <2>1 DEF HasSession
  <1>7. CASE ReadLoginTxt
    <2>1. phase' = "create" \/ (phase' = "idle" /\ boot'.session = NoSession)
      BY <1>7 DEF ReadLoginTxt, BootstrapReturns
    <2>2. QED
      BY <2>1 DEF HasSession
  <1>8. CASE LoadSavedSession
    BY <1>8 DEF LoadSavedSession
  <1>9. CASE SessionCreated
    BY <1>9 DEF SessionCreated, BeginSave
  <1>10. CASE OperationEnds
    BY <1>10 DEF OperationEnds, BeginSave, server
  <1>11. CASE ChangeSettings
    BY <1>11 DEF ChangeSettings, BeginSave, server
  <1>12. CASE SignOut
    BY <1>12 DEF SignOut, BeginSave, server, appVars
  <1>13. CASE StartOperation \/ Recheck
    BY <1>13 DEF StartOperation, Recheck, server, appVars
  <1>14. CASE Launch
    BY <1>14 DEF Launch
  <1>15. CASE Exit \/ Crash
    BY <1>15 DEF Exit, Crash, ProcessEnds
  <1>16. CASE UserWritesLoginTxt
    BY <1>16 DEF UserWritesLoginTxt, server, saveVars, appVars
  <1>17. CASE UNCHANGED vars
    BY <1>17 DEF vars
  <1>18. ~RefreshReplyLost /\ ~ServerRevokes
    BY DEF AnsweredAndUnrevoked, RefreshReplyLost, ServerRevokes
  <1>19. QED
    BY <1>1, <1>2, <1>3, <1>4, <1>5, <1>6, <1>7, <1>8, <1>9, <1>10, <1>11, <1>12,
       <1>13, <1>14, <1>15, <1>16, <1>17, <1>18, StepCases

(* Even when every refresh invalidates the tokens it used, an idle signed-in *)
(* application holds tokens the server accepts, in memory and on disk, if   *)
(* every answer arrives and storage is reliable; crashes are allowed        *)
(* anywhere.                                                                *)
THEOREM IdleSessionAccepted ==
    ASSUME ReliableStorage, AnsweredAndUnrevoked
    PROVE  Spec => []IdleSessionUsable
  <1>1. Init => UsableInv
    BY DEF Init, UsableInv, SavingFor, InMainLoop
  <1>2. TypeOK /\ AdoptInv /\ UsableInv /\ [Next]_vars => UsableInv'
    BY UsableStep
  <1>3. Spec => []UsableInv
    BY <1>1, <1>2, TypeCorrect, AdoptInvariant, PTL DEF Spec
  <1>4. AdoptInv /\ DiskInv /\ UsableInv => IdleSessionUsable
    BY DEF AdoptInv, DiskInv, UsableInv, IdleSessionUsable, CurrentOnDisk, InMainLoop
  <1>5. QED
    BY <1>3, <1>4, AdoptInvariant, DiskInvariant, PTL

(***************************************************************************)
(* A sign-out is final                                                     *)
(***************************************************************************)

(* No session is left in what the file, a write under way or a later step  *)
(* of the application could bring back.                                    *)
Forgotten ==
    /\ ~HasSession(config.session)
    /\ phase # "restore"
    /\ ~SavingFor(SessionSavers)
    /\ SavingFor({"settings"}) => ~HasSession(pending.session)
    /\ \/ SavingFor({"sign_out"})
       \/ /\ ~HasSession(boot.session)
          /\ Authenticated \/ feedOpen \/ phase \in {"op_restore", "operation"} =>
                 ~HasSession(delivered)

ForgetInv ==
    /\ SavingFor({"sign_out"}) => ~HasSession(pending.session)
    /\ signedOut => Forgotten

LEMMA ForgetSaveEnds ==
    ASSUME TypeOK, ForgetInv, OpenForWriteFails \/ WriteConfig \/ FlushFails
    PROVE  ForgetInv'
  <1>1. phase \in {"saving", "truncated"} /\ ReturnFromSave
    BY DEF OpenForWriteFails, WriteConfig, FlushFails
  <1>2. phase' \in {"load", "idle"} /\ signedOut' = signedOut
    BY <1>1 DEF ReturnFromSave
  <1>3. SUFFICES ASSUME signedOut
                 PROVE  Forgotten'
    BY <1>2 DEF ForgetInv, SavingFor
  <1>4. after \in {"settings", "sign_out"} /\ ~HasSession(pending.session)
    BY <1>1, <1>3 DEF ForgetInv, Forgotten, SavingFor, SessionSavers, TypeOK, Savers
  <1>5. ~HasSession(config'.session)
    BY <1>3, <1>4 DEF ForgetInv, Forgotten, OpenForWriteFails, WriteConfig, FlushFails, Torn,
       HasSession
  <1>6. CASE after = "sign_out"
    BY <1>1, <1>2, <1>5, <1>6
       DEF ReturnFromSave, NoBoot, Forgotten, SavingFor, HasSession, Authenticated
  <1>7. CASE after = "settings"
    <2>1. UNCHANGED <<boot, feedOpen, delivered>>
      BY <1>1, <1>7 DEF ReturnFromSave
    <2>2. /\ ~HasSession(boot.session)
          /\ Authenticated \/ feedOpen => ~HasSession(delivered)
      BY <1>3, <1>7 DEF ForgetInv, Forgotten, SavingFor
    <2> QED BY <1>2, <1>5, <2>1, <2>2 DEF Forgotten, SavingFor, HasSession, Authenticated
  <1> QED BY <1>4, <1>6, <1>7

(* The server accepts no empty session, so nothing is restored from one.   *)
LEMMA ForgetRestoreSucceeds ==
    ASSUME TypeOK, ForgetInv, SessionStillFresh \/ SessionRefreshed
    PROVE  ForgetInv'
  <1>1. /\ phase \in {"restore", "op_restore"} /\ RestoringSession \in accepts
        /\ signedOut' = signedOut
    BY DEF history, SessionStillFresh, SessionRefreshed, ServerRotates, RestoreSucceeds
  <1>2. RestoringSession # NoSession
    BY <1>1 DEF TypeOK, NoSession
  <1>3. ~signedOut
    BY <1>1, <1>2 DEF ForgetInv, Forgotten, RestoringSession, HasSession, SavingFor
  <1>4. ~SavingFor({"sign_out"})'
    BY <1>1 DEF SessionStillFresh, SessionRefreshed, RestoreSucceeds, BeginSave, SavingFor
  <1> QED BY <1>1, <1>3, <1>4 DEF ForgetInv

LEMMA ForgetStep == TypeOK /\ ForgetInv /\ [Next]_vars => ForgetInv'
  <1> SUFFICES ASSUME TypeOK, ForgetInv, [Next]_vars
               PROVE  ForgetInv'
    OBVIOUS
  <1>1. CASE TruncateConfig
    <2>1. phase = "saving" /\ phase' = "truncated" /\ config' = EmptyConfig
      BY <1>1 DEF TruncateConfig
    <2>2. UNCHANGED <<delivered, pending, after, boot, feedOpen>>
      BY <1>1 DEF TruncateConfig, saveVars, appVars
    <2>3. signedOut' = (signedOut \/ after = "sign_out")
      BY <1>1 DEF TruncateConfig
    <2>4. SavingFor({"sign_out"})' => ~HasSession(pending'.session)
      BY <2>1, <2>2 DEF ForgetInv, SavingFor, HasSession
    <2>5. CASE after = "sign_out"
      BY <2>1, <2>2, <2>4, <2>5
         DEF ForgetInv, Forgotten, SavingFor, SessionSavers, EmptyConfig, HasSession
    <2>6. CASE after # "sign_out"
      BY <2>1, <2>2, <2>3, <2>4, <2>6
         DEF ForgetInv, Forgotten, SavingFor, SessionSavers, EmptyConfig, HasSession,
             Authenticated
    <2> QED BY <2>5, <2>6
  <1>2. CASE OpenForWriteFails \/ WriteConfig \/ FlushFails
    BY <1>2, ForgetSaveEnds
  <1>3. CASE SessionStillFresh \/ SessionRefreshed
    BY <1>3, ForgetRestoreSucceeds
  <1>4. CASE RestoreError \/ RefreshReplyLost
    <2>1. /\ UNCHANGED <<config, delivered, pending, after, boot, feedOpen, signedOut>>
          /\ phase \in {"restore", "op_restore"}
          /\ phase' \in {phase, "login", "idle"}
          /\ phase' = "login" => phase = "restore"
      BY <1>4 DEF history, RestoreError, RefreshReplyLost, RestoreFails, saveVars, appVars
    <2> QED BY <2>1 DEF ForgetInv, Forgotten, SavingFor, HasSession, Authenticated
  <1>5. CASE DataDirsUnavailable \/ NoLoginTxt \/ CreateSessionFails
    <2>1. /\ phase' = "idle" /\ boot'.session = NoSession
          /\ boot'.state \in {"waiting_for_login", "error"}
          /\ phase \in {"load", "login", "create"}
          /\ UNCHANGED <<config, delivered, feedOpen, signedOut>>
      BY <1>5 DEF history, DataDirsUnavailable, NoLoginTxt, CreateSessionFails, BootstrapReturns
    <2> QED BY <2>1 DEF ForgetInv, Forgotten, SavingFor, HasSession, Authenticated
  <1>6. CASE NullSessionCreated
    <2>1. /\ phase' = "idle" /\ boot'.session = NoSession /\ delivered' = NoSession
          /\ UNCHANGED <<config, signedOut>>
      BY <1>6 DEF history, NullSessionCreated, BootstrapReturns
    <2> QED BY <2>1 DEF ForgetInv, Forgotten, SavingFor, HasSession
  <1>7. CASE ReadLoginTxt
    <2>1. /\ phase = "login" /\ UNCHANGED <<config, delivered, feedOpen, signedOut>>
          /\ \/ phase' = "create" /\ boot' = boot
             \/ /\ phase' = "idle" /\ boot'.session = NoSession /\ boot'.state = "error"
      BY <1>7 DEF history, ReadLoginTxt, BootstrapReturns
    <2> QED BY <2>1 DEF ForgetInv, Forgotten, SavingFor, HasSession, Authenticated
  <1>8. CASE LoadSavedSession
    <2>1. /\ phase = "load" /\ UNCHANGED <<config, delivered, boot, feedOpen, signedOut>>
          /\ \E c \in ReadConfig : phase' = IF HasSession(c.session) THEN "restore" ELSE "login"
      BY <1>8 DEF history, LoadSavedSession, appVars
    <2>2. signedOut => phase' = "login"
      BY <2>1 DEF ForgetInv, Forgotten, ReadConfig, EmptyConfig, HasSession
    <2>3. phase' \in {"restore", "login"}
      BY <2>1
    <2> QED BY <2>1, <2>2, <2>3 DEF ForgetInv, Forgotten, SavingFor, HasSession, Authenticated
  <1>9. CASE SessionCreated
    <2>1. ~signedOut' /\ after' = "created"
      BY <1>9 DEF SessionCreated, BeginSave
    <2> QED BY <2>1 DEF ForgetInv, SavingFor
  <1>10. CASE OperationEnds
    <2>1. phase = "operation" /\ UNCHANGED <<config, delivered, boot, signedOut>>
      BY <1>10 DEF history, OperationEnds
    <2>2. \/ phase' = "idle"
          \/ phase' = "saving" /\ after' = "operation" /\ delivered # boot.session
      BY <1>10 DEF OperationEnds, BeginSave
    <2>3. signedOut => ~HasSession(delivered) /\ ~HasSession(boot.session)
      BY <2>1 DEF ForgetInv, Forgotten, SavingFor
    <2>4. signedOut => phase' = "idle"
      BY <2>2, <2>3 DEF HasSession
    <2> QED BY <2>1, <2>2, <2>3, <2>4 DEF ForgetInv, Forgotten, SavingFor, HasSession
  <1>11. CASE ChangeSettings
    <2>1. phase = "idle" /\ UNCHANGED <<config, delivered, boot, feedOpen, signedOut>>
      BY <1>11 DEF history, ChangeSettings
    <2>2. /\ phase' = "saving" /\ after' = "settings"
          /\ \E base \in ReadConfig : pending'.session = base.session
      <3>1. PICK v \in SettingsValues : BeginSave("settings", NoSession, v)
        BY <1>11 DEF ChangeSettings
      <3>2. PICK base \in ReadConfig : pending' = [base EXCEPT !.settings = v]
        BY <3>1 DEF BeginSave
      <3>3. base \in Configs
        BY ContentsTyped
      <3>4. pending'.session = base.session
        BY <3>2, <3>3 DEF Configs
      <3> QED BY <3>1, <3>4 DEF BeginSave
    <2>3. signedOut => ~HasSession(pending'.session)
      BY <2>2 DEF ForgetInv, Forgotten, ReadConfig, EmptyConfig, HasSession
    <2> QED BY <2>1, <2>2, <2>3 DEF ForgetInv, Forgotten, SavingFor, SessionSavers, HasSession,
            Authenticated
  <1>12. CASE SignOut
    <2>1. phase = "idle" /\ UNCHANGED <<config, delivered, boot, feedOpen, signedOut>>
      BY <1>12 DEF history, SignOut, appVars
    <2>2. phase' = "saving" /\ after' = "sign_out" /\ pending'.session = NoSession
      <3>1. BeginSave("sign_out", NoSession, settings)
        BY <1>12 DEF SignOut
      <3>2. PICK base \in ReadConfig : pending' = [base EXCEPT !.session = NoSession]
        BY <3>1 DEF BeginSave
      <3>3. base \in Configs
        BY ContentsTyped
      <3> QED BY <3>1, <3>2, <3>3 DEF BeginSave, Configs
    <2> QED BY <2>1, <2>2 DEF ForgetInv, Forgotten, SavingFor, SessionSavers, HasSession
  <1>13. CASE StartOperation \/ Recheck
    <2>1. phase = "idle" /\ UNCHANGED <<config, delivered, boot, feedOpen, signedOut>>
      BY <1>13 DEF history, StartOperation, Recheck, appVars
    <2>2. phase' = "load" \/ (phase' = "op_restore" /\ (Authenticated \/ feedOpen))
      BY <1>13 DEF StartOperation, Recheck
    <2> QED BY <2>1, <2>2 DEF ForgetInv, Forgotten, SavingFor, HasSession, Authenticated
  <1>14. CASE Launch
    <2>1. phase = "off" /\ phase' = "load"
          /\ UNCHANGED <<config, delivered, boot, feedOpen, signedOut>>
      BY <1>14 DEF history, Launch
    <2> QED BY <2>1 DEF ForgetInv, Forgotten, SavingFor, HasSession, Authenticated
  <1>15. CASE Exit \/ Crash
    <2>1. /\ phase' = "off" /\ boot' = NoBoot /\ delivered' = NoSession /\ ~feedOpen'
          /\ signedOut' = signedOut
      BY <1>15 DEF history, Exit, Crash, ProcessEnds
    <2>2. signedOut => ~HasSession(config'.session)
      <3>1. CASE phase # "truncated" \/ Exit
        <4>1. config' = config
          BY <1>15, <3>1 DEF Exit, Crash
        <4> QED BY <4>1 DEF ForgetInv, Forgotten, HasSession
      <3>2. CASE phase = "truncated" /\ Crash
        <4>1. config' \in Torn(pending)
          BY <3>2 DEF Crash
        <4>2. signedOut => ~HasSession(pending.session)
          BY <3>2 DEF ForgetInv, Forgotten, SavingFor, SessionSavers, TypeOK, Savers
        <4> QED BY <4>1, <4>2 DEF Torn, HasSession
      <3> QED BY <1>15, <3>1, <3>2
    <2> QED BY <2>1, <2>2 DEF ForgetInv, Forgotten, SavingFor, HasSession, NoBoot
  <1>16. CASE UserWritesLoginTxt \/ ServerRevokes \/ UNCHANGED vars
    <2>1. UNCHANGED <<config, phase, delivered, pending, after, boot, feedOpen, signedOut>>
      BY <1>16 DEF history, UserWritesLoginTxt, ServerRevokes, saveVars, appVars, vars
    <2> QED BY <2>1 DEF ForgetInv, Forgotten, SavingFor, HasSession, Authenticated
  <1>17. QED
    BY <1>1, <1>2, <1>3, <1>4, <1>5, <1>6, <1>7, <1>8, <1>9, <1>10, <1>11, <1>12,
       <1>13, <1>14, <1>15, <1>16, StepCases

(* Once a sign-out has begun to write config.ini, no crash, failed write,  *)
(* bootstrap, operation or later save brings the session back.             *)
THEOREM SignOutFinal == Spec => []SignOutForgets
  <1>1. Init => ForgetInv
    BY DEF Init, ForgetInv, SavingFor
  <1>2. ForgetInv => SignOutForgets
    BY DEF ForgetInv, Forgotten, SignOutForgets, SavingFor
  <1>3. QED
    BY <1>1, <1>2, ForgetStep, TypeCorrect, PTL DEF Spec

(***************************************************************************)
(* Termination                                                             *)
(***************************************************************************)

(* How many steps the application's thread takes at most before its main   *)
(* loop has control again: a save is two (open and write), a bootstrap a   *)
(* restore of up to three attempts and a login, and a sign-out a save and  *)
(* a bootstrap.                                                            *)
StepsLeft ==
    LET signingOut == after = "sign_out"
        retries    == MaxAttempts - attempt
    IN  CASE phase = "truncated"  -> IF signingOut THEN 9 ELSE 1
          [] phase = "saving"     -> IF signingOut THEN 10 ELSE 2
          [] phase = "operation"  -> 3
          [] phase = "op_restore" -> 4 + retries
          [] phase = "create"     -> 3
          [] phase = "login"      -> 4
          [] phase = "restore"    -> 5 + retries
          [] phase = "load"       -> 8
          [] OTHER                -> 0

LEMMA SaveTakesAStep ==
    ASSUME TypeOK, SaveStep
    PROVE  StepsLeft' < StepsLeft
  <1>1. CASE OpenForWriteFails
    BY <1>1 DEF OpenForWriteFails, ReturnFromSave, StepsLeft
  <1>2. CASE TruncateConfig
    BY <1>2 DEF TruncateConfig, StepsLeft, saveVars
  <1>3. CASE WriteConfig
    BY <1>3 DEF WriteConfig, ReturnFromSave, StepsLeft
  <1>4. CASE FlushFails
    BY <1>4 DEF FlushFails, ReturnFromSave, StepsLeft
  <1>5. QED
    BY <1>1, <1>2, <1>3, <1>4 DEF SaveStep

LEMMA RestoreTakesAStep ==
    ASSUME TypeOK, RestoreStep
    PROVE  StepsLeft' < StepsLeft
  <1>1. attempt \in 1..3 /\ phase \in {"restore", "op_restore"}
    BY DEF TypeOK, MaxAttempts, RestoreStep, SessionStillFresh, SessionRefreshed,
           RestoreError, RefreshReplyLost
  <1>2. ASSUME NEW s, RestoreSucceeds(s)
        PROVE  StepsLeft' < StepsLeft
    BY <1>1, <1>2 DEF RestoreSucceeds, BeginSave, StepsLeft, MaxAttempts
  <1>3. ASSUME NEW transient \in BOOLEAN, RestoreFails(transient)
        PROVE  StepsLeft' < StepsLeft
    <2>1. CASE transient /\ attempt < MaxAttempts
      BY <1>1, <1>3, <2>1 DEF RestoreFails, StepsLeft, MaxAttempts
    <2>2. CASE ~ (transient /\ attempt < MaxAttempts)
      BY <1>1, <1>3, <2>2 DEF RestoreFails, StepsLeft, MaxAttempts
    <2>3. QED
      BY <2>1, <2>2
  <1>4. QED
    BY <1>2, <1>3 DEF RestoreStep, SessionStillFresh, SessionRefreshed, RestoreError,
                      RefreshReplyLost

LEMMA BootstrapTakesAStep ==
    ASSUME TypeOK, BootstrapStep
    PROVE  StepsLeft' < StepsLeft
  <1>1. CASE DataDirsUnavailable
    BY <1>1 DEF DataDirsUnavailable, BootstrapReturns, StepsLeft
  <1>2. CASE LoadSavedSession
    BY <1>2 DEF LoadSavedSession, StepsLeft, MaxAttempts
  <1>3. CASE NoLoginTxt
    BY <1>3 DEF NoLoginTxt, BootstrapReturns, StepsLeft
  <1>4. CASE ReadLoginTxt
    BY <1>4 DEF ReadLoginTxt, BootstrapReturns, StepsLeft
  <1>5. CASE SessionCreated
    BY <1>5 DEF SessionCreated, BeginSave, StepsLeft
  <1>6. CASE NullSessionCreated
    BY <1>6 DEF NullSessionCreated, BootstrapReturns, StepsLeft
  <1>7. CASE CreateSessionFails
    BY <1>7 DEF CreateSessionFails, BootstrapReturns, StepsLeft
  <1>8. QED
    BY <1>1, <1>2, <1>3, <1>4, <1>5, <1>6, <1>7 DEF BootstrapStep

(* Whatever fails and however often, each step of the application's thread *)
(* brings the main loop closer by one of at most ten, and nothing else     *)
(* takes it farther away: no retry loop runs on, and no save, bootstrap or *)
(* sign-out begins another of itself.  This is what MainLoopResumes rests  *)
(* on; that a thread which is not in its main loop has a step, and takes   *)
(* it, is what TLC adds.                                                   *)
(* (restore_saved_session_with_retry and its copies, skeets_run_bootstrap, *)
(* config_save and its callers)                                            *)
StepsRunOut ==
    [][phase \notin {"idle", "off"} =>
         /\ StepsLeft \in 1..10
         /\ StepsLeft' <= StepsLeft
         /\ AppStep => StepsLeft' < StepsLeft]_vars

(* The program is in no retry, save or bootstrap for more than ten steps   *)
(* of its own.                                                             *)
THEOREM EveryLoopEnds == Spec => StepsRunOut
  <1>1. ASSUME TypeOK, TypeOK', Next, phase \notin {"idle", "off"}
        PROVE  /\ StepsLeft \in 1..10
               /\ StepsLeft' <= StepsLeft
               /\ AppStep => StepsLeft' < StepsLeft
    <2>1. StepsLeft \in 1..10 /\ StepsLeft' \in 0..10
      BY <1>1 DEF TypeOK, StepsLeft, Phases, MaxAttempts
    <2>2. CASE OperationEnds
      <3>1. StepsLeft' \in {0, 2} /\ StepsLeft = 3
        BY <2>2 DEF OperationEnds, BeginSave, StepsLeft
      <3>2. QED
        BY <2>1, <3>1
    <2>3. CASE SaveStep \/ RestoreStep \/ BootstrapStep
      BY <1>1, <2>1, <2>3, SaveTakesAStep, RestoreTakesAStep, BootstrapTakesAStep
    <2>4. CASE ~AppStep
      <3>1. Environment
        BY <1>1, <2>4 DEF Next, UserStep, StartOperation, ChangeSettings, SignOut, Recheck, Launch, Exit
      <3>2. StepsLeft' = 0 \/ StepsLeft' = StepsLeft
        BY <1>1, <3>1 DEF Environment, Crash, ProcessEnds, UserWritesLoginTxt, ServerRevokes,
                          StepsLeft, saveVars
      <3>3. QED
        BY <2>1, <2>4, <3>2
    <2>5. QED
      BY <2>2, <2>3, <2>4 DEF AppStep
  <1>2. ASSUME TypeOK, TypeOK', [Next]_vars
        PROVE  [phase \notin {"idle", "off"} =>
                  /\ StepsLeft \in 1..10
                  /\ StepsLeft' <= StepsLeft
                  /\ AppStep => StepsLeft' < StepsLeft]_vars
    BY <1>1, <1>2
  <1>3. QED
    BY <1>2, TypeCorrect, PTL DEF Spec, StepsRunOut
=============================================================================
