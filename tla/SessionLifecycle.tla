--------------------------- MODULE SessionLifecycle ---------------------------
(***************************************************************************)
(* The life of one account's session tokens: skeets_run_bootstrap, the     *)
(* restore that precedes every network operation, sign-out, and the        *)
(* read-modify-write of config.ini that the session shares with the        *)
(* settings.  A session is abstracted to the generation number of its      *)
(* token pair; the settings keys of config.ini to one value.               *)
(***************************************************************************)
EXTENDS Integers

CONSTANTS
    MaxTokens,        \* bound: token pairs the server ever issues
    SettingsValues,   \* the values the settings keys can take together
    DefaultSettings,  \* what load_settings yields from an empty config
    ReuseAccepted,    \* does the server still accept a refreshed token pair?
    Faults            \* which faults may happen in a run

FaultKinds == {"crash", "read", "write", "lost_reply", "revoke", "null_session"}

ASSUME TokensAssumption == MaxTokens \in Nat
ASSUME SettingsAssumption == DefaultSettings \in SettingsValues
ASSUME FaultsAssumption == Faults \subseteq FaultKinds /\ ReuseAccepted \in BOOLEAN

VARIABLES
    issued,     \* server: generation of the last token pair it issued
    accepts,    \* server: the generations it accepts
    config,     \* disk: the content of config.ini
    loginTxt,   \* disk: "absent", "incomplete" or "complete"
    phase,      \* where the single application thread is
    attempt,    \* the attempt counter of the restore loops
    saved,      \* saved_session of skeets_run_bootstrap
    delivered,  \* the session most recently handed to a success callback
    pending,    \* the config_t being saved
    after,      \* who called config_save
    boot,       \* app.bootstrap, without its texts
    settings,   \* the settings fields of skeets_app_t
    feedOpen,   \* a feed was loaded, so the feed view can be reached
    signedOut,  \* history: a sign-out reached the file, and no login was made since
    written     \* history: what the writers of the session, and of the settings,
                \* last wrote, or what a write that was cut short left of it

server   == <<issued, accepts>>
saveVars == <<pending, after>>
appVars  == <<boot, settings, feedOpen>>
history  == <<signedOut, written>>
vars == <<issued, accepts, config, loginTxt, phase, attempt, saved, delivered,
          pending, after, boot, settings, feedOpen, history>>

-----------------------------------------------------------------------------
(* Data *)

Tokens    == 1..MaxTokens
NoSession == 0      \* handle, tokens and did all empty
Damaged   == -1     \* all fields present, at least one of them cut short
Sessions  == Tokens \cup {NoSession, Damaged}
Configs   == [session : Sessions, settings : SettingsValues]

MaxAttempts == 3

EmptyConfig == [session |-> NoSession, settings |-> DefaultSettings]
NoBoot      == [state |-> "waiting_for_login", session |-> NoSession]

BootStates == {"waiting_for_login", "session_restored", "login_succeeded", "error"}
Phases     == {"off", "load", "restore", "login", "create", "idle",
               "op_restore", "operation", "saving", "truncated"}
Savers     == {"restored", "created", "operation", "settings", "sign_out"}

Authenticated  == boot.state \in {"session_restored", "login_succeeded"}
HasSession(s)  == s # NoSession
AppRuns        == phase # "off"

(* What config_open can return: the file, or nothing when fopen fails.     *)
ReadConfig == {config} \cup (IF "read" \in Faults THEN {EmptyConfig} ELSE {})

(* What an interrupted write of c can leave behind: any prefix of it.      *)
Torn(c) ==
    [session  : {NoSession, c.session}
                \cup (IF HasSession(c.session) THEN {Damaged} ELSE {}),
     settings : {DefaultSettings, c.settings}]

-----------------------------------------------------------------------------
Init ==
    /\ issued = 0 /\ accepts = {}
    /\ config = EmptyConfig
    /\ loginTxt \in {"absent", "complete"}
    /\ phase = "off" /\ attempt = 1
    /\ saved = NoSession /\ delivered = NoSession
    /\ pending = EmptyConfig /\ after = "settings"
    /\ boot = NoBoot /\ settings = DefaultSettings
    /\ feedOpen = FALSE /\ signedOut = FALSE
    /\ written = EmptyConfig

-----------------------------------------------------------------------------
(* The configuration file *)

(* Mutants of BeginSave: the settings writer, or the session writers, start *)
(* from a fresh config_t and not from what the file holds.                  *)
SettingsSaveStartsEmpty(who, session, newSettings) ==
    /\ \E base \in ReadConfig :
         pending' = IF who = "settings"
                      THEN [EmptyConfig EXCEPT !.settings = newSettings]
                      ELSE [base EXCEPT !.session = session]
    /\ after' = who
    /\ phase' = "saving"

SessionSaveStartsEmpty(who, session, newSettings) ==
    /\ \E base \in ReadConfig :
         pending' = IF who = "settings"
                      THEN [base EXCEPT !.settings = newSettings]
                      ELSE [EmptyConfig EXCEPT !.session = session]
    /\ after' = who
    /\ phase' = "saving"

(* config_open, the config_set_* calls of who, and the call of config_save. *)
(* Each caller sets its own keys and keeps what config_open read.           *)
BeginSave(who, session, newSettings) ==
    /\ \E base \in ReadConfig :
         pending' = IF who = "settings"
                      THEN [base EXCEPT !.settings = newSettings]
                      ELSE [base EXCEPT !.session = session]
    /\ after' = who
    /\ phase' = "saving"

(* What the caller does once config_save has returned, whatever it returned. *)
ReturnFromSave ==
    /\ boot' = CASE after = "restored"  -> [state |-> "session_restored", session |-> delivered]
                 [] after = "created"   -> [state |-> "login_succeeded", session |-> delivered]
                 [] after = "operation" -> [boot EXCEPT !.session = delivered]
                 [] after = "sign_out"  -> NoBoot
                 [] OTHER               -> boot
    /\ feedOpen' = IF after = "sign_out" THEN FALSE ELSE feedOpen
    /\ phase' = IF after = "sign_out" THEN "load" ELSE "idle"
    /\ pending' = EmptyConfig
    /\ UNCHANGED <<server, loginTxt, attempt, saved, delivered, after, settings,
                   signedOut>>

OpenForWriteFails ==
    /\ phase = "saving"
    /\ "write" \in Faults
    /\ UNCHANGED <<config, written>>
    /\ ReturnFromSave

TruncateConfig ==
    /\ phase = "saving"
    /\ config' = EmptyConfig
    /\ phase' = "truncated"
    /\ signedOut' = (signedOut \/ after = "sign_out")
    /\ UNCHANGED <<server, loginTxt, attempt, saved, delivered, saveVars, appVars, written>>

WriteConfig ==
    /\ phase = "truncated"
    /\ config' = pending
    /\ written' = IF after = "settings" THEN [written EXCEPT !.settings = pending.settings]
                                        ELSE [written EXCEPT !.session = pending.session]
    /\ ReturnFromSave

FlushFails ==
    /\ phase = "truncated"
    /\ "write" \in Faults
    /\ config' \in Torn(pending)
    /\ written' = config'
    /\ ReturnFromSave

-----------------------------------------------------------------------------
(* restoreSession: resumeAndRefreshSession against the server *)

RestoringSession == IF phase = "restore" THEN saved ELSE boot.session

ServerRotates(t) ==
    /\ t \in accepts
    /\ issued < MaxTokens
    /\ issued' = issued + 1
    /\ accepts' = (IF ReuseAccepted THEN accepts ELSE accepts \ {t}) \cup {issued + 1}

(* Mutant of RestoreSucceeds: the bootstrap keeps the session in memory only. *)
RestoreSucceedsUnsaved(s) ==
    /\ delivered' = s
    /\ IF phase = "restore"
         THEN /\ boot' = [state |-> "session_restored", session |-> s]
              /\ phase' = "idle"
         ELSE phase' = "operation" /\ UNCHANGED boot
    /\ UNCHANGED <<config, loginTxt, attempt, saved, saveVars, settings, feedOpen, history>>

(* The success callback got session s.  The bootstrap always saves it; an  *)
(* operation first runs, and saves afterwards what changed.                *)
RestoreSucceeds(s) ==
    /\ delivered' = s
    /\ IF phase = "restore"
         THEN BeginSave("restored", s, settings)
         ELSE phase' = "operation" /\ UNCHANGED saveVars
    /\ UNCHANGED <<config, loginTxt, attempt, saved, appVars, history>>

SessionStillFresh ==
    /\ phase \in {"restore", "op_restore"}
    /\ RestoringSession \in accepts
    /\ RestoreSucceeds(RestoringSession)
    /\ UNCHANGED server

SessionRefreshed ==
    /\ phase \in {"restore", "op_restore"}
    /\ ServerRotates(RestoringSession)
    /\ RestoreSucceeds(issued + 1)

(* Mutants of RestoreFails: one attempt too many; the count starts over.   *)
RestoreFailsOneMore(transient) ==
    /\ IF transient /\ attempt <= MaxAttempts
         THEN attempt' = attempt + 1 /\ UNCHANGED phase
         ELSE /\ attempt' = attempt
              /\ phase' = IF phase = "restore" THEN "login" ELSE "idle"
    /\ UNCHANGED <<config, loginTxt, saved, delivered, saveVars, appVars, history>>

RestoreFailsRestarting(transient) ==
    /\ attempt' = IF transient THEN (attempt % MaxAttempts) + 1 ELSE attempt
    /\ phase' = IF transient THEN phase
                 ELSE IF phase = "restore" THEN "login" ELSE "idle"
    /\ UNCHANGED <<config, loginTxt, saved, delivered, saveVars, appVars, history>>

(* A transient error is retried with the same tokens; any other error, and *)
(* the third failure, end the loop.                                        *)
RestoreFails(transient) ==
    /\ IF transient /\ attempt < MaxAttempts
         THEN attempt' = attempt + 1 /\ UNCHANGED phase
         ELSE /\ attempt' = attempt
              /\ phase' = IF phase = "restore" THEN "login" ELSE "idle"
    /\ UNCHANGED <<config, loginTxt, saved, delivered, saveVars, appVars, history>>

RestoreError ==
    /\ phase \in {"restore", "op_restore"}
    /\ \E transient \in BOOLEAN : RestoreFails(transient)
    /\ UNCHANGED server

RefreshReplyLost ==
    /\ phase \in {"restore", "op_restore"}
    /\ "lost_reply" \in Faults
    /\ ServerRotates(RestoringSession)
    /\ RestoreFails(TRUE)

-----------------------------------------------------------------------------
(* skeets_run_bootstrap *)

BootstrapReturns(state, session) ==
    /\ boot' = [state |-> state, session |-> session]
    /\ phase' = "idle"

DataDirsUnavailable ==
    /\ phase = "load"
    /\ "write" \in Faults
    /\ BootstrapReturns("error", NoSession)
    /\ UNCHANGED <<server, config, loginTxt, attempt, saved, delivered, saveVars,
                   settings, feedOpen, history>>

LoadSavedSession ==
    /\ phase = "load"
    /\ \E c \in ReadConfig :
         /\ saved' = c.session
         /\ phase' = IF HasSession(c.session) THEN "restore" ELSE "login"
    /\ attempt' = 1
    /\ UNCHANGED <<server, config, loginTxt, delivered, saveVars, appVars, history>>

(* Mutant of NoLoginTxt: a session that could not be restored is dropped.  *)
NoLoginTxtDropsSession ==
    /\ phase = "login"
    /\ loginTxt = "absent"
    /\ config' = [config EXCEPT !.session = NoSession]
    /\ BootstrapReturns(IF HasSession(saved) THEN "error" ELSE "waiting_for_login", NoSession)
    /\ UNCHANGED <<server, loginTxt, attempt, saved, delivered, saveVars,
                   settings, feedOpen, history>>

NoLoginTxt ==
    /\ phase = "login"
    /\ loginTxt = "absent"
    /\ BootstrapReturns(IF HasSession(saved) THEN "error" ELSE "waiting_for_login", NoSession)
    /\ UNCHANGED <<server, config, loginTxt, attempt, saved, delivered, saveVars,
                   settings, feedOpen, history>>

(* read_login_txt unlinks the file as soon as it is read, and also when    *)
(* config_open could not read it; only then are the fields looked at.      *)
ReadLoginTxt ==
    /\ phase = "login"
    /\ loginTxt # "absent"
    /\ loginTxt' = "absent"
    /\ \/ /\ loginTxt = "complete"
          /\ phase' = "create"
          /\ UNCHANGED boot
       \/ /\ loginTxt = "incomplete" \/ "read" \in Faults
          /\ BootstrapReturns("error", NoSession)
    /\ UNCHANGED <<server, config, attempt, saved, delivered, saveVars,
                   settings, feedOpen, history>>

SessionCreated ==
    /\ phase = "create"
    /\ issued < MaxTokens
    /\ issued' = issued + 1
    /\ accepts' = accepts \cup {issued + 1}
    /\ delivered' = issued + 1
    /\ signedOut' = FALSE
    /\ BeginSave("created", issued + 1, settings)
    /\ UNCHANGED <<config, loginTxt, attempt, saved, appVars, written>>

(* A custom PDS answered without a session object: createSession reports   *)
(* success with an empty session, and save_session skips it.               *)
NullSessionCreated ==
    /\ phase = "create"
    /\ "null_session" \in Faults
    /\ delivered' = NoSession
    /\ BootstrapReturns("login_succeeded", NoSession)
    /\ UNCHANGED <<server, config, loginTxt, attempt, saved, saveVars,
                   settings, feedOpen, history>>

CreateSessionFails ==
    /\ phase = "create"
    /\ BootstrapReturns("error", NoSession)
    /\ UNCHANGED <<server, config, loginTxt, attempt, saved, delivered, saveVars,
                   settings, feedOpen, history>>

-----------------------------------------------------------------------------
(* The running application *)

(* Any fetch or post action begins by restoring app.bootstrap.session.     *)
StartOperation ==
    /\ phase = "idle"
    /\ Authenticated \/ feedOpen
    /\ phase' = "op_restore"
    /\ attempt' = 1
    /\ UNCHANGED <<server, config, loginTxt, saved, delivered, saveVars, appVars, history>>

(* Mutant of OperationEnds: the new tokens are applied on success only.    *)
OperationEndsOnSuccess ==
    /\ phase = "operation"
    /\ \E loaded \in BOOLEAN :
         /\ feedOpen' = (feedOpen \/ loaded)
         /\ IF loaded /\ delivered # boot.session
              THEN BeginSave("operation", delivered, settings)
              ELSE phase' = "idle" /\ UNCHANGED saveVars
    /\ UNCHANGED <<server, config, loginTxt, attempt, saved, delivered, boot,
                   settings, history>>

(* The request itself ends, well or badly.  Either way the caller runs     *)
(* apply_updated_session, which saves when the restore changed the tokens. *)
OperationEnds ==
    /\ phase = "operation"
    /\ \E loaded \in BOOLEAN :
         feedOpen' = (feedOpen \/ loaded)
    /\ IF delivered # boot.session
         THEN BeginSave("operation", delivered, settings)
         ELSE phase' = "idle" /\ UNCHANGED saveVars
    /\ UNCHANGED <<server, config, loginTxt, attempt, saved, delivered, boot,
                   settings, history>>

ChangeSettings ==
    /\ phase = "idle"
    /\ \E v \in SettingsValues \ {settings} :
         /\ settings' = v
         /\ BeginSave("settings", NoSession, v)
    /\ UNCHANGED <<server, config, loginTxt, attempt, saved, delivered, boot,
                   feedOpen, history>>

(* Mutant of SignOut: only the handle is cleared, the tokens stay.         *)
SignOutKeepsTokens ==
    /\ phase = "idle"
    /\ feedOpen
    /\ BeginSave("sign_out", boot.session, settings)
    /\ UNCHANGED <<server, config, loginTxt, attempt, saved, delivered, appVars, history>>

SignOut ==
    /\ phase = "idle"
    /\ feedOpen
    /\ BeginSave("sign_out", NoSession, settings)
    /\ UNCHANGED <<server, config, loginTxt, attempt, saved, delivered, appVars, history>>

(* The dashboard's Recheck and the diagnostics view's Refresh.             *)
Recheck ==
    /\ phase = "idle"
    /\ phase' = "load"
    /\ UNCHANGED <<server, config, loginTxt, attempt, saved, delivered, saveVars,
                   appVars, history>>

(* A new process: load_settings runs before the bootstrap.                 *)
Launch ==
    /\ phase = "off"
    /\ phase' = "load"
    /\ \E c \in ReadConfig : settings' = c.settings
    /\ UNCHANGED <<server, config, loginTxt, attempt, saved, delivered, saveVars,
                   boot, feedOpen, history>>

(* Whatever the process had in memory goes with it.                        *)
ProcessEnds ==
    /\ phase' = "off"
    /\ attempt' = 1
    /\ saved' = NoSession /\ delivered' = NoSession
    /\ pending' = EmptyConfig /\ after' = "settings"
    /\ boot' = NoBoot /\ settings' = DefaultSettings
    /\ feedOpen' = FALSE

Exit ==
    /\ phase = "idle"
    /\ ProcessEnds
    /\ UNCHANGED <<server, config, loginTxt, history>>

-----------------------------------------------------------------------------
(* The environment *)

(* The process is killed or the device loses power.  A write in progress   *)
(* leaves any prefix of the new content.                                   *)
Crash ==
    /\ AppRuns
    /\ "crash" \in Faults
    /\ ProcessEnds
    /\ config' \in IF phase = "truncated" THEN Torn(pending) ELSE {config}
    /\ written' = IF phase = "truncated" THEN config' ELSE written
    /\ UNCHANGED <<server, loginTxt, signedOut>>

UserWritesLoginTxt ==
    /\ phase \in {"off", "idle"}
    /\ loginTxt' \in {"incomplete", "complete"}
    /\ UNCHANGED <<server, config, phase, attempt, saved, delivered, saveVars, appVars,
                   history>>

ServerRevokes ==
    /\ "revoke" \in Faults
    /\ \E t \in accepts : accepts' = accepts \ {t}
    /\ UNCHANGED <<issued, config, loginTxt, phase, attempt, saved, delivered,
                   saveVars, appVars, history>>

-----------------------------------------------------------------------------
SaveStep == OpenForWriteFails \/ TruncateConfig \/ WriteConfig \/ FlushFails

RestoreStep == SessionStillFresh \/ SessionRefreshed \/ RestoreError \/ RefreshReplyLost

BootstrapStep ==
    \/ DataDirsUnavailable \/ LoadSavedSession \/ NoLoginTxt \/ ReadLoginTxt
    \/ SessionCreated \/ NullSessionCreated \/ CreateSessionFails

UserStep == StartOperation \/ ChangeSettings \/ SignOut \/ Recheck \/ Launch \/ Exit

Environment == Crash \/ UserWritesLoginTxt \/ ServerRevokes

(* What the application thread does without waiting for its user.          *)
AppStep == SaveStep \/ RestoreStep \/ BootstrapStep \/ OperationEnds

Next == AppStep \/ UserStep \/ Environment

Spec == Init /\ [][Next]_vars

FairSpec == Spec /\ WF_vars(AppStep)

-----------------------------------------------------------------------------
(* Properties *)

(* Every variable keeps to its domain. *)
TypeOK ==
    /\ issued \in 0..MaxTokens
    /\ accepts \subseteq 1..issued
    /\ config \in Configs
    /\ loginTxt \in {"absent", "incomplete", "complete"}
    /\ phase \in Phases
    /\ attempt \in 1..MaxAttempts
    /\ saved \in Sessions
    /\ delivered \in 0..issued
    /\ pending \in Configs
    /\ after \in Savers
    /\ boot \in [state : BootStates, session : 0..issued]
    /\ settings \in SettingsValues
    /\ feedOpen \in BOOLEAN
    /\ signedOut \in BOOLEAN
    /\ written \in Configs

(* Storage neither refuses a read nor a write (it may still lose power). *)
ReliableStorage == Faults \cap {"read", "write"} = {}

(* A session that a success callback delivered is the one the application  *)
(* goes on with, whether or not the request after it, or the save of it,   *)
(* failed: no refreshed token pair is dropped on the floor.                *)
(* (skeets_fetch_feed's result.session on its error paths,                 *)
(* apply_updated_session, persist_session's assignment after a failed save) *)
AdoptsDelivered ==
    phase = "idle" /\ Authenticated => boot.session = delivered

(* With storage that answers, config.ini holds the application's session at *)
(* every moment at which being killed would lose no write in progress and   *)
(* no undelivered refresh: settings writes, failed rechecks and relaunches  *)
(* never cost the user the login.  And after any crash it holds the session *)
(* that was written last, with one exception: a crash in the middle of a    *)
(* write, of the settings too, may leave it cut short or gone.              *)
(* (persist_session, save_session, save_settings sharing one file by        *)
(* read-modify-write, that config_save truncates and fills)                 *)
SessionOnDisk ==
    /\ (/\ phase \notin {"off", "truncated"}
        /\ Authenticated
        /\ HasSession(boot.session)
        /\ boot.session = delivered)
           => config.session = delivered
    /\ phase # "truncated" => config.session = written.session

(* Likewise for the settings: saving, refreshing or clearing the session    *)
(* never changes what the settings part of the file says, which is what the *)
(* user last chose, launches and crashes in between or not.  The exception  *)
(* is the same: a crash in the middle of a write, of the session too, may   *)
(* lose the settings.                                                       *)
SettingsOnDisk ==
    /\ phase = "idle" => config.settings = settings
    /\ phase # "truncated" => config.settings = written.settings

(* Even if every refresh consumes its tokens, the idle application holds,   *)
(* in memory and on disk, tokens the server accepts, as long as no reply is *)
(* lost: whatever was killed before, wherever it was.  (It may have had to  *)
(* log in anew: of a session whose write was cut short nothing is said.)    *)
IdleSessionUsable ==
    (phase = "idle" /\ Authenticated /\ HasSession(boot.session))
        => boot.session \in accepts /\ config.session \in accepts

(* A bootstrap that could neither restore the saved session nor log in     *)
(* leaves that session on disk for the next launch or Recheck, whatever    *)
(* its user then does in the views that are still open.                    *)
(* (skeets_run_bootstrap's error returns; the save guards against an empty *)
(* session in save_session and persist_session)                            *)
FailedBootKeepsSession ==
    phase = "idle" /\ boot.state = "error" => config.session = saved

(* The retry loops end: a bootstrap or an operation that was begun returns  *)
(* to the main loop (or the process ends), as long as every single request  *)
(* is at last answered or given up by the network library.                  *)
(* (restore_saved_session_with_retry, run_action_with_session)              *)
MainLoopResumes == phase \notin {"idle", "off"} ~> phase \in {"idle", "off"}

(* README.md:43 -- "After successful login, the `login.txt` file is          *)
(* automatically deleted": an attempt that failed leaves the file there.     *)
LoginTxtKeptUntilLogin ==
    [][(phase = "create" /\ phase' = "idle")
         => Authenticated' \/ loginTxt' # "absent"]_vars

(* A sign-out is final: once it began to write the file, neither a crash    *)
(* in the middle of it, nor the bootstrap that follows, nor any later save  *)
(* or launch brings the session back; only a new login does.                *)
(* (clear_saved_session blanks the keys in a file that six functions write) *)
SignOutForgets ==
    signedOut => /\ ~HasSession(config.session)
                 /\ phase = "idle" => ~HasSession(boot.session)

=============================================================================
